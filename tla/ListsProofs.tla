----------------------------- MODULE ListsProofs -----------------------------
(***************************************************************************)
(* What the front end shows of the server's lists follows the server, for  *)
(* any number of files, users, entries, members and requests: the stars    *)
(* and FavoritesPage (Favorites), the pages of the settings of a shared    *)
(* directory with UserSearch (Members), and the lists that come a page at  *)
(* a time (ListPages).  Each has an inductive invariant that says what is  *)
(* known while something is under way.                                     *)
(***************************************************************************)
EXTENDS Lists, FiniteSetTheorems, WellFoundedInduction, TLAPS

-----------------------------------------------------------------------------
(* Favorites.                                                              *)

Signed ==
    /\ page = "login" <=> accessToken = None
    /\ \A r \in Reqs : toggles[r].pc # "idle" => toggles[r].file \in Files /\ toggles[r].token \in Toks
    /\ \A l \in Loads : loads[l].pc # "idle" => loads[l].token \in Toks

\* Only in the scene of sessions do tokens change, and there nothing is toggled.
OneToken ==
    IF scene = "sessions"
    THEN offers = {} /\ \A r \in Reqs : toggles[r].pc = "idle"
    ELSE /\ accessToken # None
         /\ \A r \in Reqs : toggles[r].pc # "idle" => toggles[r].token = accessToken
         /\ \A l \in Loads : loads[l].pc # "idle" => loads[l].token = accessToken
         /\ \A o \in offers : o.token = accessToken

OwnLoads ==
    ~late => \A l \in Loads : loads[l].pc # "idle" =>
                accessToken # None /\ Owner[loads[l].token] = Owner[accessToken]

\* Stars under way, each on a file of its own.
Flips ==
    scene = "toggles" =>
        /\ page = "file" /\ offers = {} /\ \A l \in Loads : loads[l].pc = "idle"
        /\ \A r \in Reqs : LET q == toggles[r] IN
              q.pc # "idle" => /\ q.pc = "sent" /\ q.from = "file"
                               /\ q.add <=> q.file \notin Mine
                               /\ q.add <=> q.file \in store.ids
        /\ \A q, r \in Reqs :
              toggles[q].pc # "idle" /\ toggles[r].pc # "idle" /\ toggles[q].file = toggles[r].file => q = r
        /\ \A f \in Files : Toggled(f) \/ (f \in store.ids <=> f \in Mine)

\* Who waits has one thing under way.
OneByOne ==
    scene = "waits" =>
        /\ \A l \in Loads : LET a == loads[l] IN
              a.pc # "idle" => /\ a.for = "page"  => page = "favorites"
                               /\ a.for = "store" => page = "dashboard"
                               /\ a.pc = "answered" => a.answer = Mine
        /\ \A r \in Reqs : LET q == toggles[r] IN
              q.pc # "idle" => /\ q.from = page
                               /\ \A s \in Reqs : toggles[s].pc # "idle" => r = s
                               /\ \A l \in Loads : loads[l].pc # "idle" => q.pc = "sent" /\ q.why = "upload"
                               /\ q.why = "upload" => page = "favorites"
                               /\ q.pc = "adding" => q.why = "upload" /\ q.file \notin store.ids
                               /\ q.pc = "sent" /\ q.why = "upload" => q.add /\ q.file \in Mine
        /\ \A o \in offers : o.from = page

Good == store.loaded # None /\ forgotten = {}

\* What the star of a file says while it is being toggled.
StarOf(q) ==
    /\ q.pc = "adding" => store.ids = Mine /\ q.file \notin Mine
    /\ q.pc = "sent" /\ q.why = "upload" => store.ids = Mine
    /\ q.pc = "sent" /\ q.why # "upload" =>
          /\ q.add <=> q.file \notin Mine
          /\ store.ids = IF q.add THEN Mine \cup {q.file} ELSE Mine \ {q.file}
    /\ page = "favorites" =>
          /\ q.why = "click" => ~q.add /\ q.file \notin listed
          /\ q.why = "undo"  => q.add
          /\ \A o \in offers : o.file # q.file

Stars ==
    scene = "waits" /\ Good =>
        /\ (\A r \in Reqs : toggles[r].pc = "idle") => store.ids = Mine
        /\ \A r \in Reqs : toggles[r].pc # "idle" => StarOf(toggles[r])
        /\ page = "favorites" => listed \subseteq Mine /\ \A o \in offers : ~o.added /\ o.file \notin Mine

FavInv == TypeOK /\ Signed /\ OneToken /\ OwnLoads /\ StarsAreOwn /\ Flips /\ OneByOne /\ Stars

-----------------------------------------------------------------------------
(* What loading does to the store and to the loads.                         *)

Stores  == [ids : SUBSET Files, loaded : Toks \cup {None}, isLoading : BOOLEAN,
            inFlight : Loads \cup {None}]
LoadsOK == loads \in [Loads -> [pc : {"idle", "asked", "answered"}, for : {"store", "page"},
                                token : Toks \cup {None}, answer : SUBSET Files]]

KeepsStars(st) == store' \in Stores /\ store'.ids = st.ids /\ store'.loaded = st.loaded

\* Each load goes on, or it is one that begins now.
AsksFor(why, t) ==
    /\ LoadsOK'
    /\ \A l \in Loads :
          \/ loads'[l] = loads[l]
          \/ /\ loads[l].pc = "idle" /\ loads'[l].pc = "asked"
             /\ loads'[l].for \in why /\ loads'[l].token = t

LEMMA AskAsks ==
    ASSUME LoadsOK, NEW l \in Loads, loads[l].pc = "idle", NEW why \in {"store", "page"},
           NEW t \in Toks, Ask(l, why, t)
    PROVE  AsksFor({why}, t)
BY DEF LoadsOK, Ask, AsksFor

LEMMA LoadStoreAsks ==
    ASSUME LoadsOK, NEW st \in Stores, NEW t \in Toks, NEW force \in BOOLEAN, LoadStore(st, t, force)
    PROVE  KeepsStars(st) /\ AsksFor({"store"}, t)
<1>1. CASE UNCHANGED loads /\ store' = st
  BY <1>1 DEF LoadsOK, KeepsStars, AsksFor, Stores
<1>2. ASSUME NEW l \in Loads, loads[l].pc = "idle", Ask(l, "store", t),
             store' = [st EXCEPT !.isLoading = TRUE, !.inFlight = l]
      PROVE  KeepsStars(st) /\ AsksFor({"store"}, t)
  BY <1>2, AskAsks DEF KeepsStars, Stores
<1> QED
  BY <1>1, <1>2 DEF LoadStore

LEMMA LoadPageAsks ==
    ASSUME LoadsOK, NEW st \in Stores, NEW t \in Toks, LoadPage(st, t)
    PROVE  KeepsStars(st) /\ AsksFor({"page"}, t)
BY AskAsks DEF Stores, LoadPage, KeepsStars

AskedBy(p) == IF p = "dashboard" THEN {"store"} ELSE IF p = "favorites" THEN {"page"} ELSE {}

LEMMA MountedAsks ==
    ASSUME LoadsOK, NEW st \in Stores, NEW t \in Toks, NEW p \in Pages, Mounted(p, st, t)
    PROVE  KeepsStars(st) /\ AsksFor(AskedBy(p), t)
<1>1. CASE p = "dashboard"
  BY <1>1, LoadStoreAsks DEF Mounted, LoadDashboard, AskedBy
<1>2. CASE p = "favorites"
  BY <1>2, LoadPageAsks DEF Mounted, AskedBy
<1>3. CASE p \notin {"dashboard", "favorites"}
  BY <1>3 DEF Mounted, KeepsStars, AsksFor, Stores, LoadsOK
<1> QED
  BY <1>1, <1>2, <1>3

-----------------------------------------------------------------------------
LEMMA FavInitOK == Init => FavInv
<1> SUFFICES ASSUME Init PROVE FavInv
  OBVIOUS
<1>a. LoadsOK /\ \A l \in Loads : loads[l].pc # "idle" =>
            /\ page = "favorites" /\ loads[l].pc = "asked"
            /\ loads[l].for = "page" /\ loads[l].token = accessToken
  <2>1. CASE page = "favorites"
    <3>1. PICK l \in Loads : loads = [k \in Loads |-> IF k = l
                THEN [NoLoad EXCEPT !.pc = "asked", !.for = "page", !.token = accessToken]
                ELSE NoLoad]
      BY <2>1 DEF Init
    <3>2. accessToken \in Toks \cup {None}
      BY DEF Init
    <3> QED
      BY <2>1, <3>1, <3>2 DEF LoadsOK, NoLoad
  <2>2. CASE page # "favorites"
    BY <2>2 DEF Init, LoadsOK, NoLoad
  <2> QED
    BY <2>1, <2>2
<1>b. store \in Stores /\ page \in Pages
  BY FavoritesAssumption DEF Init, Stores, EmptyStore, Mine, Pages
<1>3. TypeOK
  BY <1>a, <1>b DEF Init, TypeOK, LoadsOK, Stores, NoToggle, Pages
<1>4. /\ \A r \in Reqs : toggles[r].pc = "idle"
      /\ \A l \in Loads : loads[l].pc # "idle" =>
            /\ page = "favorites" /\ loads[l].pc = "asked"
            /\ loads[l].for = "page" /\ loads[l].token = accessToken
  BY <1>a DEF Init, NoToggle
<1>5. Signed
  BY <1>3, <1>4, FavoritesAssumption DEF Init, Signed, TypeOK
<1>6. OneToken /\ OwnLoads
  BY <1>3, <1>4 DEF Init, OneToken, OwnLoads
<1>7. StarsAreOwn
  BY DEF Init, StarsAreOwn, EmptyStore
<1>8. Flips
  BY <1>3, <1>4 DEF Init, Flips, TypeOK, Mine, Toggled
<1>9. OneByOne
  BY <1>3, <1>4 DEF Init, OneByOne
<1>10. Stars
  BY <1>3, <1>4 DEF Init, Stars, Good, EmptyStore
<1> QED
  BY <1>3, <1>5, <1>6, <1>7, <1>8, <1>9, <1>10 DEF FavInv

-----------------------------------------------------------------------------
(* Every step keeps the invariant.                                          *)

LEMMA ReadKeeps == ASSUME FavInv, NEW l \in Loads, Read(l) PROVE FavInv'
<1>1. TypeOK /\ Signed /\ OneToken /\ OwnLoads /\ StarsAreOwn /\ Flips /\ OneByOne /\ Stars
  BY DEF FavInv
<1>a. loads[l].pc = "asked" /\ loads[l].token \in Toks /\ favs[Owner[loads[l].token]] \subseteq Files
  BY <1>1, FavoritesAssumption DEF Read, TypeOK, Signed
<1>3. /\ loads[l].pc = "asked" /\ loads[l].token \in Toks
      /\ UNCHANGED <<favs, accessToken, page, store, listed, toggles, offers, late, forgotten, scene>>
      /\ LoadsOK'
      /\ \A k \in Loads \ {l} : loads'[k] = loads[k]
      /\ loads'[l].pc = "answered" /\ loads'[l].answer = favs[Owner[loads[l].token]]
      /\ loads'[l].for = loads[l].for /\ loads'[l].token = loads[l].token
  BY <1>1, <1>a DEF Read, TypeOK, LoadsOK
<1>4. TypeOK'
  BY <1>1, <1>3 DEF TypeOK, LoadsOK
<1>5. Signed' /\ OneToken' /\ OwnLoads' /\ StarsAreOwn'
  BY <1>1, <1>3 DEF Signed, OneToken, OwnLoads, StarsAreOwn
<1>6. Flips'
  BY <1>1, <1>3 DEF Flips, Mine, Toggled
<1>7. OneByOne'
  BY <1>1, <1>3 DEF OneByOne, OneToken, Mine
<1>8. Stars'
  BY <1>1, <1>3 DEF Stars, Good, StarOf, Mine
<1> QED
  BY <1>4, <1>5, <1>6, <1>7, <1>8 DEF FavInv

LEMMA LoadedKeeps == ASSUME FavInv, NEW l \in Loads, Loaded(l) PROVE FavInv'
<1>1. TypeOK /\ Signed /\ OneToken /\ OwnLoads /\ StarsAreOwn /\ Flips /\ OneByOne /\ Stars
  BY DEF FavInv
<1>2. /\ loads[l].pc = "answered" /\ loads[l].token \in Toks /\ loads[l].answer \subseteq Files
      /\ UNCHANGED <<favs, accessToken, page, toggles, offers, late, scene>>
      /\ LoadsOK'
      /\ \A k \in Loads \ {l} : loads'[k] = loads[k]
      /\ loads'[l].pc = "idle"
  BY <1>1 DEF Loaded, TypeOK, LoadsOK, Signed, NoLoad
<1>a. CASE loads[l].for = "store"
  <2>1. /\ store' \in Stores /\ store'.ids = loads[l].answer /\ store'.loaded = loads[l].token
        /\ forgotten' = {} /\ listed' = listed
    BY <1>a, <1>1, <1>2 DEF Loaded, TypeOK, Settled, Stores
  <2>2. TypeOK'
    BY <1>1, <1>2, <2>1 DEF TypeOK, LoadsOK, Stores
  <2>3. Signed' /\ OneToken' /\ OwnLoads' /\ StarsAreOwn'
    BY <1>1, <1>2, <2>1 DEF Signed, OneToken, OwnLoads, StarsAreOwn
  <2>4. Flips'
    BY <1>1, <1>2, <2>1 DEF Flips, Mine, Toggled
  <2>5. OneByOne'
    BY <1>1, <1>2, <2>1 DEF OneByOne, Mine
  <2>6. Stars'
    BY <1>a, <1>1, <1>2, <2>1 DEF Stars, Good, StarOf, Mine, OneByOne
  <2> QED
    BY <2>2, <2>3, <2>4, <2>5, <2>6 DEF FavInv
<1>b. CASE loads[l].for = "page"
  <2>1. store' = store /\ forgotten' = forgotten /\ listed' = loads[l].answer
    BY <1>b DEF Loaded
  <2>2. TypeOK'
    BY <1>1, <1>2, <2>1 DEF TypeOK, LoadsOK
  <2>3. Signed' /\ OneToken' /\ OwnLoads' /\ StarsAreOwn'
    BY <1>1, <1>2, <2>1 DEF Signed, OneToken, OwnLoads, StarsAreOwn
  <2>4. Flips'
    BY <1>1, <1>2, <2>1 DEF Flips, Mine, Toggled
  <2>5. OneByOne'
    BY <1>1, <1>2, <2>1 DEF OneByOne, Mine
  <2>6. Stars'
    BY <1>b, <1>1, <1>2, <2>1 DEF Stars, Good, StarOf, Mine, OneByOne
  <2> QED
    BY <2>2, <2>3, <2>4, <2>5, <2>6 DEF FavInv
<1> QED
  BY <1>a, <1>b, <1>1 DEF TypeOK

LEMMA LoadFailsKeeps == ASSUME FavInv, NEW l \in Loads, LoadFails(l) PROVE FavInv'
<1>1. TypeOK /\ Signed /\ OneToken /\ OwnLoads /\ StarsAreOwn /\ Flips /\ OneByOne /\ Stars
  BY DEF FavInv
<1>2. /\ loads[l].pc # "idle"
      /\ UNCHANGED <<favs, accessToken, page, listed, toggles, offers, late, forgotten, scene>>
      /\ KeepsStars(store)
      /\ LoadsOK'
      /\ \A k \in Loads \ {l} : loads'[k] = loads[k]
      /\ loads'[l].pc = "idle"
  BY <1>1 DEF LoadFails, TypeOK, LoadsOK, NoLoad, KeepsStars, Stores, Settled
<1>3. TypeOK'
  BY <1>1, <1>2 DEF TypeOK, LoadsOK, KeepsStars, Stores
<1>4. Signed' /\ OneToken' /\ OwnLoads' /\ StarsAreOwn'
  BY <1>1, <1>2 DEF Signed, OneToken, OwnLoads, StarsAreOwn, KeepsStars
<1>5. Flips'
  BY <1>1, <1>2 DEF Flips, Mine, Toggled
<1>6. OneByOne'
  BY <1>1, <1>2 DEF OneByOne, Mine, KeepsStars
<1>7. Stars'
  BY <1>1, <1>2 DEF Stars, Good, StarOf, Mine, KeepsStars
<1> QED
  BY <1>3, <1>4, <1>5, <1>6, <1>7 DEF FavInv

-----------------------------------------------------------------------------
TogglesOK == toggles \in [Reqs -> [pc : {"idle", "sent", "adding"}, file : Files \cup {None},
                                   add : BOOLEAN, from : Pages, token : Toks \cup {None},
                                   why : {"click", "undo", "upload"}]]

\* The request r is for another toggle, or for none, now.
Becomes(r, pc, f, from, t, why) ==
    /\ TogglesOK'
    /\ \A q \in Reqs \ {r} : toggles'[q] = toggles[q]
    /\ toggles'[r].pc = pc /\ toggles'[r].file = f /\ toggles'[r].from = from
    /\ toggles'[r].token = t /\ toggles'[r].why = why

Flip(f) ==
    /\ store' \in Stores /\ store'.loaded = store.loaded
    /\ store'.ids = IF f \in store.ids THEN store.ids \ {f} ELSE store.ids \cup {f}

LEMMA SendBecomes ==
    ASSUME TogglesOK, NEW r \in Reqs, NEW f \in Files, NEW from \in Pages, NEW t \in Toks,
           NEW why \in {"click", "undo", "upload"}, Send(r, f, from, t, why)
    PROVE  /\ Becomes(r, "sent", f, from, t, why)
           /\ toggles'[r].add <=> f \notin store.ids
BY DEF TogglesOK, Send, Becomes

LEMMA FlippedFlips ==
    ASSUME store \in Stores, NEW f \in Files, store' = Flipped(f)
    PROVE  Flip(f)
BY DEF Stores, Flipped, Flip

LEMMA ToggleKeeps ==
    ASSUME FavInv, scene # "sessions", NEW r \in Reqs, NEW f \in Files, Toggle(r, f)
    PROVE  FavInv'
<1>1. TypeOK /\ Signed /\ OneToken /\ OwnLoads /\ StarsAreOwn /\ Flips /\ OneByOne /\ Stars
  BY DEF FavInv
<1>a. TogglesOK /\ store \in Stores /\ accessToken \in Toks /\ page \in Pages
  BY <1>1 DEF TypeOK, TogglesOK, Stores, OneToken
<1>b. Toggles(r, f) /\ page # "login"
  BY DEF Toggle, ToggleOnDashboard, ToggleInDirectory, ToggleOfFile, ToggleListed
<1>c. Flip(f) /\ Becomes(r, "sent", f, page, accessToken, "click") /\ (toggles'[r].add <=> f \notin store.ids)
  BY <1>a, <1>b, SendBecomes, FlippedFlips DEF Toggles
<1>5. /\ Free(r, f) /\ Ready
      /\ UNCHANGED <<favs, accessToken, page, loads, offers, late, forgotten, scene>>
      /\ listed' \subseteq listed
      /\ page = "favorites" => f \in listed /\ f \notin listed'
      /\ page # "favorites" => listed' = listed
  BY <1>b DEF Toggle, ToggleOnDashboard, ToggleInDirectory, ToggleOfFile, ToggleListed, Toggles
<1>6. TypeOK'
  BY <1>1, <1>c, <1>5 DEF TypeOK, Becomes, TogglesOK, Flip, Stores
<1>7. Signed'
  BY <1>1, <1>a, <1>c, <1>5 DEF Signed, Becomes
<1>8. OneToken'
  BY <1>1, <1>c, <1>5 DEF OneToken, Becomes
<1>9. OwnLoads' /\ StarsAreOwn'
  BY <1>1, <1>c, <1>5 DEF OwnLoads, StarsAreOwn, Flip
<1>10. Flips'
  BY <1>1, <1>c, <1>5 DEF Flips, Mine, Toggled, Becomes, Flip, Free
<1>11. OneByOne'
  BY <1>1, <1>c, <1>5 DEF OneByOne, Mine, Becomes, Ready, Patient, Quiet
<1>12. Stars'
  <2> SUFFICES ASSUME scene = "waits", Good
               PROVE  /\ ~ \A q \in Reqs : toggles'[q].pc = "idle"
                      /\ \A q \in Reqs : toggles'[q].pc # "idle" => StarOf(toggles[q])'
                      /\ page = "favorites" => /\ listed' \subseteq Mine'
                                               /\ \A o \in offers' : ~o.added /\ o.file \notin Mine'
    BY <1>5, <1>c DEF Stars, Good, Flip
  <2>1. /\ Quiet /\ store.ids = Mine /\ Mine' = Mine
        /\ page = "favorites" => /\ listed \subseteq Mine
                                   /\ \A p \in offers : ~p.added /\ p.file \notin Mine
    BY <1>1, <1>5 DEF Stars, Ready, Patient, Quiet, Mine
  <2>2. StarOf(toggles[r])'
    BY <1>5, <1>c, <2>1 DEF StarOf, Becomes, Flip
  <2>3. \A q \in Reqs \ {r} : toggles'[q].pc = "idle"
    BY <1>c, <2>1 DEF Quiet, Becomes
  <2> QED
    BY <1>5, <1>c, <2>1, <2>2, <2>3 DEF Becomes
<1> QED
  BY <1>6, <1>7, <1>8, <1>9, <1>10, <1>11, <1>12 DEF FavInv

LEMMA UndoKeeps ==
    ASSUME FavInv, scene # "sessions", NEW r \in Reqs, NEW o \in offers, Undo(r, o)
    PROVE  FavInv'
<1>1. TypeOK /\ Signed /\ OneToken /\ OwnLoads /\ StarsAreOwn /\ Flips /\ OneByOne /\ Stars
  BY DEF FavInv
<1>a. TogglesOK /\ store \in Stores /\ o.file \in Files /\ o.from \in Pages /\ o.token \in Toks
      /\ o.token = accessToken
  BY <1>1 DEF TypeOK, TogglesOK, Stores, OneToken
<1>c. Flip(o.file) /\ Becomes(r, "sent", o.file, o.from, o.token, "undo")
      /\ (toggles'[r].add <=> o.file \notin store.ids)
  BY <1>a, SendBecomes, FlippedFlips DEF Undo
<1>4. /\ Free(r, o.file) /\ Ready /\ offers' = offers \ {o}
      /\ UNCHANGED <<favs, accessToken, page, listed, loads, late, forgotten, scene>>
  BY DEF Undo
<1>5. TypeOK'
  BY <1>1, <1>c, <1>4 DEF TypeOK, Becomes, TogglesOK, Flip, Stores
<1>6. Signed'
  BY <1>1, <1>a, <1>c, <1>4 DEF Signed, Becomes
<1>7. OneToken'
  BY <1>1, <1>a, <1>c, <1>4 DEF OneToken, Becomes
<1>8. OwnLoads' /\ StarsAreOwn'
  BY <1>1, <1>c, <1>4 DEF OwnLoads, StarsAreOwn, Flip
<1>9. Flips'
  BY <1>1, <1>c, <1>4 DEF Flips
<1>10. OneByOne'
  BY <1>1, <1>c, <1>4 DEF OneByOne, Mine, Becomes, Ready, Patient, Quiet
<1>11. Stars'
  <2> SUFFICES ASSUME scene = "waits", Good
               PROVE  /\ ~ \A q \in Reqs : toggles'[q].pc = "idle"
                      /\ \A q \in Reqs : toggles'[q].pc # "idle" => StarOf(toggles[q])'
                      /\ page = "favorites" => /\ listed' \subseteq Mine'
                                               /\ \A p \in offers' : ~p.added /\ p.file \notin Mine'
    BY <1>4, <1>c DEF Stars, Good, Flip
  <2>1. /\ Quiet /\ store.ids = Mine /\ Mine' = Mine
        /\ page = "favorites" => /\ listed \subseteq Mine
                                   /\ \A p \in offers : ~p.added /\ p.file \notin Mine
    BY <1>1, <1>4 DEF Stars, Ready, Patient, Quiet, Mine
  <2>a. page = "favorites" => /\ o.file \notin Mine
                              /\ \A p \in offers' : p.file # o.file
    <3> SUFFICES ASSUME page = "favorites", NEW p \in offers \ {o}, p.file = o.file PROVE FALSE
      BY <1>4, <2>1
    <3>1. /\ p.from = page /\ o.from = page /\ ~p.added /\ ~o.added
          /\ p.token = accessToken /\ o.token = accessToken
      BY <1>1, <2>1 DEF OneByOne, OneToken
    <3>2. \A x \in offers : x = [file |-> x.file, from |-> x.from, added |-> x.added, token |-> x.token]
                              /\ x.added \in BOOLEAN
      BY <1>1 DEF TypeOK
    <3> QED
      BY <3>1, <3>2
  <2>3. StarOf(toggles[r])'
    BY <1>4, <1>c, <2>1, <2>a DEF StarOf, Becomes, Flip
  <2>4. \A q \in Reqs \ {r} : toggles'[q].pc = "idle"
    BY <1>c, <2>1 DEF Quiet, Becomes
  <2> QED
    BY <1>4, <1>c, <2>1, <2>3, <2>4 DEF Becomes
<1> QED
  BY <1>5, <1>6, <1>7, <1>8, <1>9, <1>10, <1>11 DEF FavInv

LEMMA DismissKeeps == ASSUME FavInv, NEW o \in offers, Dismiss(o) PROVE FavInv'
<1>1. TypeOK /\ Signed /\ OneToken /\ OwnLoads /\ StarsAreOwn /\ Flips /\ OneByOne /\ Stars
  BY DEF FavInv
<1>2. /\ offers' = offers \ {o}
      /\ UNCHANGED <<favs, accessToken, page, store, listed, loads, toggles, late, forgotten, scene>>
  BY DEF Dismiss
<1>3. TypeOK' /\ Signed' /\ OneToken'
  BY <1>1, <1>2 DEF TypeOK, Signed, OneToken
<1>4. OwnLoads' /\ StarsAreOwn' /\ Flips'
  BY <1>1, <1>2 DEF OwnLoads, StarsAreOwn, Flips, Mine, Toggled
<1>5. OneByOne'
  BY <1>1, <1>2 DEF OneByOne, Mine
<1>6. Good' = Good /\ Mine' = Mine /\ \A r \in Reqs : StarOf(toggles[r]) => StarOf(toggles[r])'
  BY <1>2 DEF Good, Mine, StarOf
<1>7. Stars'
  BY <1>1, <1>2, <1>6 DEF Stars
<1> QED
  BY <1>3, <1>4, <1>5, <1>7 DEF FavInv

LEMMA UploadKeeps ==
    ASSUME FavInv, scene # "sessions", NEW r \in Reqs, NEW f \in Files, Upload(r, f)
    PROVE  FavInv'
<1>1. TypeOK /\ Signed /\ OneToken /\ OwnLoads /\ StarsAreOwn /\ Flips /\ OneByOne /\ Stars
  BY DEF FavInv
<1>c. Becomes(r, "adding", f, "favorites", accessToken, "upload") /\ toggles'[r].add
  BY <1>1 DEF Upload, TypeOK, TogglesOK, Becomes, Pages
<1>3. /\ Free(r, f) /\ Ready /\ page = "favorites" /\ f \notin Mine /\ f \notin store.ids
      /\ \A o \in offers : o.file # f
      /\ UNCHANGED <<favs, accessToken, page, store, listed, loads, offers, late, forgotten, scene>>
  BY DEF Upload
<1>4. TypeOK'
  BY <1>1, <1>c, <1>3 DEF TypeOK, Becomes, TogglesOK
<1>5. Signed' /\ OneToken'
  BY <1>1, <1>c, <1>3 DEF Signed, OneToken, Becomes, TypeOK
<1>6. OwnLoads' /\ StarsAreOwn' /\ Flips'
  BY <1>1, <1>c, <1>3 DEF OwnLoads, StarsAreOwn, Flips
<1>7. OneByOne'
  BY <1>1, <1>c, <1>3 DEF OneByOne, Mine, Becomes, Ready, Patient, Quiet
<1>8. Stars'
  BY <1>1, <1>c, <1>3 DEF Stars, Good, StarOf, Mine, Becomes, Ready, Patient, Quiet
<1> QED
  BY <1>4, <1>5, <1>6, <1>7, <1>8 DEF FavInv

\* The request r is over.
Over(r) ==
    /\ TogglesOK'
    /\ \A q \in Reqs \ {r} : toggles'[q] = toggles[q]
    /\ toggles'[r].pc = "idle"

\* A toggle is about the favorites of the user.
LEMMA ToggleOfUser ==
    ASSUME FavInv, NEW r \in Reqs, toggles[r].pc # "idle"
    PROVE  /\ TogglesOK /\ store \in Stores /\ LoadsOK
           /\ scene # "sessions" /\ accessToken \in Toks /\ Owner[accessToken] \in Users
           /\ toggles[r].token = accessToken
           /\ toggles[r].file \in Files /\ toggles[r].from \in Pages /\ toggles[r].add \in BOOLEAN
BY FavoritesAssumption DEF FavInv, TypeOK, TogglesOK, Stores, LoadsOK, OneToken, Signed

LEMMA NoToggleOver ==
    ASSUME TogglesOK, NEW r \in Reqs, toggles' = [toggles EXCEPT ![r] = NoToggle]
    PROVE  Over(r)
BY DEF TogglesOK, NoToggle, Over, Pages

LEMMA AddFailsKeeps == ASSUME FavInv, NEW r \in Reqs, AddFails(r) PROVE FavInv'
<1>1. TypeOK /\ Signed /\ OneToken /\ OwnLoads /\ StarsAreOwn /\ Flips /\ OneByOne /\ Stars
  BY DEF FavInv
<1>2. /\ toggles[r].pc = "adding" /\ Over(r)
      /\ UNCHANGED <<favs, accessToken, page, store, listed, loads, offers, late, forgotten, scene>>
  BY ToggleOfUser, NoToggleOver DEF AddFails
<1>3. TypeOK' /\ Signed' /\ OneToken'
  BY <1>1, <1>2 DEF TypeOK, Signed, OneToken, Over, TogglesOK
<1>4. OwnLoads' /\ StarsAreOwn'
  BY <1>1, <1>2 DEF OwnLoads, StarsAreOwn
<1>5. Flips'
  BY <1>1, <1>2 DEF Flips
<1>6. OneByOne'
  BY <1>1, <1>2 DEF OneByOne, Mine, Over
<1>7. Stars'
  BY <1>1, <1>2 DEF Stars, Good, StarOf, Mine, Over, OneByOne
<1> QED
  BY <1>3, <1>4, <1>5, <1>6, <1>7 DEF FavInv

LEMMA AddedKeeps == ASSUME FavInv, NEW r \in Reqs, Added(r) PROVE FavInv'
<1> DEFINE f == toggles[r].file
<1>1. TypeOK /\ Signed /\ OneToken /\ OwnLoads /\ StarsAreOwn /\ Flips /\ OneByOne /\ Stars
  BY DEF FavInv
<1>a. /\ toggles[r].pc = "adding" /\ toggles[r].token = accessToken /\ f \in Files
      /\ scene # "sessions" /\ accessToken \in Toks /\ Owner[accessToken] \in Users
      /\ UNCHANGED <<accessToken, page, listed, offers, late, forgotten, scene>>
  BY ToggleOfUser DEF Added
<1>b. favs' \in [Users -> SUBSET Files] /\ Mine' = Mine \cup {f}
  BY <1>1, <1>a DEF Added, TypeOK, Mine
<1>c. Becomes(r, "sent", f, toggles[r].from, accessToken, "upload") /\ (toggles'[r].add <=> f \notin store.ids)
  BY <1>a, ToggleOfUser, SendBecomes DEF Added
<1>d. /\ Flipped(f) \in Stores
      /\ Flipped(f).ids = (IF f \in store.ids THEN store.ids \ {f} ELSE store.ids \cup {f})
      /\ Flipped(f).loaded = store.loaded
  BY <1>a, ToggleOfUser DEF Flipped, Stores
<1>e. Flip(f) /\ AsksFor(IF page = "favorites" THEN {"page"} ELSE {}, accessToken)
  <2>1. CASE page = "favorites"
    BY <2>1, <1>a, <1>d, ToggleOfUser, LoadPageAsks DEF Added, KeepsStars, Flip
  <2>2. CASE page # "favorites"
    BY <2>2, <1>a, <1>d, ToggleOfUser DEF Added, Flip, AsksFor, LoadsOK
  <2> QED
    BY <2>1, <2>2
<1>7. TypeOK'
  BY <1>1, <1>a, <1>b, <1>c, <1>e DEF TypeOK, Becomes, TogglesOK, Flip, Stores, AsksFor, LoadsOK
<1>8. Signed' /\ OneToken'
  BY <1>1, <1>a, <1>c, <1>e DEF Signed, OneToken, Becomes, AsksFor
<1>9. OwnLoads' /\ StarsAreOwn'
  <2>1. OwnLoads'
    BY <1>1, <1>a, <1>e, FavoritesAssumption DEF OwnLoads, AsksFor
  <2>2. StarsAreOwn'
    BY <1>1, <1>a, <1>e DEF StarsAreOwn, Flip
  <2> QED
    BY <2>1, <2>2
<1>10. Flips'
  BY <1>1, <1>a DEF Flips
<1>11. OneByOne'
  BY <1>1, <1>a, <1>b, <1>c, <1>e DEF OneByOne, Becomes, AsksFor, Flip
<1>12. Stars'
  <2> SUFFICES ASSUME scene = "waits", Good
               PROVE  /\ ~ \A q \in Reqs : toggles'[q].pc = "idle"
                      /\ \A q \in Reqs : toggles'[q].pc # "idle" => StarOf(toggles[q])'
                      /\ page = "favorites" => /\ listed' \subseteq Mine'
                                               /\ \A o \in offers' : ~o.added /\ o.file \notin Mine'
    BY <1>a, <1>e DEF Stars, Good, Flip
  <2>1. StarOf(toggles[r]) /\ toggles[r].why = "upload" /\ page = "favorites"
        /\ \A q \in Reqs \ {r} : toggles[q].pc = "idle"
    BY <1>1, <1>a DEF Stars, OneByOne
  <2>2. store.ids = Mine /\ f \notin Mine /\ \A o \in offers : o.file # f
    BY <1>a, <2>1 DEF StarOf
  <2>3. StarOf(toggles[r])'
    BY <1>a, <1>b, <1>c, <1>e, <2>1, <2>2 DEF StarOf, Becomes, Flip
  <2>4. listed \subseteq Mine /\ \A o \in offers : ~o.added /\ o.file \notin Mine
    BY <1>1, <2>1 DEF Stars
  <2> QED
    BY <1>a, <1>b, <1>c, <2>1, <2>2, <2>3, <2>4 DEF Becomes
<1> QED
  BY <1>7, <1>8, <1>9, <1>10, <1>11, <1>12 DEF FavInv

LEMMA DoneKeeps == ASSUME FavInv, NEW r \in Reqs, Done(r) PROVE FavInv'
<1> DEFINE q == toggles[r]
<1>1. TypeOK /\ Signed /\ OneToken /\ OwnLoads /\ StarsAreOwn /\ Flips /\ OneByOne /\ Stars
  BY DEF FavInv
<1>a. /\ q.pc = "sent" /\ q.token = accessToken /\ q.file \in Files /\ q.from \in Pages /\ q.add \in BOOLEAN
      /\ scene # "sessions" /\ accessToken \in Toks /\ Owner[accessToken] \in Users
      /\ listed' = (IF q.why = "undo" /\ q.from = "favorites" /\ page = "favorites"
                    THEN listed \cup {q.file} ELSE listed)
      /\ offers' = offers \cup Offer(q)
      /\ UNCHANGED <<accessToken, page, late, forgotten, scene>>
  BY ToggleOfUser DEF Done
<1>b. favs' \in [Users -> SUBSET Files] /\ Mine' = IF q.add THEN Mine \cup {q.file} ELSE Mine \ {q.file}
  BY <1>1, <1>a DEF Done, TypeOK, Mine
<1>c. Over(r)
  BY <1>a, ToggleOfUser, NoToggleOver DEF Done
<1>d. KeepsStars(store) /\ AsksFor(IF q.from = "dashboard" THEN {"store"} ELSE {}, accessToken)
  <2>1. CASE q.from = "dashboard"
    BY <2>1, <1>a, ToggleOfUser, LoadStoreAsks DEF Done, RefreshDashboard
  <2>2. CASE q.from # "dashboard"
    BY <2>2, <1>a, ToggleOfUser DEF Done, KeepsStars, AsksFor, LoadsOK
  <2> QED
    BY <2>1, <2>2
<1>e. \A o \in Offer(q) :
         /\ o \in [file : Files, from : Pages, added : BOOLEAN, token : Toks]
         /\ o.file = q.file /\ o.from = q.from /\ o.added = q.add /\ o.token = accessToken
         /\ q.why = "click" /\ q.from # "file"
  BY <1>a DEF Offer
<1>7. TypeOK'
  BY <1>1, <1>a, <1>b, <1>c, <1>d, <1>e
     DEF TypeOK, Over, TogglesOK, KeepsStars, Stores, AsksFor, LoadsOK
<1>8. Signed' /\ OneToken'
  BY <1>1, <1>a, <1>c, <1>d, <1>e DEF Signed, OneToken, Over, AsksFor
<1>9. OwnLoads' /\ StarsAreOwn'
  <2>1. OwnLoads'
    BY <1>1, <1>a, <1>d, FavoritesAssumption DEF OwnLoads, AsksFor
  <2>2. StarsAreOwn'
    BY <1>1, <1>a, <1>d DEF StarsAreOwn, KeepsStars
  <2> QED
    BY <2>1, <2>2
<1>10. Flips'
  BY <1>1, <1>a, <1>b, <1>c, <1>d, <1>e DEF Flips, Over, KeepsStars, AsksFor, Toggled
<1>11. OneByOne'
  <2> SUFFICES ASSUME scene = "waits"
               PROVE  OneByOne'
    BY <1>a DEF OneByOne
  <2>1. /\ q.from = page /\ \A s \in Reqs \ {r} : toggles[s].pc = "idle"
        /\ \A l \in Loads : loads[l].pc # "idle" => q.why = "upload" /\ q.add /\ q.file \in Mine
    BY <1>1, <1>a DEF OneByOne
  <2>2. \A s \in Reqs : toggles'[s].pc = "idle"
    BY <1>c, <2>1 DEF Over
  <2>3. \A l \in Loads : loads[l].pc # "idle" => Mine' = Mine
    BY <1>b, <2>1
  <2>4. ASSUME NEW l \in Loads, loads'[l].pc # "idle"
        PROVE  /\ loads'[l].for = "page"  => page = "favorites"
               /\ loads'[l].for = "store" => page = "dashboard"
               /\ loads'[l].pc = "answered" => loads'[l].answer = Mine'
    BY <1>1, <1>d, <2>1, <2>3, <2>4 DEF OneByOne, AsksFor
  <2>5. \A o \in offers' : o.from = page
    BY <1>1, <1>a, <1>e, <2>1 DEF OneByOne
  <2> QED
    BY <1>a, <2>2, <2>4, <2>5 DEF OneByOne
<1>12. Stars'
  <2> SUFFICES ASSUME scene = "waits", Good
               PROVE  /\ \A s \in Reqs : toggles'[s].pc = "idle"
                      /\ store'.ids = Mine'
                      /\ page = "favorites" => /\ listed' \subseteq Mine'
                                               /\ \A o \in offers' : ~o.added /\ o.file \notin Mine'
    BY <1>a, <1>d DEF Stars, Good, KeepsStars
  <2>1. StarOf(q) /\ q.from = page /\ (q.why = "upload" => q.add /\ q.file \in Mine)
        /\ \A s \in Reqs \ {r} : toggles[s].pc = "idle"
    BY <1>1, <1>a DEF Stars, OneByOne
  <2>2. store'.ids = Mine'
    BY <1>a, <1>b, <1>d, <2>1 DEF StarOf, KeepsStars
  <2>3. page = "favorites" => /\ listed \subseteq Mine
                              /\ \A o \in offers : ~o.added /\ o.file \notin Mine
    BY <1>1 DEF Stars
  <2>4. q.why \in {"click", "undo", "upload"}
    BY <1>1 DEF TypeOK
  <2>5. page = "favorites" => /\ listed' \subseteq Mine'
                              /\ \A o \in offers' : ~o.added /\ o.file \notin Mine'
    BY <1>a, <1>b, <1>e, <2>1, <2>3, <2>4 DEF StarOf
  <2> QED
    BY <1>c, <2>1, <2>2, <2>5 DEF Over
<1> QED
  BY <1>7, <1>8, <1>9, <1>10, <1>11, <1>12 DEF FavInv

LEMMA FailKeepsInv == ASSUME FavInv, NEW r \in Reqs, Fail(r) PROVE FavInv'
<1> DEFINE q == toggles[r]
           why == IF q.from = "dashboard" THEN {"store"}
                  ELSE IF q.from = "favorites" /\ q.why = "click" THEN {"page"} ELSE {}
<1>1. TypeOK /\ Signed /\ OneToken /\ OwnLoads /\ StarsAreOwn /\ Flips /\ OneByOne /\ Stars
  BY DEF FavInv
<1>a. /\ q.pc = "sent" /\ q.token = accessToken /\ q.file \in Files /\ q.from \in Pages /\ q.add \in BOOLEAN
      /\ scene # "sessions" /\ accessToken \in Toks /\ Owner[accessToken] \in Users
      /\ forgotten' = (IF q.add /\ q.file \in Mine THEN forgotten \cup {q.file} ELSE forgotten)
      /\ UNCHANGED <<favs, accessToken, page, listed, offers, late, scene>>
  BY ToggleOfUser DEF Fail, Mine
<1>c. Over(r)
  BY <1>a, ToggleOfUser, NoToggleOver DEF Fail
<1>d. /\ RolledBack(q) \in Stores /\ RolledBack(q).loaded = store.loaded
      /\ RolledBack(q).ids = IF q.add THEN store.ids \ {q.file} ELSE store.ids \cup {q.file}
  BY <1>a, ToggleOfUser DEF RolledBack, Stores
<1>e. KeepsStars(RolledBack(q)) /\ AsksFor(why, accessToken)
  <2>1. CASE q.from = "dashboard"
    BY <2>1, <1>a, <1>d, ToggleOfUser, LoadStoreAsks DEF Fail, RefreshDashboard
  <2>2. CASE q.from = "favorites" /\ q.why = "click"
    BY <2>2, <1>a, <1>d, ToggleOfUser, LoadPageAsks DEF Fail
  <2>3. CASE q.from # "dashboard" /\ ~(q.from = "favorites" /\ q.why = "click")
    BY <2>3, <1>a, <1>d, ToggleOfUser DEF Fail, KeepsStars, AsksFor, LoadsOK
  <2> QED
    BY <2>1, <2>2, <2>3
<1>6. TypeOK'
  BY <1>1, <1>a, <1>c, <1>e DEF TypeOK, Over, TogglesOK, KeepsStars, Stores, AsksFor, LoadsOK
<1>7. Signed' /\ OneToken'
  BY <1>1, <1>a, <1>c, <1>e DEF Signed, OneToken, Over, AsksFor
<1>8. OwnLoads' /\ StarsAreOwn'
  <2>1. OwnLoads'
    BY <1>1, <1>a, <1>d, <1>e, FavoritesAssumption DEF OwnLoads, AsksFor
  <2>2. StarsAreOwn'
    BY <1>1, <1>a, <1>d, <1>e DEF StarsAreOwn, KeepsStars
  <2> QED
    BY <2>1, <2>2
<1>9. Flips'
  BY <1>1, <1>a, <1>c, <1>d, <1>e DEF Flips, Over, KeepsStars, AsksFor, Toggled, Mine
<1>10. OneByOne'
  BY <1>1, <1>a, <1>c, <1>e DEF OneByOne, Over, AsksFor, KeepsStars, Mine
<1>11. Stars'
  <2> SUFFICES ASSUME scene = "waits", Good'
               PROVE  /\ \A s \in Reqs : toggles'[s].pc = "idle"
                      /\ store'.ids = Mine'
                      /\ page = "favorites" => /\ listed' \subseteq Mine'
                                               /\ \A o \in offers' : ~o.added /\ o.file \notin Mine'
    BY <1>a DEF Stars
  <2>1. Good /\ Mine' = Mine /\ ~(q.add /\ q.file \in Mine)
    BY <1>a, <1>d, <1>e DEF Good, KeepsStars, Mine
  <2>2. StarOf(q) /\ (q.why = "upload" => q.add /\ q.file \in Mine)
        /\ \A s \in Reqs \ {r} : toggles[s].pc = "idle"
    BY <1>1, <1>a, <2>1 DEF Stars, OneByOne
  <2>3. store'.ids = Mine'
    BY <1>a, <1>d, <1>e, <2>1, <2>2 DEF StarOf, KeepsStars
  <2> QED
    BY <1>1, <1>a, <1>c, <2>1, <2>2, <2>3 DEF Over, Stars
<1> QED
  BY <1>6, <1>7, <1>8, <1>9, <1>10, <1>11 DEF FavInv

-----------------------------------------------------------------------------
\* A page is opened, or its token changes: what Mounted(p, st, t) keeps.
LEMMA MountKeeps ==
    ASSUME FavInv, NEW p \in Pages, NEW st \in Stores, NEW t \in Toks, Mounted(p, st, t),
           p # "login", page' = p, accessToken' = t, listed' \in {{}, listed},
           scene # "toggles", scene = "sessions" \/ t = accessToken,
           scene = "waits" => Quiet /\ offers = {} /\ listed' = {},
           IF page = "login" THEN st.loaded = None
                             ELSE st = store /\ Owner[t] = Owner[accessToken],
           UNCHANGED <<favs, toggles, offers, late, forgotten, scene>>
    PROVE  FavInv'
<1>1. TypeOK /\ Signed /\ OneToken /\ OwnLoads /\ StarsAreOwn /\ Flips /\ OneByOne /\ Stars
  BY DEF FavInv
<1>2. LoadsOK
  BY <1>1 DEF TypeOK, LoadsOK
<1>3. KeepsStars(st) /\ AsksFor(AskedBy(p), t)
  BY <1>2, MountedAsks
<1>4. TypeOK'
  BY <1>1, <1>3 DEF TypeOK, KeepsStars, Stores, AsksFor, LoadsOK
<1>5. Signed'
  BY <1>1, <1>3, FavoritesAssumption DEF Signed, AsksFor
<1>6. OneToken'
  BY <1>1, <1>3, FavoritesAssumption DEF OneToken, AsksFor
<1>7. OwnLoads'
  BY <1>1, <1>3, FavoritesAssumption DEF OwnLoads, AsksFor, Signed
<1>8. StarsAreOwn'
  BY <1>1, <1>3 DEF StarsAreOwn, KeepsStars, Signed
<1>9. Flips'
  BY DEF Flips
<1>10. OneByOne'
  <2> SUFFICES ASSUME scene = "waits" PROVE OneByOne'
    BY DEF OneByOne
  <2>1. /\ \A r \in Reqs : toggles'[r].pc = "idle"
        /\ \A l \in Loads : loads[l].pc = "idle"
    BY DEF Quiet
  <2>2. ASSUME NEW l \in Loads, loads'[l].pc # "idle"
        PROVE  loads'[l].pc = "asked" /\ loads'[l].for \in AskedBy(p)
    BY <1>3, <2>1, <2>2 DEF AsksFor
  <2> QED
    BY <2>1, <2>2 DEF OneByOne, AskedBy
<1>11. Stars'
  <2> SUFFICES ASSUME scene = "waits", Good PROVE Stars'
    BY <1>1, <1>3 DEF Stars, Good, KeepsStars, OneToken, Signed
  <2>1. store'.ids = store.ids /\ Mine' = Mine
    BY <1>1, <1>3 DEF KeepsStars, OneToken, Signed, Mine
  <2> QED
    BY <1>1, <2>1 DEF Stars, Quiet
<1> QED
  BY <1>4, <1>5, <1>6, <1>7, <1>8, <1>9, <1>10, <1>11 DEF FavInv

LEMMA OpenKeeps ==
    ASSUME FavInv, scene # "toggles", NEW p \in Pages, Open(p)
    PROVE  FavInv'
<1>1. store \in Stores /\ accessToken \in Toks /\ page # "login"
  BY DEF FavInv, TypeOK, Stores, Signed, Open
<1>2. scene = "waits" => Quiet /\ offers = {}
  BY DEF Open, Ready, Patient
<1> QED
  BY <1>1, <1>2, MountKeeps DEF Open

LEMMA LoginKeepsInv ==
    ASSUME FavInv, scene = "sessions", NEW t \in Toks, Login(t)
    PROVE  FavInv'
<1>1. EmptyStore \in Stores /\ EmptyStore.loaded = None /\ page = "login"
  BY DEF FavInv, Stores, EmptyStore, Signed, Login
<1> QED
  BY <1>1, MountKeeps DEF Login, Pages

LEMMA RenewKeeps ==
    ASSUME FavInv, scene = "sessions", NEW t \in Toks, Renew(t)
    PROVE  FavInv'
<1>1. store \in Stores /\ page # "login" /\ page \in Pages
  BY DEF FavInv, TypeOK, Stores, Signed, Renew
<1> QED
  BY <1>1, MountKeeps DEF Renew

LEMMA LogoutKeeps == ASSUME FavInv, scene = "sessions", Logout PROVE FavInv'
<1>1. TypeOK /\ Signed /\ OneToken /\ OwnLoads /\ StarsAreOwn /\ Flips /\ OneByOne /\ Stars
  BY DEF FavInv
<1>a. store' \in Stores
  <2>1. EmptyStore \in Stores
    BY DEF EmptyStore, Stores
  <2> QED
    BY <1>1, <2>1 DEF Logout, TypeOK, Stores
<1>3. TypeOK'
  BY <1>1, <1>a DEF Logout, TypeOK, Stores, Pages
<1>4. Signed' /\ OneToken' /\ StarsAreOwn'
  BY <1>1 DEF Logout, Signed, OneToken, StarsAreOwn
<1>5. OwnLoads'
  BY <1>1 DEF Logout, OwnLoads, Quiet
<1>6. Flips' /\ OneByOne' /\ Stars'
  BY <1>1 DEF Logout, Flips, OneByOne, Stars
<1> QED
  BY <1>3, <1>4, <1>5, <1>6 DEF FavInv

LEMMA FavStutter == ASSUME FavInv, UNCHANGED vars PROVE FavInv'
<1>1. TypeOK' /\ Signed' /\ OneToken' /\ OwnLoads' /\ StarsAreOwn'
  BY DEF FavInv, vars, TypeOK, Signed, OneToken, OwnLoads, StarsAreOwn
<1>2. Flips' /\ OneByOne'
  BY DEF FavInv, vars, Flips, OneByOne, Mine, Toggled
<1>3. Good' = Good /\ Mine' = Mine /\ \A r \in Reqs : StarOf(toggles[r]) => StarOf(toggles[r])'
  BY DEF vars, Good, Mine, StarOf
<1>4. Stars'
  BY <1>3 DEF FavInv, vars, Stars
<1> QED
  BY <1>1, <1>2, <1>4 DEF FavInv

LEMMA FavStepKeeps == FavInv /\ [Next]_vars => FavInv'
<1> SUFFICES ASSUME FavInv, [Next]_vars PROVE FavInv'
  OBVIOUS
<1>1. ASSUME NEW l \in Loads, LoadStep(l) PROVE FavInv'
  BY <1>1, ReadKeeps, LoadedKeeps, LoadFailsKeeps DEF LoadStep
<1>2. ASSUME NEW r \in Reqs, Added(r) \/ AddFails(r) \/ Done(r) \/ Fail(r) PROVE FavInv'
  BY <1>2, AddedKeeps, AddFailsKeeps, DoneKeeps, FailKeepsInv
<1>3. ASSUME scene # "sessions", NEW r \in Reqs,
             \/ \E f \in Files : Toggle(r, f) \/ Upload(r, f)
             \/ \E o \in offers : Undo(r, o)
      PROVE  FavInv'
  BY <1>3, ToggleKeeps, UploadKeeps, UndoKeeps
<1>4. ASSUME scene = "sessions", (\E t \in Toks : Login(t) \/ Renew(t)) \/ Logout PROVE FavInv'
  BY <1>4, LoginKeepsInv, RenewKeeps, LogoutKeeps
<1> QED
  BY <1>1, <1>2, <1>3, <1>4, DismissKeeps, OpenKeeps, FavStutter DEF Next

LEMMA FavInvHolds == Spec => []FavInv
BY FavInitOK, FavStepKeeps, PTL DEF Spec

\* The stars that are shown are never those of another user than the one who is logged
\* in: every load carries the token that asked for it, and the store is reset at logout.
THEOREM StarsAreOwnHolds == Spec => []StarsAreOwn
<1>1. FavInv => StarsAreOwn
  BY DEF FavInv
<1> QED
  BY <1>1, FavInvHolds, PTL

\* The stars and the list of FavoritesPage follow the server: a file that no toggle is
\* under way for has the server's star, and for a user who waits all of them have.
THEOREM FavoritesFollowServerHolds == Spec => []FavoritesFollowServer
<1>1. FavInv => FavoritesFollowServer
  BY DEF FavInv, FavoritesFollowServer, Flips, Stars, Good, Quiet
<1> QED
  BY <1>1, FavInvHolds, PTL

-----------------------------------------------------------------------------
(* Members.                                                                *)

MembersTyped ==
    /\ role \in [People -> Roles \cup {NoRole}] /\ members \in [People -> Roles \cup {NoRole}]
    /\ query \in People \cup {Nobody} /\ results \in People \cup {Nobody}
    /\ invitee \in People \cup {Nobody}

Kinds     == OfSettings \cup OfSearch \cup {"none"}
WorkTyped == work \in [Works -> [kind : Kinds, who : People \cup {Nobody},
                                 from : Roles \cup {NoRole}, to : Roles \cup {NoRole}, mounted : BOOLEAN]]

IsWork(w, kinds) == work[w].kind \in kinds

WorksOK ==
    /\ typing => query # Nobody
    /\ \A w \in Works :
          /\ IsWork(w, {"role", "remove", "search", "ask"}) => work[w].who \in People
          /\ IsWork(w, {"role"}) => work[w].to \in Roles

\* Once the settings are open nothing has been forgotten, and who loads does nothing else.
Attended ==
    gentle /\ settingsOpen =>
        /\ ~trashed
        /\ \A w \in Works : IsWork(w, OfSettings) => work[w].mounted
        /\ \A v, w \in Works :
              IsWork(v, {"load", "members"}) /\ IsWork(w, OfSettings) => v = w
        /\ \A w \in Works :
              IsWork(w, {"load", "members"}) => settingsLoading /\ ~settingsError
        /\ \A w \in Works :
              IsWork(w, OfSettings \ {"load", "members"}) => ~settingsLoading /\ ~settingsError
        /\ shownDirName = dirName
    
\* The gentle user closes no settings while they are changed; a deletion does.
Closed ==
    gentle /\ ~settingsOpen /\ ~trashed => \A w \in Works : ~IsWork(w, OfSettings)

\* A change is of one member, whom nothing else changes.
Changing ==
    gentle /\ settingsOpen =>
        /\ \A v, w \in Works :
              /\ IsWork(v, {"role", "remove"}) /\ IsWork(w, {"role", "remove"})
              /\ work[v].who = work[w].who
              => v = w
        /\ \A w \in Works : LET c == work[w] IN
              /\ IsWork(w, {"role"})   => members[c.who] = c.to /\ role[c.who] = c.from
              /\ IsWork(w, {"remove"}) => members[c.who] = role[c.who] /\ c.to = NoRole

Roled ==
    gentle /\ Shown /\ shared =>
        \A p \in People :
            members[p] = role[p] \/ \E w \in Works : IsWork(w, {"role"}) /\ work[w].who = p

Found ==
    gentle =>
        /\ \A w \in Works : IsWork(w, {"search"}) => work[w].who = query
        /\ \A w \in Works : IsWork(w, {"ask"})    => work[w].who = invitee
        /\ results \in {query, Nobody} \/ typing \/ Doing({"search"})
        /\ success => invitee \in invited \cup {Nobody}

MemInv == MembersTyped /\ WorkTyped /\ WorksOK /\ Attended /\ Closed /\ Changing /\ Roled /\ Found
-----------------------------------------------------------------------------
(* What a step does to the works.                                           *)

Begun(w, what, p, from, to) ==
    /\ WorkTyped'
    /\ work[w].kind = "none" /\ work'[w].mounted
    /\ work'[w].kind = what /\ work'[w].who = p /\ work'[w].from = from /\ work'[w].to = to
    /\ \A v \in Works \ {w} : work'[v] = work[v]

Ended(w) ==
    /\ WorkTyped'
    /\ work'[w].kind = "none" /\ work'[w].who = Nobody
    /\ \A v \in Works \ {w} : work'[v] = work[v]

AllForgotten ==
    /\ WorkTyped'
    /\ \A w \in Works : /\ work'[w].kind = work[w].kind /\ work'[w].who = work[w].who
                        /\ work'[w].to = work[w].to

LEMMA StartsBegun ==
    ASSUME WorkTyped, NEW w \in Works, NEW what \in Kinds, NEW p \in People \cup {Nobody},
           NEW from \in Roles \cup {NoRole}, NEW to \in Roles \cup {NoRole}, Starts(w, what, p, from, to)
    PROVE  Begun(w, what, p, from, to)
BY DEF WorkTyped, Starts, Begun

LEMMA RequestsBegun ==
    ASSUME WorkTyped, NEW w \in Works, NEW what \in Kinds, NEW p \in People \cup {Nobody},
           Requests(w, what, p)
    PROVE  Begun(w, what, p, NoRole, NoRole)
BY StartsBegun DEF Requests

LEMMA EndsEnded == ASSUME WorkTyped, NEW w \in Works, Ends(w) PROVE Ended(w)
BY DEF WorkTyped, Ends, Ended, NoWork, Kinds

LEMMA ForgottenForgotten == ASSUME WorkTyped, work' = Forgotten PROVE AllForgotten
BY DEF WorkTyped, Forgotten, AllForgotten

LEMMA MembersInitOK == MembersInit => MemInv
<1> SUFFICES ASSUME MembersInit PROVE MemInv
  OBVIOUS
<1>1. \A w \in Works : work[w].kind = "none"
  BY DEF MembersInit, NoWork
<1>2. MembersTyped /\ WorkTyped
  BY DEF MembersInit, MembersTyped, WorkTyped, Kinds, NoWork
<1>3. WorksOK /\ Attended /\ Closed /\ Changing
  BY <1>1 DEF MembersInit, WorksOK, Attended, Closed, Changing, IsWork, OfSettings
<1>4. Roled /\ Found
  BY <1>1 DEF MembersInit, Roled, Found, IsWork, Shown
<1> QED
  BY <1>2, <1>3, <1>4 DEF MemInv

-----------------------------------------------------------------------------
(* The settings and the search have works of their own.                     *)

SameWorks(kinds) ==
    \A w \in Works :
        IsWork(w, kinds) \/ IsWork(w, kinds)' =>
            work'[w].kind = work[w].kind /\ work'[w].who = work[w].who

LEMMA SettingsLeaveSearch ==
    ASSUME MemInv, SameWorks(OfSearch), invited \subseteq invited',
           UNCHANGED <<gentle, query, typing, results, invitee, success>>
    PROVE  Found'
BY DEF MemInv, SameWorks, Found, IsWork, OfSearch, Doing

LEMMA SearchLeavesSettings ==
    ASSUME MemInv,
           \A w \in Works : IsWork(w, OfSettings) \/ IsWork(w, OfSettings)' => work'[w] = work[w],
           UNCHANGED <<gentle, role, dirName, trashed, shared, members, shownDirName,
                       settingsOpen, settingsLoading, settingsError>>
    PROVE  Attended' /\ Closed' /\ Changing' /\ Roled'
<1>1. Attended /\ Closed /\ Changing /\ Roled
  BY DEF MemInv
<1>2. /\ OfSettings = {"load", "members", "role", "remove", "invite", "rename", "trash"}
      /\ Shown' = Shown
  BY DEF OfSettings, Shown
<1>3. Attended'
  BY <1>1, <1>2 DEF Attended, IsWork
<1>4. Closed'
  BY <1>1, <1>2 DEF Closed, IsWork
<1>5. Changing'
  BY <1>1, <1>2 DEF Changing, IsWork
<1>6. Roled'
  BY <1>1, <1>2 DEF Roled, IsWork
<1> QED
  BY <1>3, <1>4, <1>5, <1>6

LEMMA EndedIsSame ==
    ASSUME NEW w \in Works, NEW kinds \in {OfSettings, OfSearch}, Ended(w), ~IsWork(w, kinds)
    PROVE  SameWorks(kinds) /\ \A v \in Works : IsWork(v, kinds) \/ IsWork(v, kinds)' => work'[v] = work[v]
BY DEF Ended, IsWork, SameWorks, OfSettings, OfSearch

LEMMA BegunIsSame ==
    ASSUME NEW w \in Works, NEW kinds \in {OfSettings, OfSearch}, NEW what, NEW p, NEW from, NEW to,
           Begun(w, what, p, from, to), what \notin kinds
    PROVE  SameWorks(kinds) /\ \A v \in Works : IsWork(v, kinds) \/ IsWork(v, kinds)' => work'[v] = work[v]
BY DEF Begun, IsWork, SameWorks, OfSettings, OfSearch

-----------------------------------------------------------------------------
LEMMA OpenSettingsKeeps == ASSUME MemInv, NEW w \in Works, OpenSettings(w) PROVE MemInv'
<1>1. MembersTyped /\ WorkTyped /\ WorksOK /\ Attended /\ Closed /\ Changing /\ Roled /\ Found
  BY DEF MemInv
<1>2. /\ ~settingsOpen /\ ~trashed /\ Undisturbed(OfSettings)
      /\ settingsOpen' = TRUE /\ settingsLoading' = TRUE /\ settingsError' = FALSE
      /\ canManage' = FALSE /\ members' = [p \in People |-> NoRole] /\ shownDirName' = dirName
      /\ pendingUser' = Nobody /\ inviting' = FALSE /\ deletingDir' = FALSE
      /\ UNCHANGED <<directoryVars, given, searchVars, inviteVars>>
  BY DEF OpenSettings
<1>3. Begun(w, "load", Nobody, NoRole, NoRole)
  BY <1>1, RequestsBegun DEF OpenSettings, Kinds, OfSettings
<1>4. MembersTyped' /\ WorkTyped'
  BY <1>1, <1>2, <1>3 DEF MembersTyped, Begun, directoryVars, given, searchVars, inviteVars
<1>5. WorksOK'
  BY <1>1, <1>2, <1>3 DEF WorksOK, Begun, IsWork, searchVars
<1>6. gentle => \A v \in Works : ~IsWork(v, OfSettings)
  BY <1>2 DEF Undisturbed, Doing, IsWork
<1>7. Attended' /\ Closed' /\ Changing' /\ Roled'
  BY <1>1, <1>2, <1>3, <1>6
     DEF Attended, Closed, Changing, Roled, Shown, Begun, IsWork, OfSettings,
         directoryVars, given
<1>8. Found'
  BY <1>2, <1>3, BegunIsSame, SettingsLeaveSearch
     DEF OfSettings, OfSearch, directoryVars, given, searchVars, inviteVars
<1> QED
  BY <1>4, <1>5, <1>7, <1>8 DEF MemInv

LEMMA TokenRenewedKeeps == ASSUME MemInv, NEW w \in Works, TokenRenewed(w) PROVE MemInv'
<1>1. MembersTyped /\ WorkTyped /\ WorksOK /\ Attended /\ Closed /\ Changing /\ Roled /\ Found
  BY DEF MemInv
<1>2. /\ settingsOpen /\ Undisturbed(OfSettings)
      /\ settingsLoading' = TRUE /\ settingsError' = FALSE
      /\ UNCHANGED <<directoryVars, given, settingsOpen, canManage, members, shownDirName, pendingUser,
                     inviting, deletingDir, searchVars, inviteVars>>
  BY DEF TokenRenewed
<1>3. Begun(w, "load", Nobody, NoRole, NoRole)
  BY <1>1, RequestsBegun DEF TokenRenewed, Kinds, OfSettings
<1>4. MembersTyped' /\ WorkTyped'
  BY <1>1, <1>2, <1>3 DEF MembersTyped, Begun, directoryVars, given, searchVars, inviteVars
<1>5. WorksOK'
  BY <1>1, <1>2, <1>3 DEF WorksOK, Begun, IsWork, searchVars
<1>6. gentle => \A v \in Works : ~IsWork(v, OfSettings)
  BY <1>2 DEF Undisturbed, Doing, IsWork
<1>7. Attended' /\ Closed' /\ Changing' /\ Roled'
  BY <1>1, <1>2, <1>3, <1>6
     DEF Attended, Closed, Changing, Roled, Shown, Begun, IsWork, OfSettings,
         directoryVars, given
<1>8. Found'
  BY <1>2, <1>3, BegunIsSame, SettingsLeaveSearch
     DEF OfSettings, OfSearch, directoryVars, given, searchVars, inviteVars
<1> QED
  BY <1>4, <1>5, <1>7, <1>8 DEF MemInv

LEMMA LeaveSettingsKeeps == ASSUME MemInv, LeaveSettings PROVE MemInv'
<1>1. MembersTyped /\ WorkTyped /\ WorksOK /\ Attended /\ Closed /\ Changing /\ Roled /\ Found
  BY DEF MemInv
<1>2. /\ settingsOpen /\ Undisturbed(OfSettings) /\ settingsOpen' = FALSE
      /\ UNCHANGED <<directoryVars, given, settingsLoading, settingsError, canManage, members, shownDirName,
                     pendingUser, inviting, deletingDir, searchVars, inviteVars>>
  BY DEF LeaveSettings
<1>3. AllForgotten
  BY <1>1, ForgottenForgotten DEF LeaveSettings
<1>4. MembersTyped' /\ WorkTyped'
  BY <1>1, <1>2, <1>3 DEF MembersTyped, AllForgotten, directoryVars, given, searchVars, inviteVars
<1>5. WorksOK'
  BY <1>1, <1>2, <1>3 DEF WorksOK, AllForgotten, IsWork, searchVars
<1>6. Attended' /\ Closed' /\ Changing' /\ Roled'
  BY <1>2, <1>3
     DEF Attended, Closed, Changing, Roled, Shown, AllForgotten, IsWork, Undisturbed,
         Doing, given
<1>7. Found'
  BY <1>2, <1>3, SettingsLeaveSearch
     DEF SameWorks, AllForgotten, IsWork, directoryVars, given, searchVars, inviteVars
<1> QED
  BY <1>4, <1>5, <1>6, <1>7 DEF MemInv

LEMMA DirectoryArrivesKeeps == ASSUME MemInv, NEW w \in Works, DirectoryArrives(w) PROVE MemInv'
<1>1. MembersTyped /\ WorkTyped /\ WorksOK /\ Attended /\ Closed /\ Changing /\ Roled /\ Found
  BY DEF MemInv
<1>2. /\ work[w].kind = "load"
      /\ UNCHANGED <<directoryVars, given, searchVars, inviteVars, settingsOpen, members>>
  BY DEF DirectoryArrives, settingsVars
<1>3. \/ Ended(w)
      \/ /\ shared /\ work[w].mounted /\ WorkTyped'
         /\ work'[w].kind = "members" /\ work'[w].mounted /\ work'[w].who = work[w].who
         /\ \A v \in Works \ {w} : work'[v] = work[v]
  BY <1>1, EndsEnded DEF DirectoryArrives, WorkTyped, Kinds, OfSettings
<1>4. MembersTyped' /\ WorkTyped'
  BY <1>1, <1>2, <1>3 DEF MembersTyped, Ended, directoryVars, given, searchVars, inviteVars
<1>5. WorksOK'
  BY <1>1, <1>2, <1>3 DEF WorksOK, Ended, IsWork, searchVars
<1>6. SameWorks(OfSearch)
  BY <1>2, <1>3 DEF SameWorks, IsWork, OfSearch, Ended
<1>7. Found'
  BY <1>2, <1>6, SettingsLeaveSearch DEF directoryVars, given, searchVars, inviteVars
<1>8. Attended' /\ Closed' /\ Changing' /\ Roled'
  <2>1. CASE ~(gentle /\ settingsOpen)
    BY <1>1, <1>2, <1>3, <2>1
       DEF Attended, Closed, Changing, Roled, Shown, Ended, IsWork, OfSettings, directoryVars, given
  <2>2. CASE gentle /\ settingsOpen
    <3>1. /\ ~trashed /\ work[w].mounted /\ settingsLoading /\ ~settingsError
          /\ \A v \in Works : IsWork(v, OfSettings) => v = w
      BY <1>1, <1>2, <2>2 DEF Attended, IsWork, OfSettings
    <3>2. /\ shownDirName' = dirName /\ settingsLoading' = (settingsLoading /\ shared)
          /\ settingsError' = settingsError
          /\ IF shared THEN work' = [work EXCEPT ![w].kind = "members"] ELSE Ends(w)
      BY <3>1 DEF DirectoryArrives
    <3>3. CASE shared
      <4>1. /\ work'[w].kind = "members" /\ work'[w].mounted /\ settingsLoading'
            /\ \A v \in Works \ {w} : work'[v] = work[v]
        BY <1>1, <3>1, <3>2, <3>3 DEF WorkTyped
      <4> QED
        BY <1>2, <2>2, <3>1, <3>2, <4>1
           DEF Attended, Closed, Changing, Roled, Shown, IsWork, OfSettings, directoryVars, given
    <3>4. CASE ~shared
      <4>1. Ended(w)
        BY <1>1, <3>2, <3>4, EndsEnded
      <4> QED
        BY <1>2, <2>2, <3>1, <3>2, <3>4, <4>1
           DEF Attended, Closed, Changing, Roled, Shown, Ended, IsWork, OfSettings, directoryVars, given
    <3> QED
      BY <3>3, <3>4
  <2> QED
    BY <2>1, <2>2
<1> QED
  BY <1>4, <1>5, <1>7, <1>8 DEF MemInv

LEMMA MembersArriveKeeps == ASSUME MemInv, NEW w \in Works, MembersArrive(w) PROVE MemInv'
<1>1. MembersTyped /\ WorkTyped /\ WorksOK /\ Attended /\ Closed /\ Changing /\ Roled /\ Found
  BY DEF MemInv
<1>2. /\ work[w].kind = "members"
      /\ UNCHANGED <<directoryVars, given, settingsOpen, settingsError, canManage, shownDirName, pendingUser,
                     inviting, deletingDir, searchVars, inviteVars>>
      /\ IF work[w].mounted THEN members' = role /\ settingsLoading' = FALSE
                            ELSE UNCHANGED <<members, settingsLoading>>
  BY DEF MembersArrive
<1>3. Ended(w)
  BY <1>1, EndsEnded DEF MembersArrive
<1>4. MembersTyped' /\ WorkTyped'
  BY <1>1, <1>2, <1>3 DEF MembersTyped, Ended, directoryVars, given, searchVars, inviteVars
<1>5. WorksOK'
  BY <1>1, <1>2, <1>3 DEF WorksOK, Ended, IsWork, searchVars
<1>6. Found'
  BY <1>2, <1>3, EndedIsSame, SettingsLeaveSearch
     DEF IsWork, OfSearch, directoryVars, given, searchVars, inviteVars
<1>7. Attended' /\ Closed' /\ Changing' /\ Roled'
  <2>1. CASE ~(gentle /\ settingsOpen)
    BY <1>1, <1>2, <1>3, <2>1
       DEF Attended, Closed, Changing, Roled, Shown, Ended, IsWork, OfSettings, directoryVars, given
  <2>2. CASE gentle /\ settingsOpen
    <3>1. /\ ~trashed /\ work[w].mounted /\ settingsLoading /\ ~settingsError
          /\ \A v \in Works : IsWork(v, OfSettings) => v = w
          /\ shownDirName = dirName
      BY <1>1, <1>2, <2>2 DEF Attended, IsWork, OfSettings
    <3>2. \A v \in Works : ~IsWork(v, OfSettings)'
      BY <1>3, <3>1 DEF Ended, IsWork, OfSettings
    <3>3. members' = role
      BY <1>2, <3>1
    <3> QED
      BY <1>2, <2>2, <3>1, <3>2, <3>3
         DEF Attended, Closed, Changing, Roled, Shown, IsWork, OfSettings, directoryVars, given
  <2> QED
    BY <2>1, <2>2
<1> QED
  BY <1>4, <1>5, <1>6, <1>7 DEF MemInv

LEMMA LoadingFailsKeeps == ASSUME MemInv, NEW w \in Works, LoadingFails(w) PROVE MemInv'
<1>1. MembersTyped /\ WorkTyped /\ WorksOK /\ Attended /\ Closed /\ Changing /\ Roled /\ Found
  BY DEF MemInv
<1>2. /\ work[w].kind \in {"load", "members"}
      /\ settingsError' = (settingsError \/ work[w].mounted)
      /\ settingsLoading' = (settingsLoading /\ ~work[w].mounted)
      /\ UNCHANGED <<directoryVars, given, settingsOpen, canManage, members, shownDirName, pendingUser,
                     inviting, deletingDir, searchVars, inviteVars>>
  BY DEF LoadingFails
<1>3. Ended(w)
  BY <1>1, EndsEnded DEF LoadingFails
<1>4. MembersTyped' /\ WorkTyped'
  BY <1>1, <1>2, <1>3 DEF MembersTyped, Ended, directoryVars, given, searchVars, inviteVars
<1>5. WorksOK'
  BY <1>1, <1>2, <1>3 DEF WorksOK, Ended, IsWork, searchVars
<1>6. Found'
  BY <1>2, <1>3, EndedIsSame, SettingsLeaveSearch
     DEF IsWork, OfSearch, directoryVars, given, searchVars, inviteVars
<1>7. Attended' /\ Closed' /\ Changing' /\ Roled'
  <2>1. CASE ~(gentle /\ settingsOpen)
    BY <1>1, <1>2, <1>3, <2>1
       DEF Attended, Closed, Changing, Roled, Shown, Ended, IsWork, OfSettings, directoryVars, given
  <2>2. CASE gentle /\ settingsOpen
    <3>1. /\ ~trashed /\ work[w].mounted
          /\ \A v \in Works : IsWork(v, OfSettings) => v = w
          /\ shownDirName = dirName
      BY <1>1, <1>2, <2>2 DEF Attended, IsWork, OfSettings
    <3>2. (\A v \in Works : ~IsWork(v, OfSettings)') /\ ~Shown'
      BY <1>2, <1>3, <3>1 DEF Ended, IsWork, OfSettings, Shown
    <3> QED
      BY <1>2, <2>2, <3>1, <3>2
         DEF Attended, Closed, Changing, Roled, IsWork, OfSettings, directoryVars, given
  <2> QED
    BY <2>1, <2>2
<1> QED
  BY <1>4, <1>5, <1>6, <1>7 DEF MemInv

LEMMA ChangeRoleKeeps ==
    ASSUME MemInv, NEW w \in Works, NEW p \in People, NEW to \in Roles, ChangeRole(w, p, to)
    PROVE  MemInv'
<1>1. MembersTyped /\ WorkTyped /\ WorksOK /\ Attended /\ Closed /\ Changing /\ Roled /\ Found
  BY DEF MemInv
<1>2. /\ Editable(p) /\ members' = [members EXCEPT ![p] = to]
      /\ UNCHANGED <<directoryVars, given, settingsOpen, settingsLoading, settingsError, canManage,
                     shownDirName, inviting, deletingDir, searchVars, inviteVars>>
  BY DEF ChangeRole
<1>3. Begun(w, "role", p, members[p], to)
  BY <1>1, StartsBegun DEF ChangeRole, MembersTyped, Kinds, OfSettings
<1>4. MembersTyped' /\ WorkTyped'
  BY <1>1, <1>2, <1>3 DEF MembersTyped, Begun, directoryVars, given, searchVars, inviteVars
<1>5. WorksOK'
  BY <1>1, <1>2, <1>3 DEF WorksOK, Begun, IsWork, searchVars
<1>6. Found'
  BY <1>2, <1>3, BegunIsSame, SettingsLeaveSearch
     DEF OfSettings, OfSearch, directoryVars, given, searchVars, inviteVars
<1>7. Attended' /\ Closed'
  BY <1>1, <1>2, <1>3
     DEF Attended, Closed, Editable, Shown, Begun, IsWork, OfSettings, directoryVars,
         given
<1>8. /\ Shown /\ gentle => \A v \in Works : work[v].who # p
      /\ \A q \in People \ {p} : members'[q] = members[q]
      /\ members'[p] = to /\ role' = role
  BY <1>1, <1>2 DEF Editable, MembersTyped, directoryVars
<1>9. gentle /\ settingsOpen => members[p] = role[p]
  BY <1>1, <1>2, <1>8 DEF Editable, Roled
<1>10. Changing'
  BY <1>1, <1>2, <1>3, <1>8, <1>9 DEF Changing, Editable, Begun, IsWork, WorksOK, given
<1>11. Roled'
  BY <1>1, <1>2, <1>3, <1>8 DEF Roled, Shown, Begun, IsWork, Editable, given
<1> QED
  BY <1>4, <1>5, <1>6, <1>7, <1>10, <1>11 DEF MemInv

LEMMA RemoveMemberKeeps ==
    ASSUME MemInv, NEW w \in Works, NEW p \in People, RemoveMember(w, p)
    PROVE  MemInv'
<1>1. MembersTyped /\ WorkTyped /\ WorksOK /\ Attended /\ Closed /\ Changing /\ Roled /\ Found
  BY DEF MemInv
<1>2. /\ Editable(p)
      /\ UNCHANGED <<directoryVars, given, settingsOpen, settingsLoading, settingsError, canManage, members,
                     shownDirName, inviting, deletingDir, searchVars, inviteVars>>
  BY DEF RemoveMember
<1>3. Begun(w, "remove", p, NoRole, NoRole)
  BY <1>1, RequestsBegun DEF RemoveMember, Kinds, OfSettings
<1>4. MembersTyped' /\ WorkTyped'
  BY <1>1, <1>2, <1>3 DEF MembersTyped, Begun, directoryVars, given, searchVars, inviteVars
<1>5. WorksOK'
  BY <1>1, <1>2, <1>3 DEF WorksOK, Begun, IsWork, searchVars
<1>6. Found'
  BY <1>2, <1>3, BegunIsSame, SettingsLeaveSearch
     DEF OfSettings, OfSearch, directoryVars, given, searchVars, inviteVars
<1>7. Attended' /\ Closed'
  BY <1>1, <1>2, <1>3
     DEF Attended, Closed, Editable, Shown, Begun, IsWork, OfSettings, directoryVars,
         given
<1>8. Shown /\ (gentle => \A v \in Works : work[v].who # p) /\ UNCHANGED <<role, members>>
  BY <1>2 DEF Editable, directoryVars
<1>9. gentle /\ settingsOpen => members[p] = role[p]
  BY <1>1, <1>2, <1>8 DEF Editable, Roled
<1>10. Changing'
  BY <1>1, <1>2, <1>3, <1>8, <1>9 DEF Changing, Begun, IsWork, given
<1>11. Roled'
  BY <1>1, <1>2, <1>3, <1>8 DEF Roled, Shown, Begun, IsWork, given
<1> QED
  BY <1>4, <1>5, <1>6, <1>7, <1>10, <1>11 DEF MemInv

LEMMA MemberChangedKeeps == ASSUME MemInv, NEW w \in Works, MemberChanged(w) PROVE MemInv'
<1> DEFINE c == work[w]
<1>1. MembersTyped /\ WorkTyped /\ WorksOK /\ Attended /\ Closed /\ Changing /\ Roled /\ Found
  BY DEF MemInv
<1>2. /\ c.kind \in {"role", "remove"} /\ role' = [role EXCEPT ![c.who] = c.to]
      /\ members' = IF c.kind = "remove" /\ c.mounted THEN [members EXCEPT ![c.who] = NoRole] ELSE members
      /\ UNCHANGED <<invited, dirName, trashed, given, settingsOpen, settingsLoading, settingsError, canManage,
                     shownDirName, inviting, deletingDir, searchVars, inviteVars>>
  BY DEF MemberChanged
<1>3. Ended(w) /\ c.who \in People /\ c.to \in Roles \cup {NoRole}
  BY <1>1, <1>2, EndsEnded DEF MemberChanged, WorksOK, WorkTyped, IsWork
<1>4. MembersTyped' /\ WorkTyped'
  BY <1>1, <1>2, <1>3 DEF MembersTyped, Ended, given, searchVars, inviteVars
<1>5. WorksOK'
  BY <1>1, <1>2, <1>3 DEF WorksOK, Ended, IsWork, searchVars
<1>6. Found'
  BY <1>2, <1>3, EndedIsSame, SettingsLeaveSearch
     DEF IsWork, OfSearch, given, searchVars, inviteVars
<1>7. Attended' /\ Closed'
  BY <1>1, <1>2, <1>3 DEF Attended, Closed, Ended, IsWork, OfSettings, given
<1>8. gentle /\ settingsOpen =>
         /\ c.mounted /\ role'[c.who] = members'[c.who]
         /\ \A q \in People \ {c.who} : role'[q] = role[q] /\ members'[q] = members[q]
         /\ \A v \in Works \ {w} : IsWork(v, {"role", "remove"}) => work[v].who # c.who
  BY <1>1, <1>2, <1>3 DEF MembersTyped, Attended, Changing, IsWork, OfSettings
<1>9. Changing'
  BY <1>1, <1>2, <1>3, <1>8 DEF Changing, Ended, IsWork, WorksOK, given
<1>10. Roled'
  BY <1>1, <1>2, <1>3, <1>8 DEF Roled, Shown, Ended, IsWork, given
<1> QED
  BY <1>4, <1>5, <1>6, <1>7, <1>9, <1>10 DEF MemInv

LEMMA ChangeRefusedKeepsInv == ASSUME MemInv, NEW w \in Works, ChangeRefused(w) PROVE MemInv'
<1> DEFINE c == work[w]
<1>1. MembersTyped /\ WorkTyped /\ WorksOK /\ Attended /\ Closed /\ Changing /\ Roled /\ Found
  BY DEF MemInv
<1>2. /\ c.kind \in {"role", "remove"}
      /\ members' = IF c.kind = "role" /\ c.mounted /\ members[c.who] # NoRole
                    THEN [members EXCEPT ![c.who] = c.from] ELSE members
      /\ UNCHANGED <<directoryVars, given, settingsOpen, settingsLoading, settingsError, canManage,
                     shownDirName, inviting, deletingDir, searchVars, inviteVars>>
  BY DEF ChangeRefused
<1>3. Ended(w) /\ c.who \in People /\ c.from \in Roles \cup {NoRole} /\ (c.kind = "role" => c.to \in Roles)
  BY <1>1, <1>2, EndsEnded DEF ChangeRefused, WorksOK, WorkTyped, IsWork
<1>4. MembersTyped' /\ WorkTyped'
  BY <1>1, <1>2, <1>3 DEF MembersTyped, Ended, directoryVars, given, searchVars, inviteVars
<1>5. WorksOK'
  BY <1>1, <1>2, <1>3 DEF WorksOK, Ended, IsWork, searchVars
<1>6. Found'
  BY <1>2, <1>3, EndedIsSame, SettingsLeaveSearch
     DEF IsWork, OfSearch, directoryVars, given, searchVars, inviteVars
<1>7. Attended' /\ Closed'
  BY <1>1, <1>2, <1>3 DEF Attended, Closed, Ended, IsWork, OfSettings, directoryVars, given
<1>8. gentle /\ settingsOpen =>
         /\ c.mounted /\ role' = role /\ role[c.who] = members'[c.who]
         /\ \A q \in People \ {c.who} : members'[q] = members[q]
         /\ \A v \in Works \ {w} : IsWork(v, {"role", "remove"}) => work[v].who # c.who
  BY <1>1, <1>2, <1>3, MembersAssumption
     DEF MembersTyped, Attended, Changing, IsWork, OfSettings, directoryVars
<1>9. Changing'
  BY <1>1, <1>2, <1>3, <1>8 DEF Changing, Ended, IsWork, WorksOK, given
<1>10. Roled'
  BY <1>1, <1>2, <1>3, <1>8 DEF Roled, Shown, Ended, IsWork, given
<1> QED
  BY <1>4, <1>5, <1>6, <1>7, <1>9, <1>10 DEF MemInv

LEMMA ManageKeeps ==
    ASSUME MemInv, NEW w \in Works, NEW what, NEW p \in People \cup {Nobody}, Manage(w, what, p)
    PROVE  MemInv'
<1>1. MembersTyped /\ WorkTyped /\ WorksOK /\ Attended /\ Closed /\ Changing /\ Roled /\ Found
  BY DEF MemInv
<1>2. /\ Shown /\ what \in {"invite", "rename", "trash"}
      /\ UNCHANGED <<directoryVars, given, settingsOpen, settingsLoading, settingsError, canManage, members,
                     shownDirName, pendingUser, searchVars, inviteVars>>
  BY DEF Manage
<1>3. Begun(w, what, p, NoRole, NoRole)
  BY <1>1, <1>2, RequestsBegun DEF Manage, Kinds, OfSettings
<1>4. MembersTyped' /\ WorkTyped'
  BY <1>1, <1>2, <1>3 DEF MembersTyped, Begun, directoryVars, given, searchVars, inviteVars
<1>5. WorksOK'
  BY <1>1, <1>2, <1>3 DEF WorksOK, Begun, IsWork, searchVars
<1>6. Found'
  BY <1>2, <1>3, BegunIsSame, SettingsLeaveSearch
     DEF OfSearch, directoryVars, given, searchVars, inviteVars
<1>7. Attended' /\ Closed'
  BY <1>1, <1>2, <1>3 DEF Attended, Closed, Shown, Begun, IsWork, OfSettings, directoryVars, given
<1>8. Changing' /\ Roled'
  BY <1>1, <1>2, <1>3 DEF Changing, Roled, Shown, Begun, IsWork, directoryVars, given
<1> QED
  BY <1>4, <1>5, <1>6, <1>7, <1>8 DEF MemInv

LEMMA ManagedKeeps == ASSUME MemInv, NEW w \in Works, Managed(w) PROVE MemInv'
<1> DEFINE c == work[w]
<1>1. MembersTyped /\ WorkTyped /\ WorksOK /\ Attended /\ Closed /\ Changing /\ Roled /\ Found
  BY DEF MemInv
<1>2. /\ c.kind \in {"invite", "rename", "trash"}
      /\ invited \subseteq invited'
      /\ dirName' = (IF c.kind = "rename" THEN "new" ELSE dirName)
      /\ shownDirName' = (IF c.mounted /\ c.kind = "rename" THEN "new" ELSE shownDirName)
      /\ UNCHANGED <<role, given, settingsLoading, settingsError, canManage, members, pendingUser,
                     deletingDir, searchVars, inviteVars>>
  BY DEF Managed
<1>a. CASE c.kind = "trash"
  <2>1. /\ trashed' /\ settingsOpen' = FALSE /\ WorkTyped'
        /\ \A v \in Works : \/ work'[v].kind = "none" /\ v = w
                            \/ /\ work'[v].kind = work[v].kind /\ work'[v].who = work[v].who
                               /\ work'[v].to = work[v].to /\ v # w
    <3>1. work' = [Forgotten EXCEPT ![w] = NoWork] /\ trashed' /\ settingsOpen' = FALSE
      BY <1>a DEF Managed
    <3>2. /\ Forgotten \in [Works -> [kind : Kinds, who : People \cup {Nobody}, from : Roles \cup {NoRole},
                                     to : Roles \cup {NoRole}, mounted : BOOLEAN]]
          /\ \A v \in Works : /\ Forgotten[v].kind = work[v].kind /\ Forgotten[v].who = work[v].who
                              /\ Forgotten[v].to = work[v].to
      BY <1>1 DEF Forgotten, WorkTyped
    <3>3. NoWork \in [kind : Kinds, who : People \cup {Nobody}, from : Roles \cup {NoRole},
                     to : Roles \cup {NoRole}, mounted : BOOLEAN] /\ NoWork.kind = "none"
      BY DEF NoWork, Kinds
    <3> QED
      BY <3>1, <3>2, <3>3 DEF WorkTyped
  <2>2. MembersTyped' /\ WorkTyped'
    BY <1>1, <1>2, <2>1 DEF MembersTyped, given, searchVars, inviteVars
  <2>3. WorksOK'
    BY <1>1, <1>2, <2>1 DEF WorksOK, IsWork, searchVars
  <2>4. SameWorks(OfSearch)
    BY <1>2, <2>1 DEF SameWorks, IsWork, OfSearch
  <2>5. Found'
    BY <1>2, <2>4, SettingsLeaveSearch DEF given, searchVars, inviteVars
  <2>6. Attended' /\ Closed' /\ Changing' /\ Roled'
    BY <2>1 DEF Attended, Closed, Changing, Roled, Shown
  <2> QED
    BY <2>2, <2>3, <2>5, <2>6 DEF MemInv
<1>b. CASE c.kind # "trash"
  <2>1. Ended(w) /\ UNCHANGED settingsOpen /\ trashed' = (trashed \/ FALSE)
    BY <1>1, <1>b, EndsEnded DEF Managed
  <2>2. MembersTyped' /\ WorkTyped'
    BY <1>1, <1>2, <2>1 DEF MembersTyped, Ended, given, searchVars, inviteVars
  <2>3. WorksOK'
    BY <1>1, <1>2, <2>1 DEF WorksOK, Ended, IsWork, searchVars
  <2>4. Found'
    BY <1>2, <2>1, EndedIsSame, SettingsLeaveSearch
       DEF IsWork, OfSearch, given, searchVars, inviteVars
  <2>5. Attended' /\ Closed'
    BY <1>1, <1>2, <2>1 DEF Attended, Closed, Ended, IsWork, OfSettings, given
  <2>6. Changing' /\ Roled'
    BY <1>1, <1>2, <2>1 DEF Changing, Roled, Shown, Ended, IsWork, given
  <2> QED
    BY <2>2, <2>3, <2>4, <2>5, <2>6 DEF MemInv
<1> QED
  BY <1>a, <1>b

LEMMA ManagingFailsKeeps == ASSUME MemInv, NEW w \in Works, ManagingFails(w) PROVE MemInv'
<1>1. MembersTyped /\ WorkTyped /\ WorksOK /\ Attended /\ Closed /\ Changing /\ Roled /\ Found
  BY DEF MemInv
<1>2. /\ work[w].kind \in {"invite", "rename", "trash"}
      /\ UNCHANGED <<directoryVars, given, settingsOpen, settingsLoading, settingsError, canManage, members,
                     shownDirName, pendingUser, searchVars, inviteVars>>
  BY DEF ManagingFails
<1>3. Ended(w)
  BY <1>1, EndsEnded DEF ManagingFails
<1>4. MembersTyped' /\ WorkTyped'
  BY <1>1, <1>2, <1>3 DEF MembersTyped, Ended, directoryVars, given, searchVars, inviteVars
<1>5. WorksOK'
  BY <1>1, <1>2, <1>3 DEF WorksOK, Ended, IsWork, searchVars
<1>6. Found'
  BY <1>2, <1>3, EndedIsSame, SettingsLeaveSearch
     DEF IsWork, OfSearch, directoryVars, given, searchVars, inviteVars
<1>7. Attended' /\ Closed'
  BY <1>1, <1>2, <1>3 DEF Attended, Closed, Ended, IsWork, OfSettings, directoryVars, given
<1>8. Changing' /\ Roled'
  BY <1>1, <1>2, <1>3 DEF Changing, Roled, Shown, Ended, IsWork, directoryVars, given
<1> QED
  BY <1>4, <1>5, <1>6, <1>7, <1>8 DEF MemInv

-----------------------------------------------------------------------------
(* UserSearch: only what it has found, and what its works are about.        *)

LEMMA SearchStepKeeps ==
    ASSUME MemInv, UNCHANGED <<role, dirName, trashed, given, settingsVars>>, MembersTyped', WorkTyped',
           \A w \in Works : IsWork(w, OfSettings) \/ IsWork(w, OfSettings)' => work'[w] = work[w],
           Found', WorksOK'
    PROVE  MemInv'
<1>1. Attended' /\ Closed' /\ Changing' /\ Roled'
  BY SearchLeavesSettings DEF given, settingsVars
<1> QED
  BY <1>1 DEF MemInv

LEMMA TypeQueryKeeps ==
    ASSUME MemInv, NEW q \in People \cup {Nobody}, TypeQuery(q)
    PROVE  MemInv'
<1>1. MembersTyped' /\ WorkTyped'
  BY DEF MemInv, TypeQuery, MembersTyped, WorkTyped, directoryVars, settingsVars, inviteVars
<1>2. WorksOK'
  BY DEF MemInv, TypeQuery, WorksOK, IsWork
<1>3. Found'
  BY DEF MemInv, TypeQuery, Found, IsWork, Doing, Undisturbed, OfSearch, directoryVars,
         given, inviteVars
<1> QED
  BY <1>1, <1>2, <1>3, SearchStepKeeps DEF TypeQuery, IsWork, directoryVars

LEMMA SearchAgainKeeps == ASSUME MemInv, SearchAgain \/ ClickOutside PROVE MemInv'
<1>1. MembersTyped' /\ WorkTyped'
  BY DEF MemInv, SearchAgain, ClickOutside, MembersTyped, WorkTyped, directoryVars,
         settingsVars, inviteVars
<1>2. WorksOK'
  BY DEF MemInv, SearchAgain, ClickOutside, WorksOK, IsWork
<1>3. Found'
  BY DEF MemInv, SearchAgain, ClickOutside, Found, IsWork, Doing, directoryVars, given, inviteVars
<1> QED
  BY <1>1, <1>2, <1>3, SearchStepKeeps DEF SearchAgain, ClickOutside, IsWork, directoryVars

LEMMA SearchKeeps == ASSUME MemInv, NEW w \in Works, Search(w) PROVE MemInv'
<1>1. WorkTyped /\ MembersTyped /\ WorksOK /\ Found
  BY DEF MemInv
<1>2. typing /\ query # Nobody /\ query \in People
      /\ UNCHANGED <<directoryVars, given, settingsVars, query, results, dropDown, inviteVars>>
  BY <1>1 DEF Search, WorksOK, MembersTyped
<1>3. Begun(w, "search", query, NoRole, NoRole) /\ typing' = FALSE
  BY <1>1, <1>2, RequestsBegun DEF Search, Kinds, OfSearch
<1>4. MembersTyped' /\ WorkTyped'
  BY <1>1, <1>2, <1>3 DEF MembersTyped, Begun, directoryVars, settingsVars, inviteVars
<1>5. WorksOK'
  BY <1>1, <1>2, <1>3 DEF WorksOK, Begun, IsWork
<1>6. Found'
  BY <1>1, <1>2, <1>3 DEF Found, Begun, IsWork, Doing, directoryVars, given, inviteVars
<1> QED
  BY <1>2, <1>3, <1>4, <1>5, <1>6, BegunIsSame, SearchStepKeeps DEF OfSettings, directoryVars

LEMMA SearchEndsKeeps == ASSUME MemInv, NEW w \in Works, SearchEnds(w) PROVE MemInv'
<1>1. WorkTyped /\ MembersTyped /\ WorksOK /\ Found
  BY DEF MemInv
<1>2. work[w].kind = "search" /\ results' \in {work[w].who, Nobody} /\ work[w].who \in People
      /\ UNCHANGED <<directoryVars, given, settingsVars, query, typing, dropDown, inviteVars>>
  BY <1>1 DEF SearchEnds, WorksOK, IsWork
<1>3. Ended(w)
  BY <1>1, EndsEnded DEF SearchEnds
<1>4. MembersTyped' /\ WorkTyped'
  BY <1>1, <1>2, <1>3 DEF MembersTyped, Ended, directoryVars, settingsVars, inviteVars
<1>5. WorksOK'
  BY <1>1, <1>2, <1>3 DEF WorksOK, Ended, IsWork
<1>6. Found'
  BY <1>1, <1>2, <1>3 DEF Found, Ended, IsWork, Doing, directoryVars, given, inviteVars
<1> QED
  BY <1>2, <1>3, <1>4, <1>5, <1>6, EndedIsSame, SearchStepKeeps
     DEF IsWork, OfSettings, directoryVars

LEMMA OpenInviteKeeps ==
    ASSUME MemInv, NEW w \in Works, NEW p \in People, OpenInvite(w, p)
    PROVE  MemInv'
<1>1. WorkTyped /\ MembersTyped /\ WorksOK /\ Found
  BY DEF MemInv
<1>2. Undisturbed(OfSearch) /\ invitee' = p /\ success' = FALSE
      /\ UNCHANGED <<directoryVars, given, settingsVars, query, typing, results, canPick, asking>>
  BY DEF OpenInvite
<1>3. Begun(w, "dirs", Nobody, NoRole, NoRole)
  BY <1>1, RequestsBegun DEF OpenInvite, Kinds, OfSearch
<1>4. MembersTyped' /\ WorkTyped'
  BY <1>1, <1>2, <1>3 DEF MembersTyped, Begun, directoryVars, settingsVars
<1>5. WorksOK'
  BY <1>1, <1>2, <1>3 DEF WorksOK, Begun, IsWork
<1>6. Found'
  BY <1>1, <1>2, <1>3 DEF Found, Begun, IsWork, Doing, Undisturbed, OfSearch, directoryVars, given
<1> QED
  BY <1>2, <1>3, <1>4, <1>5, <1>6, BegunIsSame, SearchStepKeeps DEF OfSettings, directoryVars

LEMMA CloseInviteKeeps == ASSUME MemInv, CloseInvite PROVE MemInv'
<1>1. WorkTyped /\ MembersTyped /\ WorksOK /\ Found
  BY DEF MemInv
<1>2. MembersTyped' /\ WorkTyped'
  BY <1>1 DEF CloseInvite, MembersTyped, WorkTyped, directoryVars, settingsVars, searchVars
<1>3. WorksOK'
  BY <1>1 DEF CloseInvite, WorksOK, IsWork, searchVars
<1>4. Found'
  BY <1>1
     DEF CloseInvite, Found, IsWork, Doing, Undisturbed, OfSearch, directoryVars, given,
         searchVars
<1> QED
  BY <1>2, <1>3, <1>4, SearchStepKeeps DEF CloseInvite, IsWork, directoryVars

LEMMA DirsEndKeeps == ASSUME MemInv, NEW w \in Works, DirsEnd(w) PROVE MemInv'
<1>1. WorkTyped /\ MembersTyped /\ WorksOK /\ Found
  BY DEF MemInv
<1>2. /\ work[w].kind = "dirs"
      /\ UNCHANGED <<directoryVars, given, settingsVars, searchVars, invitee, asking, success>>
  BY DEF DirsEnd
<1>3. Ended(w)
  BY <1>1, EndsEnded DEF DirsEnd
<1>4. MembersTyped' /\ WorkTyped'
  BY <1>1, <1>2, <1>3 DEF MembersTyped, Ended, directoryVars, settingsVars, searchVars
<1>5. WorksOK'
  BY <1>1, <1>2, <1>3 DEF WorksOK, Ended, IsWork, searchVars
<1>6. Found'
  BY <1>1, <1>2, <1>3 DEF Found, Ended, IsWork, Doing, directoryVars, given, searchVars
<1> QED
  BY <1>2, <1>3, <1>4, <1>5, <1>6, EndedIsSame, SearchStepKeeps
     DEF IsWork, OfSettings, directoryVars

LEMMA SendInviteKeeps == ASSUME MemInv, NEW w \in Works, SendInvite(w) PROVE MemInv'
<1>1. WorkTyped /\ MembersTyped /\ WorksOK /\ Found
  BY DEF MemInv
<1>2. invitee \in People
      /\ UNCHANGED <<directoryVars, given, settingsVars, searchVars, invitee, loadingDirs, canPick, success>>
  BY <1>1 DEF SendInvite, MembersTyped
<1>3. Begun(w, "ask", invitee, NoRole, NoRole)
  BY <1>1, <1>2, RequestsBegun DEF SendInvite, Kinds, OfSearch
<1>4. MembersTyped' /\ WorkTyped'
  BY <1>1, <1>2, <1>3 DEF MembersTyped, Begun, directoryVars, settingsVars, searchVars
<1>5. WorksOK'
  BY <1>1, <1>2, <1>3 DEF WorksOK, Begun, IsWork, searchVars
<1>6. Found'
  BY <1>1, <1>2, <1>3 DEF Found, Begun, IsWork, Doing, directoryVars, given, searchVars
<1> QED
  BY <1>2, <1>3, <1>4, <1>5, <1>6, BegunIsSame, SearchStepKeeps DEF OfSettings, directoryVars

LEMMA InviteEndsKeeps ==
    ASSUME MemInv, NEW w \in Works, InviteSent(w) \/ InviteFails(w)
    PROVE  MemInv'
<1>1. WorkTyped /\ MembersTyped /\ WorksOK /\ Found
  BY DEF MemInv
<1>2. work[w].kind = "ask" /\ invited \subseteq invited'
      /\ (success' = success \/ work[w].who \in invited')
      /\ UNCHANGED <<role, dirName, trashed, given, settingsVars, searchVars, invitee, loadingDirs, canPick>>
  BY DEF InviteSent, InviteFails, directoryVars
<1>3. Ended(w)
  BY <1>1, EndsEnded DEF InviteSent, InviteFails
<1>4. MembersTyped' /\ WorkTyped'
  BY <1>1, <1>2, <1>3 DEF MembersTyped, Ended, settingsVars, searchVars
<1>5. WorksOK'
  BY <1>1, <1>2, <1>3 DEF WorksOK, Ended, IsWork, searchVars
<1>6. Found'
  BY <1>1, <1>2, <1>3 DEF Found, Ended, IsWork, Doing, given, searchVars
<1> QED
  BY <1>2, <1>3, <1>4, <1>5, <1>6, EndedIsSame, SearchStepKeeps DEF IsWork, OfSettings

-----------------------------------------------------------------------------
LEMMA MembersStutter == ASSUME MemInv, UNCHANGED membersVars PROVE MemInv'
<1>1. /\ UNCHANGED <<role, dirName, trashed, mayManage, shared, gentle, invited, work>>
      /\ UNCHANGED settingsVars /\ UNCHANGED searchVars /\ UNCHANGED inviteVars
  BY DEF membersVars, settingsVars, searchVars, inviteVars
<1>2. MembersTyped' /\ WorkTyped' /\ WorksOK'
  BY <1>1
     DEF MemInv, MembersTyped, WorkTyped, WorksOK, IsWork, settingsVars, searchVars,
         inviteVars
<1>3. Found'
  BY <1>1 DEF MemInv, Found, IsWork, Doing, searchVars, inviteVars
<1> QED
  BY <1>1, <1>2, <1>3, SearchStepKeeps DEF given, IsWork

LEMMA MembersStepKeeps == MemInv /\ [MembersNext]_membersVars => MemInv'
<1> SUFFICES ASSUME MemInv, [MembersNext]_membersVars PROVE MemInv'
  OBVIOUS
<1>1. ASSUME NEW w \in Works, WorkStep(w) PROVE MemInv'
  BY <1>1, DirectoryArrivesKeeps, MembersArriveKeeps, LoadingFailsKeeps, MemberChangedKeeps,
     ChangeRefusedKeepsInv, ManagedKeeps, ManagingFailsKeeps, SearchEndsKeeps, DirsEndKeeps, InviteEndsKeeps
     DEF WorkStep
<1>2. ASSUME NEW w \in Works, SettingsBegin(w) PROVE MemInv'
  BY <1>2, OpenSettingsKeeps, TokenRenewedKeeps, RemoveMemberKeeps, ChangeRoleKeeps, ManageKeeps
     DEF SettingsBegin
<1>3. ASSUME NEW w \in Works, SearchBegin(w) PROVE MemInv'
  BY <1>3, SearchKeeps, SendInviteKeeps, OpenInviteKeeps DEF SearchBegin
<1> QED
  BY <1>1, <1>2, <1>3, LeaveSettingsKeeps, CloseInviteKeeps, SearchAgainKeeps,
     TypeQueryKeeps, MembersStutter
     DEF MembersNext

\* What the pages of settings and UserSearch show is on the server, while several
\* members may be changed at once and any of the changes may be refused.
THEOREM MembersFollowServerHolds == MembersSpec => []MembersFollowServer
<1>1. MembersInit => MemInv
  BY MembersInitOK
<1>2. MemInv => MembersFollowServer
  BY DEF MemInv, MembersFollowServer, Attended, Roled, Found, Shown
<1> QED
  BY <1>1, <1>2, MembersStepKeeps, PTL DEF MembersSpec

-----------------------------------------------------------------------------
(* ListPages.                                                              *)

Cursors == [Sections -> Entries \cup {NoEntry}]
AsksOK  == ask \in [Asks -> [pc : {"idle", "sent", "list", "listed"}, step : Steps,
                             entry : Entries \cup {NoEntry}, from : Cursors,
                             got : SUBSET Entries, next : Cursors]]

ShownTyped ==
    /\ kind \in ListKinds /\ there \subseteq Entries /\ answered \subseteq Entries
    /\ items \subseteq Entries /\ twice \subseteq Entries /\ undos \subseteq Entries
    /\ cursor \in Cursors

Asking(k, steps) == ask[k].pc # "idle" /\ ask[k].step \in steps

\* Which page asks for what.
StepsOK ==
    /\ undos # {} => kind = "links"
    /\ answered # {} => kind = "invitations"
    /\ \A k \in Asks :
          /\ ask[k].pc \in {"list", "listed"} => ask[k].step \in {"load", "more", "reload"}
          /\ ask[k].pc = "sent" => ask[k].step \in {"remove", "undo", "clear", "change"}
          /\ ask[k].pc = "sent" /\ ask[k].step # "clear" => ask[k].entry \in Entries
          /\ Asking(k, {"remove"}) => kind # "shared"
          /\ Asking(k, {"undo", "reload"}) => kind = "links"
          /\ Asking(k, {"clear"})  => kind \in {"trash", "links"}
          /\ Asking(k, {"change"}) => kind \in {"links", "shared"}
          /\ Asking(k, {"load"})   => ask[k].from = NoCursors

\* A list of one section has one cursor; one that comes all at once has none.
CursorsOK ==
    calm =>
        /\ kind # "trash"  => \A s \in Sections \ {Main} : cursor[s] = NoEntry
        /\ kind = "shared" => \A s \in Sections : cursor[s] = NoEntry

\* What the server answers to a request with these cursors.
Answer(from) == Kept(UNION {PageOf(Below(s, from[s])) : s \in Sections})
NextCursors(from) == [s \in Sections |-> NextOf(Below(s, from[s]))]

\* Who waits has one thing under way, and lets the toasts go before the list is loaded again.
OneAsk ==
    calm =>
        /\ \A j, k \in Asks : ask[j].pc # "idle" /\ ask[k].pc # "idle" => j = k
        /\ \A k \in Asks :
              /\ Asking(k, {"load", "clear", "change"}) => undos = {}
              /\ Asking(k, {"reload"}) => error
              /\ Asking(k, {"more"})   => ask[k].from = cursor /\ \E s \in Sections : cursor[s] # NoEntry
              /\ ask[k].pc = "listed" =>
                    ask[k].got = Answer(ask[k].from) /\ ask[k].next = NextCursors(ask[k].from)

\* The list follows the server, but for the entries of some set.
FollowsBut(some) ==
    /\ kind # "trash" => twice = {}
    /\ items \subseteq Kept(there)
    /\ \A e \in Kept(there) \ some :
           e \in items \/ (cursor[SectionIn(e)] # NoEntry /\ Rank[e] > Rank[cursor[SectionIn(e)]])

Follows ==
    calm /\ ~error =>
        /\ ListQuiet => FollowsBut({})
        /\ \A k \in Asks :
              /\ Asking(k, {"more", "undo", "clear", "change"}) => FollowsBut({})
              /\ Asking(k, {"remove"}) =>
                    /\ FollowsBut(IF kind = "links" THEN {ask[k].entry} ELSE {})
                    /\ kind = "links" => ask[k].entry \notin items

\* What has been shown or removed lies before the cursor.
BeforeCursor ==
    calm /\ ~error /\ kind # "trash" /\ cursor[Main] # NoEntry =>
        /\ \A e \in items \cup undos : Rank[e] <= Rank[cursor[Main]]
        /\ \A k \in Asks : Asking(k, {"remove", "undo"}) => Rank[ask[k].entry] <= Rank[cursor[Main]]

ListInv == ShownTyped /\ AsksOK /\ StepsOK /\ CursorsOK /\ OneAsk /\ Follows /\ BeforeCursor

-----------------------------------------------------------------------------
(* What the server answers: a page is the beginning of a list.              *)

LEMMA NatHasMin ==
    ASSUME NEW T \in SUBSET Nat, T # {}
    PROVE  \E m \in T : \A n \in T : m <= n
<1> DEFINE R == {p \in Nat \X Nat : p[1] < p[2]}
<1>1. IsWellFoundedOn(R, Nat)
  BY NatLessThanWellFounded DEF OpToRel
<1>2. \A x, y \in Nat : <<y, x>> \in R <=> y < x
  OBVIOUS
<1> HIDE DEF R
<1>3. PICK x \in T : \A y \in T : ~ (<<y, x>> \in R)
  BY <1>1, WFMin
<1>4. ASSUME NEW y \in T PROVE x <= y
  <2>1. x \in Nat /\ y \in Nat /\ ~ (y < x)
    BY <1>2, <1>3
  <2> QED
    BY <2>1
<1> QED
  BY <1>4

\* Who comes before e comes before whoever comes after it.
LEMMA FewerBefore ==
    ASSUME NEW S \in SUBSET Entries, NEW e \in S, NEW f \in S, Rank[f] <= Rank[e],
           Cardinality({g \in S : Rank[g] < Rank[e]}) < Limit
    PROVE  Cardinality({g \in S : Rank[g] < Rank[f]}) < Limit
<1> DEFINE E == {g \in S : Rank[g] < Rank[e]}
           F == {g \in S : Rank[g] < Rank[f]}
<1>1. \A g \in Entries : Rank[g] \in Nat
  BY ListPagesAssumption
<1>2. F \in SUBSET E
  BY <1>1
<1>3. IsFiniteSet(E)
  BY ListPagesAssumption, FS_Subset
<1>4. IsFiniteSet(F) /\ Cardinality(F) <= Cardinality(E)
  BY <1>2, <1>3, FS_Subset
<1>5. Cardinality(E) \in Nat /\ Cardinality(F) \in Nat
  BY <1>3, <1>4, FS_CardinalityType
<1>6. Cardinality(E) < Limit /\ Limit \in Nat
  BY ListPagesAssumption
<1> HIDE DEF E, F
<1>7. Cardinality(F) < Limit
  BY <1>4, <1>5, <1>6
<1> QED
  BY <1>7 DEF F

LEMMA PageComesFirst ==
    ASSUME NEW S \in SUBSET Entries
    PROVE  /\ PageOf(S) \subseteq S
           /\ \A e \in PageOf(S), f \in S \ PageOf(S) : Rank[e] < Rank[f]
           /\ S # {} => PageOf(S) # {}
<1>1. \A g \in Entries : Rank[g] \in Nat
  BY ListPagesAssumption
<1>2. PageOf(S) \subseteq S
  BY DEF PageOf
<1>3. ASSUME NEW e \in PageOf(S), NEW f \in S \ PageOf(S) PROVE Rank[e] < Rank[f]
  <2> SUFFICES ASSUME Rank[f] <= Rank[e] PROVE f \in PageOf(S)
    BY <1>1, <1>2
  <2>1. CASE ~Paged
    BY <2>1 DEF PageOf
  <2>2. CASE Paged
    <3>1. e \in S /\ Cardinality({g \in S : Rank[g] < Rank[e]}) < Limit
      BY <2>2 DEF PageOf
    <3>2. Cardinality({g \in S : Rank[g] < Rank[f]}) < Limit
      BY <3>1, FewerBefore
    <3> QED
      BY <2>2, <3>2 DEF PageOf
  <2> QED
    BY <2>1, <2>2
<1>4. ASSUME S # {} PROVE PageOf(S) # {}
  <2>1. CASE ~Paged
    BY <1>4, <2>1 DEF PageOf
  <2>2. CASE Paged
    <3> DEFINE T == {Rank[e] : e \in S}
    <3>1. T \in SUBSET Nat /\ T # {}
      BY <1>1, <1>4
    <3> HIDE DEF T
    <3>2. PICK m \in T : \A n \in T : m <= n
      BY <3>1, NatHasMin
    <3>3. PICK e \in S : Rank[e] = m
      BY <3>2 DEF T
    <3>4. \A f \in S : ~ (Rank[f] < Rank[e])
      <4> TAKE f \in S
      <4>1. Rank[f] \in T /\ Rank[f] \in Nat /\ m \in Nat
        BY <1>1, <3>1 DEF T
      <4>2. m <= Rank[f]
        BY <3>2, <4>1
      <4> QED
        BY <3>3, <4>1, <4>2
    <3>5. {f \in S : Rank[f] < Rank[e]} = {}
      BY <3>4
    <3>6. Cardinality({f \in S : Rank[f] < Rank[e]}) < Limit
      BY <3>5, FS_EmptySet, ListPagesAssumption
    <3> QED
      BY <2>2, <3>6 DEF PageOf
  <2> QED
    BY <2>1, <2>2
<1> QED
  BY <1>2, <1>3, <1>4

\* The next cursor is the last entry of the page, unless nothing comes after it.
LEMMA NextIsLast ==
    ASSUME NEW S \in SUBSET Entries
    PROVE  /\ NextOf(S) \in Entries \cup {NoEntry}
           /\ NextOf(S) = NoEntry => PageOf(S) = S
           /\ NextOf(S) # NoEntry =>
                 /\ NextOf(S) \in S
                 /\ \A f \in PageOf(S) : Rank[f] <= Rank[NextOf(S)]
                 /\ \A f \in S \ PageOf(S) : Rank[f] > Rank[NextOf(S)]
           /\ kind = "shared" => NextOf(S) = NoEntry
<1> DEFINE P == PageOf(S)
<1>1. \A g \in Entries : Rank[g] \in Nat
  BY ListPagesAssumption
<1>2. CASE S = P
  BY <1>2 DEF NextOf
<1>3. CASE S # P
  <2>1. P \subseteq S /\ P # {} /\ S \ P # {} /\ \A e \in P, f \in S \ P : Rank[e] < Rank[f]
    BY <1>3, PageComesFirst
  <2>2. PICK t \in S \ P : TRUE
    BY <2>1
  <2> DEFINE T == {Rank[t] - Rank[e] : e \in P}
  <2> HIDE DEF P
  <2>3. T \in SUBSET Nat /\ T # {}
    BY <1>1, <2>1, <2>2
  <2> HIDE DEF T
  <2>4. PICK m \in T : \A n \in T : m <= n
    BY <2>3, NatHasMin
  <2>5. PICK e \in P : Rank[t] - Rank[e] = m
    BY <2>4 DEF T
  <2>6. \A f \in P : Rank[f] <= Rank[e]
    <3> TAKE f \in P
    <3>1. Rank[t] - Rank[f] \in T
      BY DEF T
    <3>2. Rank[t] - Rank[e] <= Rank[t] - Rank[f]
      BY <2>4, <2>5, <3>1
    <3> QED
      BY <1>1, <2>1, <2>2, <3>2
  <2>7. NextOf(S) \in P /\ \A f \in P : Rank[f] <= Rank[NextOf(S)]
    BY <1>3, <2>6 DEF NextOf, LastOf, P
  <2>8. NextOf(S) # NoEntry /\ kind # "shared"
    BY <1>3, <2>1, <2>7, ListPagesAssumption DEF P, PageOf, Paged
  <2> QED
    BY <1>1, <2>1, <2>7, <2>8 DEF P
<1> QED
  BY <1>2, <1>3

-----------------------------------------------------------------------------
(* What a step does to the requests.                                        *)

Others(k) == AsksOK' /\ \A j \in Asks \ {k} : ask'[j] = ask[j]

Lists(k, step, from) ==
    /\ Others(k) /\ ask'[k].pc = "list" /\ ask'[k].step = step /\ ask'[k].from = from

LEMMA NoCursorsTyped == NoCursors \in Cursors /\ NoAsk \in [pc : {"idle", "sent", "list", "listed"},
    step : Steps, entry : Entries \cup {NoEntry}, from : Cursors, got : SUBSET Entries, next : Cursors]
<1>1. NoCursors \in Cursors
  BY DEF NoCursors, Cursors
<1> QED
  BY <1>1 DEF NoAsk, Steps

LEMMA AskListLists ==
    ASSUME AsksOK, NEW k \in Asks, NEW step \in Steps, NEW from \in Cursors, AskList(k, step, from)
    PROVE  Lists(k, step, from)
<1> DEFINE a == [NoAsk EXCEPT !.pc = "list", !.step = step, !.from = from]
<1>1. /\ a \in [pc : {"idle", "sent", "list", "listed"}, step : Steps,
               entry : Entries \cup {NoEntry}, from : Cursors, got : SUBSET Entries, next : Cursors]
      /\ a.pc = "list" /\ a.step = step /\ a.from = from
  BY NoCursorsTyped
<1>2. ask' = [ask EXCEPT ![k] = a]
  BY DEF AskList
<1> HIDE DEF a
<1> QED
  BY <1>1, <1>2 DEF AsksOK, Others, Lists

LEMMA BeginBegins ==
    ASSUME AsksOK, NEW k \in Asks, NEW step \in Steps, NEW e \in Entries \cup {NoEntry}, Begin(k, step, e)
    PROVE  Others(k) /\ ask'[k].pc = "sent" /\ ask'[k].step = step /\ ask'[k].entry = e
<1> DEFINE a == [NoAsk EXCEPT !.pc = "sent", !.step = step, !.entry = e]
<1>1. /\ a \in [pc : {"idle", "sent", "list", "listed"}, step : Steps,
               entry : Entries \cup {NoEntry}, from : Cursors, got : SUBSET Entries, next : Cursors]
      /\ a.pc = "sent" /\ a.step = step /\ a.entry = e
  BY NoCursorsTyped
<1>2. ask' = [ask EXCEPT ![k] = a]
  BY DEF Begin
<1> HIDE DEF a
<1> QED
  BY <1>1, <1>2 DEF AsksOK, Others

LEMMA EndEnds == ASSUME AsksOK, NEW k \in Asks, End(k) PROVE Others(k) /\ ask'[k].pc = "idle"
<1>1. NoAsk.pc = "idle"
  BY DEF NoAsk
<1> QED
  BY <1>1, NoCursorsTyped DEF AsksOK, End, Others

LEMMA Reading ==
    ASSUME AsksOK, ShownTyped, NEW k \in Asks, LoadList(k)
    PROVE  /\ Lists(k, "load", NoCursors) /\ error' = FALSE /\ UNCHANGED <<items, twice>>
           /\ cursor' \in {cursor, NoCursors}
           /\ kind \in {"trash", "shared"} => cursor' = cursor
           /\ kind = "links" => cursor' = NoCursors
BY AskListLists, NoCursorsTyped
   DEF LoadList, LoadTrash, LoadLinks, LoadInvitations, LoadDirectories, Reads, Steps

-----------------------------------------------------------------------------
LEMMA ListInitOK == ListInit => ListInv
<1> SUFFICES ASSUME ListInit PROVE ListInv
  OBVIOUS
<1>1. PICK k \in Asks : ask = [j \in Asks |-> IF j = k THEN [NoAsk EXCEPT !.pc = "list"] ELSE NoAsk]
  BY DEF ListInit
<1>2. [NoAsk EXCEPT !.pc = "list"] \in [pc : {"idle", "sent", "list", "listed"},
         step : Steps, entry : Entries \cup {NoEntry}, from : Cursors, got : SUBSET Entries, next : Cursors]
  BY NoCursorsTyped
<1>3. AsksOK
  BY <1>1, <1>2, NoCursorsTyped DEF AsksOK
<1>4. \A j \in Asks : ask[j].pc # "idle" =>
         j = k /\ ask[j].pc = "list" /\ ask[j].step = "load" /\ ask[j].from = NoCursors
  BY <1>1 DEF NoAsk
<1>5. ask[k].pc = "list" /\ ~ListQuiet
  BY <1>1 DEF NoAsk, ListQuiet
<1>6. ShownTyped
  BY NoCursorsTyped DEF ListInit, ShownTyped
<1>7. StepsOK
  BY <1>4 DEF ListInit, StepsOK, Asking
<1>8. CursorsOK /\ OneAsk
  BY <1>4 DEF ListInit, CursorsOK, OneAsk, Asking, NoCursors
<1>9. Follows /\ BeforeCursor
  BY <1>4, <1>5, ListPagesAssumption DEF ListInit, Follows, BeforeCursor, Asking, NoCursors
<1> QED
  BY <1>3, <1>6, <1>7, <1>8, <1>9 DEF ListInv

-----------------------------------------------------------------------------
(* The user begins something, when nothing is under way.                    *)

LEMMA QuietFollows == ASSUME ListInv, calm, ListQuiet, ~error PROVE FollowsBut({})
BY DEF ListInv, Follows

LEMMA SameFollows ==
    ASSUME UNCHANGED <<kind, there, answered, items, twice, cursor>>, NEW some
    PROVE  FollowsBut(some)' <=> FollowsBut(some)
BY DEF FollowsBut, Kept, SectionIn

LEMMA SamePages ==
    ASSUME UNCHANGED <<kind, there, answered>>, NEW from
    PROVE  Answer(from)' = Answer(from) /\ NextCursors(from)' = NextCursors(from)
<1>1. ASSUME NEW s, NEW c PROVE Below(s, c)' = Below(s, c)
  BY DEF Below, SectionIn
<1>2. ASSUME NEW S PROVE PageOf(S)' = PageOf(S)
  BY DEF PageOf, Paged
<1>3. ASSUME NEW S PROVE NextOf(S)' = NextOf(S)
  BY <1>2 DEF NextOf
<1>4. (UNION {PageOf(Below(s, from[s])) : s \in Sections})'
            = UNION {PageOf(Below(s, from[s])) : s \in Sections}
  BY <1>1, <1>2
<1> QED
  BY <1>1, <1>3, <1>4 DEF Answer, NextCursors, Kept

LEMMA ScrollKeeps == ASSUME ListInv, NEW k \in Asks, Scroll(k) PROVE ListInv'
<1>1. ShownTyped /\ AsksOK /\ StepsOK /\ CursorsOK /\ OneAsk /\ Follows /\ BeforeCursor
  BY DEF ListInv
<1>2. /\ ask[k].pc = "idle" /\ (calm => ListQuiet)
      /\ UNCHANGED <<kind, calm, there, answered, items, twice, cursor, error, undos>>
  BY DEF Scroll, Idle, ListReady, server, shownVars
<1>3. Lists(k, "more", cursor)
  BY <1>1, AskListLists DEF Scroll, ShownTyped, Steps
<1>a. \E s \in Sections : cursor[s] # NoEntry
  BY DEF Scroll
<1>5. ShownTyped' /\ AsksOK'
  BY <1>1, <1>2, <1>3 DEF ShownTyped, Lists, Others
<1>6. StepsOK'
  BY <1>1, <1>2, <1>3 DEF StepsOK, Asking, Lists, Others
<1>7. CursorsOK'
  BY <1>1, <1>2 DEF CursorsOK
<1>8. OneAsk'
  BY <1>1, <1>2, <1>3, <1>a DEF OneAsk, Asking, Lists, Others, ListQuiet
<1>9. Follows'
  <2> SUFFICES ASSUME calm, ~error PROVE Follows'
    BY <1>2 DEF Follows
  <2>1. FollowsBut({})'
    BY <1>2, QuietFollows, SameFollows
  <2> QED
    BY <1>2, <1>3, <2>1 DEF Follows, Asking, Lists, Others, ListQuiet
<1>10. BeforeCursor'
  BY <1>1, <1>2, <1>3 DEF BeforeCursor, Asking, Lists, Others, ListQuiet
<1> QED
  BY <1>5, <1>6, <1>7, <1>8, <1>9, <1>10 DEF ListInv

\* What a request that changes something waits for.
Sent(k, step, e) == Others(k) /\ ask'[k].pc = "sent" /\ ask'[k].step = step /\ ask'[k].entry = e

LEMMA BeginKeeps ==
    ASSUME ListInv, NEW k \in Asks, NEW step, NEW e, Sent(k, step, e),
           ask[k].pc = "idle", calm => ListQuiet,
           UNCHANGED <<kind, calm, there, answered, items, twice, cursor, error>>,
           undos' \subseteq undos,
           \/ step = "remove" /\ kind \in {"trash", "invitations"} /\ e \in items
           \/ step = "undo" /\ kind = "links" /\ e \in undos
           \/ step = "clear" /\ kind \in {"trash", "links"} /\ (calm => undos = {})
           \/ step = "change" /\ kind \in {"links", "shared"} /\ e \in Entries /\ (calm => undos = {})
    PROVE  ListInv'
<1>1. ShownTyped /\ AsksOK /\ StepsOK /\ CursorsOK /\ OneAsk /\ Follows /\ BeforeCursor
  BY DEF ListInv
<1>2. ShownTyped' /\ AsksOK'
  BY <1>1 DEF ShownTyped, Sent, Others
<1>3. StepsOK'
  BY <1>1 DEF StepsOK, Asking, Sent, Others, ShownTyped
<1>4. CursorsOK'
  BY <1>1 DEF CursorsOK
<1>5. OneAsk'
  BY <1>1 DEF OneAsk, Asking, Sent, Others, ListQuiet
<1>6. Follows'
  <2> SUFFICES ASSUME calm, ~error PROVE Follows'
    BY DEF Follows
  <2>1. FollowsBut({})'
    BY QuietFollows, SameFollows
  <2> QED
    BY <2>1 DEF Follows, Asking, Sent, Others, ListQuiet
<1>7. BeforeCursor'
  BY <1>1 DEF BeforeCursor, Asking, Sent, Others, ListQuiet
<1> QED
  BY <1>2, <1>3, <1>4, <1>5, <1>6, <1>7 DEF ListInv

LEMMA RemovesKeeps ==
    ASSUME ListInv, NEW k \in Asks, NEW e \in Entries, Removes(k, e), kind \in {"trash", "invitations"}
    PROVE  ListInv'
<1>1. Sent(k, "remove", e)
  BY BeginBegins DEF ListInv, Removes, Steps, Sent
<1> QED
  BY <1>1, BeginKeeps DEF Removes, Idle, ListReady, server, shownVars, busy

LEMMA ClearsKeeps ==
    ASSUME ListInv, NEW k \in Asks, Clears(k), kind \in {"trash", "links"}
    PROVE  ListInv'
<1>1. Sent(k, "clear", NoEntry)
  BY BeginBegins DEF ListInv, Clears, Steps, Sent
<1> QED
  BY <1>1, BeginKeeps DEF Clears, Idle, ListReady, server, shownVars, busy

LEMMA ThenLoadsKeeps ==
    ASSUME ListInv, NEW k \in Asks, NEW e \in Entries, ThenLoads(k, e), kind \in {"links", "shared"}
    PROVE  ListInv'
<1>1. Sent(k, "change", e)
  BY BeginBegins DEF ListInv, ThenLoads, Steps, Sent
<1> QED
  BY <1>1, BeginKeeps DEF ThenLoads, Idle, ListReady, server, shownVars, busy

LEMMA UndoRemoveKeeps ==
    ASSUME ListInv, NEW k \in Asks, NEW e \in Entries, UndoRemove(k, e)
    PROVE  ListInv'
<1>1. Sent(k, "undo", e) /\ kind = "links"
  BY BeginBegins DEF ListInv, StepsOK, UndoRemove, Steps, Sent
<1> QED
  BY <1>1, BeginKeeps DEF UndoRemove, Idle, ListReady, server, shownVars, busy

LEMMA RemovesAtOnceKeeps ==
    ASSUME ListInv, NEW k \in Asks, NEW e \in Entries, RemovesAtOnce(k, e)
    PROVE  ListInv'
<1>1. ShownTyped /\ AsksOK /\ StepsOK /\ CursorsOK /\ OneAsk /\ Follows /\ BeforeCursor
  BY DEF ListInv
<1>2. /\ ask[k].pc = "idle" /\ kind = "links" /\ (calm => ListQuiet) /\ e \in items
      /\ items' = items \ {e} /\ twice' = twice \ {e}
      /\ UNCHANGED <<kind, calm, there, answered, cursor, error, undos>>
  BY DEF RemovesAtOnce, Idle, LinksShown, ListReady, server, busy
<1>3. Sent(k, "remove", e)
  BY <1>1, BeginBegins DEF RemovesAtOnce, Steps, Sent
<1>4. ShownTyped' /\ AsksOK'
  BY <1>1, <1>2, <1>3 DEF ShownTyped, Sent, Others
<1>5. StepsOK'
  BY <1>1, <1>2, <1>3 DEF StepsOK, Asking, Sent, Others, ShownTyped
<1>6. CursorsOK'
  BY <1>1, <1>2 DEF CursorsOK
<1>7. OneAsk'
  BY <1>1, <1>2, <1>3 DEF OneAsk, Asking, Sent, Others, ListQuiet
<1>8. Follows'
  <2> SUFFICES ASSUME calm, ~error PROVE Follows'
    BY <1>2 DEF Follows
  <2>1. FollowsBut({})
    BY <1>2, QuietFollows
  <2>2. FollowsBut({e})'
    BY <1>2, <2>1 DEF FollowsBut, Kept, SectionIn
  <2> QED
    BY <1>2, <1>3, <2>2 DEF Follows, Asking, Sent, Others, ListQuiet
<1>9. BeforeCursor'
  BY <1>1, <1>2, <1>3 DEF BeforeCursor, Asking, Sent, Others, ListQuiet
<1> QED
  BY <1>4, <1>5, <1>6, <1>7, <1>8, <1>9 DEF ListInv

LEMMA DismissUndoKeeps == ASSUME ListInv, NEW e \in Entries, DismissUndo(e) PROVE ListInv'
<1>1. ShownTyped /\ AsksOK /\ StepsOK /\ CursorsOK /\ OneAsk /\ Follows /\ BeforeCursor
  BY DEF ListInv
<1>2. /\ undos' = undos \ {e}
      /\ UNCHANGED <<kind, calm, there, answered, items, twice, cursor, error, ask>>
  BY DEF DismissUndo, server, shownVars, busy
<1>3. ShownTyped' /\ AsksOK' /\ StepsOK' /\ CursorsOK'
  BY <1>1, <1>2 DEF ShownTyped, AsksOK, StepsOK, CursorsOK, Asking
<1>4. OneAsk'
  BY <1>1, <1>2, SamePages DEF OneAsk, Asking
<1>5. Follows'
  BY <1>1, <1>2, SameFollows DEF Follows, Asking, ListQuiet
<1>6. BeforeCursor'
  BY <1>1, <1>2 DEF BeforeCursor, Asking
<1> QED
  BY <1>3, <1>4, <1>5, <1>6 DEF ListInv

LEMMA ReloadListKeeps == ASSUME ListInv, NEW k \in Asks, ReloadList(k) PROVE ListInv'
<1>a. ShownTyped /\ AsksOK /\ StepsOK
  BY DEF ListInv
<1>2. /\ Lists(k, "load", NoCursors) /\ cursor' \in {cursor, NoCursors} /\ ~calm
      /\ UNCHANGED <<kind, calm, there, answered, items, twice, undos>>
  BY <1>a, Reading DEF ReloadList, server
<1>3. ShownTyped' /\ AsksOK'
  BY <1>a, <1>2, NoCursorsTyped DEF ShownTyped, Lists, Others
<1>4. StepsOK'
  BY <1>a, <1>2 DEF StepsOK, Asking, Lists, Others
<1>5. CursorsOK' /\ OneAsk' /\ Follows' /\ BeforeCursor'
  BY <1>2 DEF CursorsOK, OneAsk, Follows, BeforeCursor
<1> QED
  BY <1>3, <1>4, <1>5 DEF ListInv

-----------------------------------------------------------------------------
(* The server answers.                                                      *)

LEMMA PagesTyped ==
    ASSUME ShownTyped, NEW from \in Cursors
    PROVE  Answer(from) \subseteq Kept(there) /\ Kept(there) \subseteq Entries /\ NextCursors(from) \in Cursors
<1>1. \A s \in Sections : Below(s, from[s]) \in SUBSET Entries /\ Below(s, from[s]) \subseteq there
  BY DEF Below, ShownTyped
<1>2. \A s \in Sections : PageOf(Below(s, from[s])) \subseteq there
  BY <1>1, PageComesFirst
<1>3. \A s \in Sections : NextOf(Below(s, from[s])) \in Entries \cup {NoEntry}
  BY <1>1, NextIsLast
<1> QED
  BY <1>2, <1>3 DEF Answer, NextCursors, Kept, Cursors, ShownTyped

LEMMA ServerListsKeeps == ASSUME ListInv, NEW k \in Asks, ServerLists(k) PROVE ListInv'
<1> DEFINE from == ask[k].from
<1>1. ShownTyped /\ AsksOK /\ StepsOK /\ CursorsOK /\ OneAsk /\ Follows /\ BeforeCursor
  BY DEF ListInv
<1>2. /\ ask[k].pc = "list" /\ from \in Cursors
      /\ UNCHANGED <<kind, calm, there, answered, items, twice, cursor, error, undos>>
      /\ ask' = [ask EXCEPT ![k].pc = "listed", ![k].got = Answer(from), ![k].next = NextCursors(from)]
  BY <1>1 DEF ServerLists, AsksOK, server, shownVars, busy, Answer, NextCursors
<1>a. Answer(from) \in SUBSET Entries /\ NextCursors(from) \in Cursors
  BY <1>1, <1>2, PagesTyped
<1>4. /\ Others(k) /\ ask'[k].pc = "listed" /\ ask'[k].step = ask[k].step
      /\ ask'[k].from = from /\ ask'[k].got = Answer(from) /\ ask'[k].next = NextCursors(from)
  <2> HIDE DEF from
  <2> QED
    BY <1>1, <1>2, <1>a DEF AsksOK, Others, from
<1>5. ShownTyped' /\ AsksOK'
  BY <1>1, <1>2, <1>4 DEF ShownTyped, Others
<1>6. StepsOK'
  BY <1>1, <1>2, <1>4 DEF StepsOK, Asking, Others
<1>7. CursorsOK'
  BY <1>1, <1>2 DEF CursorsOK
<1>8. OneAsk'
  <2> SUFFICES ASSUME calm PROVE OneAsk'
    BY <1>2 DEF OneAsk
  <2>1. \A j \in Asks \ {k} : ask'[j].pc = "idle"
    BY <1>1, <1>2, <1>4 DEF OneAsk, Others
  <2>2. Answer(from)' = Answer(from) /\ NextCursors(from)' = NextCursors(from) /\ from' = from
    BY <1>2, <1>4, SamePages
  <2>3. ask'[k].got = Answer(from)' /\ ask'[k].next = NextCursors(from)'
    BY <1>4, <2>2
  <2> QED
    BY <1>1, <1>2, <1>4, <2>1, <2>3 DEF OneAsk, Asking
<1>b. ask[k].step \in {"load", "more", "reload"} /\ ~ListQuiet'
  BY <1>1, <1>2, <1>4 DEF StepsOK, ListQuiet
<1>10. Follows'
  <2> SUFFICES ASSUME calm, ~error PROVE Follows'
    BY <1>2 DEF Follows
  <2>1. \A j \in Asks \ {k} : ask'[j].pc = "idle"
    BY <1>1, <1>2, <1>4 DEF OneAsk, Others
  <2>2. ask[k].step = "more" => FollowsBut({})'
    BY <1>1, <1>2, SameFollows DEF Follows, Asking
  <2> QED
    BY <1>4, <1>b, <2>1, <2>2 DEF Follows, Asking
<1>11. BeforeCursor'
  <2>1. \A j \in Asks : Asking(j, {"remove", "undo"})' => Asking(j, {"remove", "undo"}) /\ ask'[j] = ask[j]
    BY <1>4, <1>b DEF Asking, Others
  <2> QED
    BY <1>1, <1>2, <2>1 DEF BeforeCursor
<1> QED
  BY <1>5, <1>6, <1>7, <1>8, <1>10, <1>11 DEF ListInv

LEMMA ListRequestFailsKeeps == ASSUME ListInv, NEW k \in Asks, ListRequestFails(k) PROVE ListInv'
<1>1. ShownTyped /\ AsksOK /\ StepsOK /\ CursorsOK /\ OneAsk /\ Follows /\ BeforeCursor
  BY DEF ListInv
<1>2. /\ ask[k].pc = "list" /\ error' = (error \/ ask[k].step = "load" \/ kind = "trash")
      /\ UNCHANGED <<kind, calm, there, answered, items, twice, cursor, undos>>
  BY DEF ListRequestFails, server, shownVars
<1>3. Others(k) /\ ask'[k].pc = "idle"
  BY <1>1, EndEnds DEF ListRequestFails
<1>4. ShownTyped' /\ AsksOK'
  BY <1>1, <1>2, <1>3 DEF ShownTyped, Others
<1>5. StepsOK'
  BY <1>1, <1>2, <1>3 DEF StepsOK, Asking, Others
<1>6. CursorsOK'
  BY <1>1, <1>2 DEF CursorsOK
<1>7. OneAsk'
  BY <1>1, <1>2, <1>3, SamePages DEF OneAsk, Asking, Others
<1>8. Follows'
  <2> SUFFICES ASSUME calm, ~error' PROVE Follows'
    BY <1>2 DEF Follows
  <2>1. ~error /\ ask[k].step = "more"
    BY <1>1, <1>2 DEF StepsOK, OneAsk, Asking
  <2>2. FollowsBut({})'
    BY <1>1, <1>2, <2>1, SameFollows DEF Follows, Asking
  <2>3. \A j \in Asks : ask'[j].pc = "idle"
    BY <1>1, <1>2, <1>3 DEF OneAsk, Others
  <2> QED
    BY <2>2, <2>3 DEF Follows, Asking
<1>9. BeforeCursor'
  BY <1>1, <1>2, <1>3 DEF BeforeCursor, Asking, Others
<1> QED
  BY <1>4, <1>5, <1>6, <1>7, <1>8, <1>9 DEF ListInv

\* The cursors that come with the first page, or the next, are as CursorsOK says.
LEMMA NextsOK ==
    ASSUME ShownTyped, NEW from \in Cursors
    PROVE  /\ kind # "trash"  => \A s \in Sections \ {Main} : NextCursors(from)[s] = NoEntry
           /\ kind = "shared" => \A s \in Sections : NextCursors(from)[s] = NoEntry
           /\ \A s \in Sections : from[s] # NoEntry /\ NextCursors(from)[s] # NoEntry =>
                 Rank[NextCursors(from)[s]] > Rank[from[s]]
<1>1. \A s \in Sections : Below(s, from[s]) \in SUBSET Entries
  BY DEF Below, ShownTyped
<1>2. ASSUME kind # "trash", NEW s \in Sections \ {Main} PROVE NextCursors(from)[s] = NoEntry
  <2>1. Below(s, from[s]) = {}
    BY <1>2 DEF Below, SectionIn
  <2>2. PageOf(Below(s, from[s])) = {}
    BY <2>1, <1>1, PageComesFirst
  <2> QED
    BY <2>1, <2>2 DEF NextCursors, NextOf
<1>3. ASSUME kind = "shared", NEW s \in Sections PROVE NextCursors(from)[s] = NoEntry
  BY <1>1, <1>3, NextIsLast DEF NextCursors
<1>4. ASSUME NEW s \in Sections, from[s] # NoEntry, NextCursors(from)[s] # NoEntry
      PROVE  Rank[NextCursors(from)[s]] > Rank[from[s]]
  <2>1. NextCursors(from)[s] \in Below(s, from[s])
    BY <1>1, <1>4, NextIsLast DEF NextCursors
  <2> QED
    BY <1>4, <2>1 DEF Below
<1> QED
  BY <1>2, <1>3, <1>4

\* Of the entries after the cursors, those that the answer lacks come after the new ones;
\* those that it has come after the old and not after the new.
LEMMA PagesComeFirst ==
    ASSUME ShownTyped, NEW from \in Cursors, NEW e \in Kept(there)
    PROVE  LET s == SectionIn(e) IN
           /\ s \in Sections
           /\ from[s] = NoEntry \/ Rank[e] > Rank[from[s]] =>
                 \/ e \in Answer(from)
                 \/ NextCursors(from)[s] # NoEntry /\ Rank[e] > Rank[NextCursors(from)[s]]
           /\ e \in Answer(from) =>
                 /\ from[s] = NoEntry \/ Rank[e] > Rank[from[s]]
                 /\ NextCursors(from)[s] # NoEntry => Rank[e] <= Rank[NextCursors(from)[s]]
<1> DEFINE s == SectionIn(e)
           S == Below(s, from[s])
<1>1. e \in Entries /\ e \in there /\ e \notin answered
  BY DEF Kept, ShownTyped
<1>2. s \in Sections
  BY <1>1, ListPagesAssumption DEF SectionIn
<1>3. S \in SUBSET Entries
  BY DEF Below, ShownTyped
<1>4. e \in S <=> from[s] = NoEntry \/ Rank[e] > Rank[from[s]]
  BY <1>1 DEF Below
<1>5. \A t \in Sections : e \in Below(t, from[t]) => t = s
  BY DEF Below
<1>6. \A t \in Sections : PageOf(Below(t, from[t])) \subseteq Below(t, from[t])
  <2> TAKE t \in Sections
  <2>1. Below(t, from[t]) \in SUBSET Entries
    BY DEF Below, ShownTyped
  <2> QED
    BY <2>1, PageComesFirst
<1>7. e \in Answer(from) <=> e \in PageOf(S)
  BY <1>1, <1>2, <1>5, <1>6 DEF Answer, Kept
<1>8. NextCursors(from)[s] = NextOf(S)
  BY <1>2 DEF NextCursors
<1> HIDE DEF S, s
<1>9. PageOf(S) \subseteq S
  BY <1>3, PageComesFirst
<1>10. /\ NextOf(S) = NoEntry => PageOf(S) = S
       /\ NextOf(S) # NoEntry =>
                 /\ \A f \in PageOf(S) : Rank[f] <= Rank[NextOf(S)]
                 /\ \A f \in S \ PageOf(S) : Rank[f] > Rank[NextOf(S)]
  BY <1>3, NextIsLast
<1>11. from[s] = NoEntry \/ Rank[e] > Rank[from[s]] =>
                 \/ e \in Answer(from)
                 \/ NextCursors(from)[s] # NoEntry /\ Rank[e] > Rank[NextCursors(from)[s]]
  BY <1>4, <1>7, <1>8, <1>10
<1>12. e \in Answer(from) =>
                 /\ from[s] = NoEntry \/ Rank[e] > Rank[from[s]]
                 /\ NextCursors(from)[s] # NoEntry => Rank[e] <= Rank[NextCursors(from)[s]]
  BY <1>4, <1>7, <1>8, <1>9, <1>10
<1> QED
  BY <1>2, <1>11, <1>12 DEF s

LEMMA ListArrivesKeeps == ASSUME ListInv, NEW k \in Asks, ListArrives(k) PROVE ListInv'
<1> DEFINE q    == ask[k]
           from == ask[k].from
<1>1. ShownTyped /\ AsksOK /\ StepsOK /\ CursorsOK /\ OneAsk /\ Follows /\ BeforeCursor
  BY DEF ListInv
<1>2. /\ q.pc = "listed"
      /\ IF q.step = "more"
         THEN twice' = twice \cup (items \cap q.got) /\ items' = items \cup q.got
         ELSE twice' = {} /\ items' = q.got
      /\ cursor' = q.next
      /\ UNCHANGED <<kind, calm, there, answered, error, undos>>
  BY DEF ListArrives, server
<1>3. Others(k) /\ ask'[k].pc = "idle"
  BY <1>1, EndEnds DEF ListArrives
<1>4. q.got \subseteq Entries /\ q.next \in Cursors /\ from \in Cursors
      /\ q.step \in {"load", "more", "reload"} /\ (q.step = "load" => from = NoCursors)
  BY <1>1, <1>2 DEF AsksOK, StepsOK, Asking
<1>5. ShownTyped' /\ AsksOK'
  BY <1>1, <1>2, <1>3, <1>4 DEF ShownTyped, Others
<1>6. StepsOK'
  BY <1>1, <1>2, <1>3 DEF StepsOK, Asking, Others
<1>7. calm => /\ q.got = Answer(from) /\ q.next = NextCursors(from)
              /\ \A j \in Asks : ask'[j].pc = "idle"
              /\ q.step = "load" => undos = {}
              /\ q.step = "more" => from = cursor /\ \E s \in Sections : cursor[s] # NoEntry
              /\ q.step = "reload" => error
  BY <1>1, <1>2, <1>3 DEF OneAsk, Others, Asking
<1>8. CursorsOK'
  BY <1>1, <1>2, <1>4, <1>7, NextsOK DEF CursorsOK
<1>9. OneAsk'
  BY <1>2, <1>7 DEF OneAsk, Asking
<1> HIDE DEF q, from
<1>10. ASSUME calm, ~error PROVE FollowsBut({})'
  <2>1. Kept(there)' = Kept(there) /\ \A e : SectionIn(e)' = SectionIn(e)
    BY <1>2 DEF Kept, SectionIn
  <2>2. q.got = Answer(from) /\ cursor' = NextCursors(from) /\ Answer(from) \subseteq Kept(there)
    BY <1>1, <1>2, <1>4, <1>7, <1>10, PagesTyped
  <2>a. CASE q.step = "load"
    <3>1. twice' = {} /\ items' = Answer(from)
      BY <1>2, <2>2, <2>a
    <3>2. ASSUME NEW e \in Kept(there)
          PROVE  e \in items' \/ (cursor'[SectionIn(e)] # NoEntry /\ Rank[e] > Rank[cursor'[SectionIn(e)]])
      <4>1. from[SectionIn(e)] = NoEntry
        BY <1>1, <1>4, <2>a, PagesComeFirst DEF NoCursors
      <4> QED
        BY <1>1, <1>4, <2>2, <3>1, <4>1, PagesComeFirst
    <3> QED
      BY <2>1, <2>2, <3>1, <3>2 DEF FollowsBut
  <2>b. CASE q.step = "more"
    <3>1. from = cursor /\ FollowsBut({}) /\ twice' = twice \cup (items \cap Answer(from))
          /\ items' = items \cup Answer(from)
      BY <1>1, <1>2, <1>7, <1>10, <2>2, <2>b DEF Follows, Asking, q
    <3>2. ASSUME NEW e \in Kept(there)
          PROVE  e \in items' \/ (cursor'[SectionIn(e)] # NoEntry /\ Rank[e] > Rank[cursor'[SectionIn(e)]])
      BY <1>1, <1>4, <2>2, <3>1, PagesComeFirst DEF FollowsBut
    <3>3. ASSUME kind # "trash" PROVE items \cap Answer(from) = {}
      <4> SUFFICES ASSUME NEW e \in items \cap Answer(from) PROVE FALSE
        OBVIOUS
      <4>1. cursor[Main] # NoEntry /\ SectionIn(e) = Main
        BY <1>1, <1>7, <1>10, <2>b, <3>3 DEF CursorsOK, SectionIn
      <4>2. Rank[e] > Rank[cursor[Main]]
        BY <1>1, <1>4, <2>2, <3>1, <4>1, PagesComeFirst
      <4>3. Rank[e] <= Rank[cursor[Main]]
        BY <1>1, <1>10, <3>3, <4>1 DEF BeforeCursor
      <4>4. Rank[e] \in Nat /\ Rank[cursor[Main]] \in Nat
        BY <1>1, <4>1, ListPagesAssumption DEF ShownTyped, Cursors
      <4> QED
        BY <4>2, <4>3, <4>4
    <3> QED
      BY <1>2, <2>1, <2>2, <3>1, <3>2, <3>3 DEF FollowsBut
  <2> QED
    BY <1>4, <1>7, <1>10, <2>a, <2>b
<1>11. Follows'
  BY <1>2, <1>7, <1>10 DEF Follows, Asking
<1>12. BeforeCursor'
  <2> SUFFICES ASSUME calm, ~error, kind # "trash", cursor'[Main] # NoEntry, NEW e \in items' \cup undos
               PROVE  Rank[e] <= Rank[cursor'[Main]]
    BY <1>2, <1>7 DEF BeforeCursor, Asking
  <2>1. cursor' = NextCursors(from) /\ q.got = Answer(from) /\ SectionIn(e) = Main
        /\ Answer(from) \subseteq Kept(there)
    BY <1>1, <1>2, <1>4, <1>7, PagesTyped DEF SectionIn
  <2>2. ASSUME e \in Answer(from) PROVE Rank[e] <= Rank[cursor'[Main]]
    BY <1>1, <1>4, <2>1, <2>2, PagesComeFirst
  <2>3. ASSUME e \notin Answer(from) PROVE Rank[e] <= Rank[cursor'[Main]]
    <3>1. q.step = "more" /\ from = cursor /\ e \in items \cup undos
      BY <1>2, <1>4, <1>7, <2>1, <2>3
    <3>2. cursor[Main] # NoEntry
      BY <1>1, <1>7, <3>1 DEF CursorsOK
    <3>3. Rank[e] <= Rank[cursor[Main]]
      BY <1>1, <3>1, <3>2 DEF BeforeCursor
    <3>4. Rank[cursor'[Main]] > Rank[cursor[Main]]
      BY <1>1, <1>4, <2>1, <3>1, <3>2, NextsOK, ListPagesAssumption
    <3>5. e \in Entries /\ cursor[Main] \in Entries /\ cursor'[Main] \in Entries
      BY <1>1, <1>2, <1>4, <3>1, <3>2, ListPagesAssumption DEF ShownTyped, Cursors
    <3> QED
      BY <3>3, <3>4, <3>5, ListPagesAssumption
  <2> QED
    BY <2>2, <2>3
<1> QED
  BY <1>5, <1>6, <1>8, <1>9, <1>11, <1>12 DEF ListInv

\* A change after which the list is loaded again.
LEMMA LoadsAgainKeeps ==
    ASSUME ListInv, NEW k \in Asks, Succeeds(k), LoadsAgain(ask[k])
    PROVE  ListInv'
<1> DEFINE q == ask[k]
<1>1. ShownTyped /\ AsksOK /\ StepsOK /\ CursorsOK /\ OneAsk /\ Follows /\ BeforeCursor
  BY DEF ListInv
<1>2. /\ q.pc = "sent" /\ Changes(q) /\ q.step \in {"change", "clear"} /\ LoadList(k)
      /\ UNCHANGED <<kind, calm, undos>>
  BY DEF Succeeds, LoadsAgain
<1>3. /\ kind \in {"links", "shared"} /\ (q.step = "clear" => kind = "links")
      /\ (q.step = "change" => q.entry \in Entries) /\ (calm => undos = {})
  BY <1>1, <1>2 DEF LoadsAgain, StepsOK, OneAsk, Asking
<1>4. there' \subseteq Entries /\ answered' = answered
  BY <1>1, <1>2, <1>3 DEF Changes, ShownTyped
<1>5. /\ Lists(k, "load", NoCursors) /\ UNCHANGED <<items, twice>>
      /\ cursor' \in {cursor, NoCursors} /\ (kind = "shared" => cursor' = cursor)
      /\ kind = "links" => cursor' = NoCursors
  BY <1>1, <1>2, Reading
<1>6. ShownTyped' /\ AsksOK'
  BY <1>1, <1>2, <1>4, <1>5, NoCursorsTyped DEF ShownTyped, Lists, Others
<1>7. StepsOK'
  BY <1>1, <1>2, <1>4, <1>5 DEF StepsOK, Asking, Lists, Others
<1>8. CursorsOK'
  BY <1>1, <1>2, <1>5 DEF CursorsOK, NoCursors
<1>9. OneAsk'
  BY <1>1, <1>2, <1>3, <1>5 DEF OneAsk, Asking, Lists, Others
<1>10. Follows'
  BY <1>1, <1>2, <1>5 DEF Follows, OneAsk, Asking, Lists, Others, ListQuiet
<1>11. BeforeCursor'
  BY <1>1, <1>2, <1>3, <1>5, ListPagesAssumption DEF BeforeCursor, CursorsOK, NoCursors
<1> QED
  BY <1>6, <1>7, <1>8, <1>9, <1>10, <1>11 DEF ListInv

LEMMA SucceedsKeeps == ASSUME ListInv, NEW k \in Asks, Succeeds(k) PROVE ListInv'
<1> DEFINE q    == ask[k]
           gone == CASE q.step = "clear"                      -> Entries
                     [] q.step = "remove" /\ kind # "links" -> {q.entry}
                     [] OTHER                                 -> {}
           back == IF q.step = "undo" THEN {q.entry} ELSE {}
<1> SUFFICES ASSUME ~LoadsAgain(q) PROVE ListInv'
  BY LoadsAgainKeeps
<1>1. ShownTyped /\ AsksOK /\ StepsOK /\ CursorsOK /\ OneAsk /\ Follows /\ BeforeCursor
  BY DEF ListInv
<1>2. /\ q.pc = "sent" /\ Changes(q)
      /\ undos' = IF q.step = "remove" /\ kind = "links" THEN undos \cup {q.entry} ELSE undos
      /\ items' = (items \ gone) \cup back /\ twice' = (twice \ gone) \cup (items \cap back)
      /\ UNCHANGED <<kind, calm, cursor, error>>
  BY DEF Succeeds, busy
<1>3. Others(k) /\ ask'[k].pc = "idle"
  BY <1>1, EndEnds DEF Succeeds
<1>4. /\ q.step \in {"remove", "undo", "clear"} /\ (q.step # "clear" => q.entry \in Entries)
      /\ q.step = "remove" => kind # "shared"
      /\ q.step = "undo"   => kind = "links"
      /\ q.step = "clear"  => kind = "trash"
  BY <1>1, <1>2 DEF StepsOK, Asking, LoadsAgain
<1> HIDE DEF q
<1>5. \/ /\ q.step = "remove" /\ kind = "invitations" /\ q.entry \in there \ answered
         /\ answered' = answered \cup {q.entry} /\ there' = there
         /\ items' = items \ {q.entry} /\ twice' = twice \ {q.entry} /\ undos' = undos
      \/ /\ q.step = "remove" /\ kind = "trash"
         /\ q.entry \in there /\ there' = there \ {q.entry} /\ answered' = answered
         /\ items' = items \ {q.entry} /\ twice' = twice \ {q.entry} /\ undos' = undos
      \/ /\ q.step = "remove" /\ kind = "links"
         /\ q.entry \in there /\ there' = there \ {q.entry} /\ answered' = answered
         /\ items' = items /\ twice' = twice /\ undos' = undos \cup {q.entry}
      \/ /\ q.step = "undo" /\ kind = "links"
         /\ q.entry \notin there /\ there' = there \cup {q.entry} /\ answered' = answered
         /\ items' = items \cup {q.entry} /\ twice' = twice \cup (items \cap {q.entry}) /\ undos' = undos
      \/ /\ q.step = "clear" /\ kind = "trash" /\ there' = {} /\ answered' = answered
         /\ items' = {} /\ twice' = {} /\ undos' = undos
  BY <1>1, <1>2, <1>4 DEF Changes, ShownTyped, ListKinds
<1>6. ShownTyped' /\ AsksOK'
  <2>1. there' \subseteq Entries /\ answered' \subseteq Entries /\ items' \subseteq Entries
        /\ twice' \subseteq Entries /\ undos' \subseteq Entries
    BY <1>1, <1>4, <1>5 DEF ShownTyped
  <2> QED
    BY <1>1, <1>2, <1>3, <2>1 DEF ShownTyped, Others
<1>7. StepsOK'
  <2>1. (undos' # {} => kind = "links") /\ (answered' # {} => kind = "invitations")
    BY <1>1, <1>5 DEF StepsOK
  <2> QED
    BY <1>1, <1>2, <1>3, <2>1 DEF StepsOK, Asking, Others
<1>8. CursorsOK'
  BY <1>1, <1>2 DEF CursorsOK
<1>9. calm => \A j \in Asks : ask'[j].pc = "idle"
  BY <1>1, <1>2, <1>3 DEF OneAsk, Others, q
<1>10. OneAsk'
  BY <1>2, <1>9 DEF OneAsk, Asking
<1>11. ASSUME calm, ~error PROVE FollowsBut({})'
  <2>1. FollowsBut(IF q.step = "remove" /\ kind = "links" THEN {q.entry} ELSE {})
    BY <1>1, <1>2, <1>4, <1>11 DEF Follows, Asking, q
  <2>2. \A e : SectionIn(e)' = SectionIn(e)
    BY <1>2 DEF SectionIn
  <2>a. CASE q.step = "remove" /\ kind = "links"
    <3>1. answered = {} /\ q.step # "undo" /\ kind \notin {"invitations", "trash"}
      BY <1>1, <2>a DEF StepsOK
    <3>2. there' = there \ {q.entry} /\ UNCHANGED <<answered, items, twice>>
      BY <1>5, <2>a
    <3>3. items \subseteq Kept(there)'
      <4>1. q.entry \notin items
        BY <1>1, <1>11, <2>a, <1>2 DEF Follows, Asking, q
      <4> QED
        BY <2>1, <2>a, <3>2, <4>1 DEF FollowsBut, Kept
    <3> QED
      BY <1>2, <2>1, <2>2, <2>a, <3>2, <3>3 DEF FollowsBut, Kept
  <2>b. CASE q.step = "remove" /\ kind # "links"
    BY <1>2, <1>5, <2>1, <2>2, <2>b DEF FollowsBut, Kept
  <2>c. CASE q.step = "undo"
    <3>1. FollowsBut({}) /\ answered = {}
      BY <1>1, <1>4, <2>1, <2>c DEF StepsOK
    <3>2. q.entry \notin items
      BY <1>5, <2>c, <3>1 DEF FollowsBut, Kept
    <3> QED
      BY <1>2, <1>5, <2>2, <2>c, <3>1, <3>2 DEF FollowsBut, Kept
  <2>d. CASE q.step = "clear"
    BY <1>5, <2>d DEF FollowsBut, Kept
  <2> QED
    BY <1>4, <2>a, <2>b, <2>c, <2>d
<1>12. Follows'
  BY <1>2, <1>9, <1>11 DEF Follows, Asking
<1>13. BeforeCursor'
  <2> SUFFICES ASSUME calm, ~error, kind # "trash", cursor[Main] # NoEntry, NEW e \in items' \cup undos'
               PROVE  Rank[e] <= Rank[cursor[Main]]
    BY <1>2, <1>9 DEF BeforeCursor, Asking
  <2>1. e \in items \cup undos \/ (e = q.entry /\ Asking(k, {"remove", "undo"}))
    BY <1>2, <1>5 DEF Asking, q
  <2> QED
    BY <1>1, <2>1 DEF BeforeCursor, q
<1> QED
  BY <1>6, <1>7, <1>8, <1>10, <1>12, <1>13 DEF ListInv

LEMMA RefusedKeeps == ASSUME ListInv, NEW k \in Asks, Refused(k) PROVE ListInv'
<1> DEFINE q == ask[k]
<1>1. ShownTyped /\ AsksOK /\ StepsOK /\ CursorsOK /\ OneAsk /\ Follows /\ BeforeCursor
  BY DEF ListInv
<1>2. /\ q.pc = "sent" /\ error' = (error \/ (q.step = "remove" /\ kind # "trash"))
      /\ UNCHANGED <<kind, calm, there, answered, items, twice, cursor, undos>>
  BY DEF Refused, server, shownVars
<1>3. IF q.step = "remove" /\ kind = "links" THEN Lists(k, "reload", NoCursors)
                                             ELSE Others(k) /\ ask'[k].pc = "idle"
  BY <1>1, AskListLists, EndEnds, NoCursorsTyped DEF Refused, Steps
<1>4. ShownTyped' /\ AsksOK'
  BY <1>1, <1>2, <1>3 DEF ShownTyped, Lists, Others
<1>5. StepsOK'
  BY <1>1, <1>2, <1>3 DEF StepsOK, Asking, Lists, Others
<1>6. CursorsOK'
  BY <1>1, <1>2 DEF CursorsOK
<1>7. \A j \in Asks \ {k} : ask'[j] = ask[j] /\ (calm => ask[j].pc = "idle")
  BY <1>1, <1>2, <1>3 DEF OneAsk, Lists, Others
<1>8. OneAsk'
  <2>1. ask'[k].pc # "idle" => ask'[k].pc = "list" /\ ask'[k].step = "reload" /\ error'
    BY <1>2, <1>3 DEF Lists
  <2> QED
    BY <1>2, <1>7, <2>1 DEF OneAsk, Asking
<1>9. Follows'
  <2> SUFFICES ASSUME calm, ~error' PROVE Follows'
    BY <1>2 DEF Follows
  <2>1. ~error /\ ~(q.step = "remove" /\ kind # "trash")
    BY <1>2
  <2>2. FollowsBut({})'
    BY <1>1, <1>2, <2>1, SameFollows DEF Follows, StepsOK, Asking
  <2> QED
    BY <1>3, <1>7, <2>1, <2>2 DEF Follows, Asking
<1>10. BeforeCursor'
  BY <1>1, <1>2, <1>3, <1>7 DEF BeforeCursor, Asking, Lists
<1> QED
  BY <1>4, <1>5, <1>6, <1>8, <1>9, <1>10 DEF ListInv

LEMMA ListStutter == ASSUME ListInv, UNCHANGED listVars PROVE ListInv'
<1>1. UNCHANGED <<kind, calm, there, answered, items, twice, cursor, error, undos, ask>>
  BY DEF listVars
<1>2. ShownTyped' /\ AsksOK' /\ StepsOK' /\ CursorsOK' /\ BeforeCursor'
  BY <1>1 DEF ListInv, ShownTyped, AsksOK, StepsOK, CursorsOK, BeforeCursor, Asking
<1>3. OneAsk'
  BY <1>1, SamePages DEF ListInv, OneAsk, Asking
<1>4. Follows'
  BY <1>1, SameFollows DEF ListInv, Follows, Asking, ListQuiet
<1> QED
  BY <1>2, <1>3, <1>4 DEF ListInv

LEMMA ListStepKeeps == ListInv /\ [ListNext]_listVars => ListInv'
<1> SUFFICES ASSUME ListInv, [ListNext]_listVars PROVE ListInv'
  OBVIOUS
<1>1. ASSUME NEW k \in Asks, AskStep(k) PROVE ListInv'
  BY <1>1, ServerListsKeeps, ListArrivesKeeps, ListRequestFailsKeeps, SucceedsKeeps,
     RefusedKeeps
     DEF AskStep
<1>2. ASSUME NEW k \in Asks, ReloadList(k) \/ Scroll(k) \/ ClearAll(k) \/ DeleteAllLinks(k) PROVE ListInv'
  BY <1>2, ReloadListKeeps, ScrollKeeps, ClearsKeeps DEF ClearAll, DeleteAllLinks
<1>3. ASSUME NEW k \in Asks, NEW e \in Entries,
             \/ Restore(k, e) \/ ConfirmDelete(k, e) \/ Accept(k, e) \/ Decline(k, e)
             \/ DeleteFile(k, e) \/ DeleteDirectory(k, e) \/ UndoRemove(k, e)
      PROVE  ListInv'
  BY <1>3, RemovesKeeps, RemovesAtOnceKeeps, UndoRemoveKeeps
     DEF Restore, ConfirmDelete, Accept, Decline, DeleteFile, DeleteDirectory, TrashShown, InvitationsShown
<1>4. ASSUME NEW k \in Asks, NEW e \in Entries,
             Rename(k, e) \/ ConvertAndSave(k, e) \/ RenameShared(k, e) \/ Create(k, e)
      PROVE  ListInv'
  BY <1>4, ThenLoadsKeeps DEF Rename, ConvertAndSave, RenameShared, Create, LinksShown
<1> QED
  BY <1>1, <1>2, <1>3, <1>4, DismissUndoKeeps, ListStutter DEF ListNext

\* A list follows the server, page by page: what is shown is there, and of a section
\* everything up to its cursor is shown, whatever was removed, undone or refused.
THEOREM ListFollowsServerHolds == ListSpec => []ListFollowsServer
<1>1. ListInit => ListInv
  BY ListInitOK
<1>2. ListInv => ListFollowsServer
  BY DEF ListInv, ListFollowsServer, Follows, FollowsBut
<1> QED
  BY <1>1, <1>2, ListStepKeeps, PTL DEF ListSpec

-----------------------------------------------------------------------------
(* The types of the lists and of the settings.                             *)

ListFlags == calm \in BOOLEAN /\ isLoading \in BOOLEAN /\ error \in BOOLEAN /\ isLoadingMore \in BOOLEAN
ListTypes == ListInv /\ ListFlags

LEMMA ListTypesStep == ListTypes /\ [ListNext]_listVars => ListTypes'
<1> SUFFICES ASSUME ListTypes, [ListNext]_listVars PROVE ListFlags'
  BY ListStepKeeps DEF ListTypes
<1> USE DEF ListTypes, ListFlags
<1>1. CASE UNCHANGED listVars
  BY <1>1 DEF listVars
<1>2. ASSUME NEW k \in Asks, LoadList(k), calm' = calm PROVE ListFlags'
  BY <1>2 DEF LoadList, LoadTrash, LoadLinks, LoadInvitations, LoadDirectories, Reads
<1>3. ASSUME NEW k \in Asks, ServerLists(k) \/ Scroll(k) PROVE ListFlags'
  BY <1>3 DEF ServerLists, Scroll, busy
<1>4. ASSUME NEW k \in Asks, ListArrives(k) \/ ListRequestFails(k) PROVE ListFlags'
  <2>1. calm' = calm /\ Calmed(ask[k].step)
        /\ error' \in {error, (error \/ ask[k].step = "load" \/ kind = "trash")}
    BY <1>4 DEF ListArrives, ListRequestFails
  <2>2. isLoading' \in BOOLEAN /\ isLoadingMore' \in BOOLEAN
    BY <2>1 DEF Calmed
  <2> QED BY <2>1, <2>2
<1>5. ASSUME NEW k \in Asks, Succeeds(k) PROVE ListFlags'
  <2>1. calm' = calm /\ (LoadList(k) \/ UNCHANGED busy)
    BY <1>5 DEF Succeeds
  <2> QED BY <1>2, <2>1 DEF busy
<1>6. ASSUME NEW k \in Asks, Refused(k) PROVE ListFlags'
  <2>1. UNCHANGED <<calm, isLoading, isLoadingMore>>
        /\ error' = (error \/ (ask[k].step = "remove" /\ kind # "trash"))
    BY <1>6 DEF Refused
  <2> QED BY <2>1
<1>7. ASSUME NEW k \in Asks, ReloadList(k) PROVE ListFlags'
  BY <1>2, <1>7 DEF ReloadList
<1>8. ASSUME NEW k \in Asks, ClearAll(k) \/ DeleteAllLinks(k) PROVE ListFlags'
  BY <1>8 DEF ClearAll, DeleteAllLinks, Clears, busy
<1>9. ASSUME NEW k \in Asks, NEW e \in Entries,
             \/ Restore(k, e) \/ ConfirmDelete(k, e) \/ Accept(k, e) \/ Decline(k, e)
             \/ DeleteFile(k, e) \/ DeleteDirectory(k, e) \/ UndoRemove(k, e)
             \/ Rename(k, e) \/ ConvertAndSave(k, e) \/ RenameShared(k, e) \/ Create(k, e)
      PROVE  ListFlags'
  <2>1. UNCHANGED <<calm, busy>>
    BY <1>9 DEF Restore, ConfirmDelete, Accept, Decline, Removes, DeleteFile, DeleteDirectory,
               RemovesAtOnce, UndoRemove, Rename, ConvertAndSave, RenameShared, Create, ThenLoads
  <2> QED BY <2>1 DEF busy
<1>10. ASSUME NEW e \in Entries, DismissUndo(e) PROVE ListFlags'
  BY <1>10 DEF DismissUndo, busy
<1> QED
  BY <1>1, <1>3, <1>4, <1>5, <1>6, <1>7, <1>8, <1>9, <1>10 DEF ListNext, AskStep

LEMMA ListTypesGive == ListTypes => ListTypeOK
BY DEF ListTypes, ListFlags, ListInv, ShownTyped, AsksOK, Cursors, ListTypeOK

\* Who is invited is somebody.
Invites == \A w \in Works : IsWork(w, {"invite"}) => work[w].who \in People

PagesFlags ==
    /\ settingsOpen \in BOOLEAN /\ settingsLoading \in BOOLEAN /\ settingsError \in BOOLEAN
    /\ canManage \in BOOLEAN /\ inviting \in BOOLEAN /\ deletingDir \in BOOLEAN
SearchFlags ==
    /\ typing \in BOOLEAN /\ dropDown \in BOOLEAN /\ loadingDirs \in BOOLEAN
    /\ canPick \in BOOLEAN /\ asking \in BOOLEAN /\ success \in BOOLEAN
GivenFlags == trashed \in BOOLEAN /\ mayManage \in BOOLEAN /\ shared \in BOOLEAN /\ gentle \in BOOLEAN
NamesOK ==
    /\ invited \subseteq People /\ dirName \in {"old", "new"} /\ shownDirName \in {"old", "new"}
    /\ pendingUser \in People \cup {Nobody}

Flagged == Invites /\ PagesFlags /\ SearchFlags /\ GivenFlags /\ NamesOK
MemTypes == MemInv /\ Flagged

LEMMA MemTypesGive == MemTypes => MembersTypeOK
<1> SUFFICES ASSUME MemTypes PROVE MembersTypeOK
  OBVIOUS
<1> USE DEF MemTypes, Flagged
<1>1. {trashed, mayManage, shared, gentle, settingsOpen, settingsLoading, settingsError,
       canManage, inviting, deletingDir, typing, dropDown, loadingDirs, canPick, asking, success} \subseteq BOOLEAN
  BY DEF PagesFlags, SearchFlags, GivenFlags
<1> QED BY <1>1 DEF MemInv, MembersTyped, WorkTyped, Kinds, NamesOK, MembersTypeOK

LEMMA MemTypesInit == MembersInit => MemTypes
<1> SUFFICES ASSUME MembersInit PROVE Flagged
  BY MembersInitOK DEF MemTypes
<1>1. Invites
  BY DEF MembersInit, Invites, IsWork, NoWork
<1>2. PagesFlags /\ SearchFlags
  BY DEF MembersInit, PagesFlags, SearchFlags
<1>3. GivenFlags /\ NamesOK
  BY DEF MembersInit, GivenFlags, NamesOK
<1> QED BY <1>1, <1>2, <1>3 DEF Flagged

\* What happens to the requests.
LEMMA StartInvites ==
    ASSUME MemTypes, NEW w \in Works, NEW what \in Kinds, NEW p \in People \cup {Nobody},
           NEW from \in Roles \cup {NoRole}, NEW to \in Roles \cup {NoRole}, Starts(w, what, p, from, to),
           what = "invite" => p \in People
    PROVE  Invites'
<1>1. Begun(w, what, p, from, to)
  BY StartsBegun DEF MemTypes, MemInv
<1> QED BY <1>1 DEF Begun, Invites, IsWork, MemTypes, Flagged

LEMMA RequestInvites ==
    ASSUME MemTypes, NEW w \in Works, NEW what \in Kinds, NEW p \in People \cup {Nobody},
           Requests(w, what, p), what = "invite" => p \in People
    PROVE  Invites'
BY StartInvites DEF Requests

LEMMA EndInvites == ASSUME MemTypes, NEW w \in Works, Ends(w) PROVE Invites'
<1>1. Ended(w)
  BY EndsEnded DEF MemTypes, MemInv
<1> QED BY <1>1 DEF Ended, Invites, IsWork, MemTypes, Flagged

LEMMA SettingsBeginTypes ==
    ASSUME MemTypes, NEW w \in Works, SettingsBegin(w)
    PROVE  Flagged'
<1> USE DEF MemTypes, Flagged
<1>0. members \in [People -> Roles \cup {NoRole}]
  BY DEF MemInv, MembersTyped
<1>1. CASE OpenSettings(w)
  <2>1. Invites'
    BY <1>1, RequestInvites DEF OpenSettings, Kinds, OfSettings
  <2>2. PagesFlags'
    BY <1>1 DEF OpenSettings, PagesFlags, settingsVars
  <2>3. SearchFlags'
    BY <1>1 DEF OpenSettings, SearchFlags, searchVars, inviteVars
  <2>4. GivenFlags' /\ NamesOK'
    BY <1>1 DEF OpenSettings, GivenFlags, NamesOK, directoryVars, given, settingsVars
  <2> QED BY <2>1, <2>2, <2>3, <2>4
<1>2. CASE TokenRenewed(w)
  <2>1. Invites'
    BY <1>2, RequestInvites DEF TokenRenewed, Kinds, OfSettings
  <2>2. PagesFlags'
    BY <1>2 DEF TokenRenewed, PagesFlags, settingsVars
  <2>3. SearchFlags'
    BY <1>2 DEF TokenRenewed, SearchFlags, searchVars, inviteVars
  <2>4. GivenFlags' /\ NamesOK'
    BY <1>2 DEF TokenRenewed, GivenFlags, NamesOK, directoryVars, given, settingsVars
  <2> QED BY <2>1, <2>2, <2>3, <2>4
<1>3. ASSUME NEW p \in People, RemoveMember(w, p) PROVE Flagged'
  <2>1. Invites'
    BY <1>3, RequestInvites DEF RemoveMember, Kinds, OfSettings
  <2> QED
    BY <1>3, <2>1 DEF RemoveMember, PagesFlags, SearchFlags, GivenFlags, NamesOK,
                      directoryVars, given, searchVars, inviteVars
<1>4. ASSUME NEW p \in People, NEW to \in Roles, ChangeRole(w, p, to) PROVE Flagged'
  <2>1. Invites'
    BY <1>0, <1>4, StartInvites DEF ChangeRole, Kinds, OfSettings
  <2> QED
    BY <1>4, <2>1 DEF ChangeRole, PagesFlags, SearchFlags, GivenFlags, NamesOK,
                      directoryVars, given, searchVars, inviteVars
<1>5. ASSUME NEW what \in {"invite", "rename", "trash"}, NEW p \in People \cup {Nobody},
             what = "invite" => p \in People, Manage(w, what, p)
      PROVE  Flagged'
  <2>1. Invites'
    BY <1>5, RequestInvites DEF Manage, Kinds, OfSettings
  <2>2. /\ inviting' = (inviting \/ what = "invite") /\ deletingDir' = (deletingDir \/ what = "trash")
        /\ UNCHANGED <<directoryVars, given, settingsOpen, settingsLoading, settingsError, canManage, members,
                       shownDirName, pendingUser, searchVars, inviteVars>>
    BY <1>5 DEF Manage
  <2>3. inviting' \in BOOLEAN /\ deletingDir' \in BOOLEAN
    BY <2>2
  <2> QED
    BY <2>1, <2>2, <2>3 DEF PagesFlags, SearchFlags, GivenFlags, NamesOK,
                            directoryVars, given, searchVars, inviteVars
<1> QED BY <1>1, <1>2, <1>3, <1>4, <1>5 DEF SettingsBegin

LEMMA SettingsLoadTypes ==
    ASSUME MemTypes, NEW w \in Works, DirectoryArrives(w) \/ MembersArrive(w) \/ LoadingFails(w)
    PROVE  Flagged'
<1> USE DEF MemTypes, Flagged
<1>1. ASSUME DirectoryArrives(w) PROVE Flagged'
  <2>1. Ends(w) \/ work' = [work EXCEPT ![w].kind = "members"]
    BY <1>1 DEF DirectoryArrives
  <2>2. Invites'
    <3>1. CASE work' = [work EXCEPT ![w].kind = "members"]
      BY <3>1 DEF MemInv, WorkTyped, Invites, IsWork
    <3> QED BY <2>1, <3>1, EndInvites
  <2>3. /\ settingsError' \in {settingsError, TRUE}
        /\ \/ settingsLoading' \in {settingsLoading, FALSE}
           \/ settingsLoading' = (settingsLoading /\ shared)
        /\ shownDirName' \in {shownDirName, dirName} /\ canManage' \in {canManage, mayManage}
        /\ UNCHANGED <<settingsOpen, pendingUser, inviting, deletingDir>>
    BY <1>1 DEF DirectoryArrives, settingsVars
  <2>4. UNCHANGED <<directoryVars, given, searchVars, inviteVars>>
    BY <1>1 DEF DirectoryArrives
  <2>5. PagesFlags'
    BY <2>3 DEF PagesFlags, GivenFlags
  <2>6. NamesOK' /\ GivenFlags'
    BY <2>3, <2>4 DEF NamesOK, GivenFlags, directoryVars, given
  <2> QED BY <2>2, <2>4, <2>5, <2>6 DEF SearchFlags, searchVars, inviteVars
<1>2. ASSUME MembersArrive(w) PROVE Flagged'
  <2>1. /\ settingsLoading' \in {settingsLoading, FALSE} /\ Ends(w)
        /\ UNCHANGED <<directoryVars, given, settingsOpen, settingsError, canManage, shownDirName, pendingUser,
                       inviting, deletingDir, searchVars, inviteVars>>
    BY <1>2 DEF MembersArrive
  <2>2. PagesFlags'
    BY <2>1 DEF PagesFlags
  <2>3. SearchFlags'
    BY <2>1 DEF SearchFlags, searchVars, inviteVars
  <2>4. GivenFlags' /\ NamesOK'
    BY <2>1 DEF GivenFlags, NamesOK, directoryVars, given, settingsVars
  <2> QED BY <2>1, <2>2, <2>3, <2>4, EndInvites
<1>3. ASSUME LoadingFails(w) PROVE Flagged'
  <2>1. /\ settingsError' = (settingsError \/ work[w].mounted)
        /\ settingsLoading' = (settingsLoading /\ ~work[w].mounted) /\ Ends(w)
        /\ UNCHANGED <<directoryVars, given, settingsOpen, canManage, members, shownDirName, pendingUser,
                       inviting, deletingDir, searchVars, inviteVars>>
    BY <1>3 DEF LoadingFails
  <2>2. settingsError' \in BOOLEAN /\ settingsLoading' \in BOOLEAN
    BY <2>1
  <2> QED
    BY <2>1, <2>2, EndInvites DEF PagesFlags, SearchFlags, GivenFlags, NamesOK,
                                  directoryVars, given, searchVars, inviteVars
<1> QED BY <1>1, <1>2, <1>3

LEMMA SettingsEndTypes ==
    ASSUME MemTypes, NEW w \in Works,
           MemberChanged(w) \/ ChangeRefused(w) \/ Managed(w) \/ ManagingFails(w)
    PROVE  Flagged'
<1> USE DEF MemTypes, Flagged
<1>1. ASSUME MemberChanged(w) \/ ChangeRefused(w) PROVE Flagged'
  <2>1. /\ pendingUser' \in {pendingUser, Nobody} /\ Ends(w)
        /\ UNCHANGED <<invited, dirName, trashed, given, settingsOpen, settingsLoading, settingsError,
                       canManage, shownDirName, inviting, deletingDir, searchVars, inviteVars>>
    BY <1>1 DEF MemberChanged, ChangeRefused, directoryVars
  <2> QED
    BY <2>1, EndInvites DEF PagesFlags, SearchFlags, GivenFlags, NamesOK, given, searchVars, inviteVars
<1>2. ASSUME Managed(w) PROVE Flagged'
  <2> DEFINE c == work[w]
  <2>1. /\ c.kind \in {"invite", "rename", "trash"}
        /\ invited' = (IF c.kind = "invite" THEN invited \cup {c.who} ELSE invited)
        /\ dirName' \in {"new", dirName} /\ shownDirName' \in {"new", shownDirName}
        /\ trashed' = (trashed \/ c.kind = "trash")
        /\ inviting' = (inviting /\ ~(c.mounted /\ c.kind = "invite"))
        /\ settingsOpen' \in {settingsOpen, FALSE}
        /\ work' = [Forgotten EXCEPT ![w] = NoWork] \/ Ends(w)
        /\ UNCHANGED <<role, given, settingsLoading, settingsError, canManage, members, pendingUser,
                       deletingDir, searchVars, inviteVars>>
    BY <1>2 DEF Managed
  <2>2. Invites'
    <3>1. CASE work' = [Forgotten EXCEPT ![w] = NoWork]
      <4>1. \A v \in Works : /\ Forgotten[v].kind = work[v].kind /\ Forgotten[v].who = work[v].who
        BY DEF Forgotten, MemInv, WorkTyped
      <4>2. Forgotten = [v \in Works |-> Forgotten[v]]
        BY DEF Forgotten
      <4>3. \A v \in Works : work'[v] = IF v = w THEN NoWork ELSE Forgotten[v]
        BY <3>1, <4>2
      <4> QED BY <4>1, <4>3 DEF Invites, IsWork, NoWork
    <3> QED BY <2>1, <3>1, EndInvites
  <2>3. invited' \subseteq People
    BY <2>1 DEF Invites, IsWork, NamesOK
  <2>4. trashed' \in BOOLEAN /\ inviting' \in BOOLEAN
    BY <2>1
  <2>5. PagesFlags'
    BY <2>1, <2>4 DEF PagesFlags
  <2>6. NamesOK' /\ GivenFlags'
    BY <2>1, <2>3, <2>4 DEF NamesOK, GivenFlags, given
  <2> QED BY <2>1, <2>2, <2>5, <2>6 DEF SearchFlags, searchVars, inviteVars
<1>3. ASSUME ManagingFails(w) PROVE Flagged'
  <2>1. /\ inviting' = (inviting /\ ~(work[w].mounted /\ work[w].kind = "invite"))
        /\ deletingDir' = (deletingDir /\ ~(work[w].mounted /\ work[w].kind = "trash")) /\ Ends(w)
        /\ UNCHANGED <<directoryVars, given, settingsOpen, settingsLoading, settingsError, canManage, members,
                       shownDirName, pendingUser, searchVars, inviteVars>>
    BY <1>3 DEF ManagingFails
  <2>2. inviting' \in BOOLEAN /\ deletingDir' \in BOOLEAN
    BY <2>1
  <2> QED
    BY <2>1, <2>2, EndInvites DEF PagesFlags, SearchFlags, GivenFlags, NamesOK,
                                  directoryVars, given, searchVars, inviteVars
<1> QED BY <1>1, <1>2, <1>3

LEMMA SearchTypes ==
    ASSUME MemTypes, NEW w \in Works,
           SearchBegin(w) \/ SearchEnds(w) \/ DirsEnd(w) \/ InviteSent(w) \/ InviteFails(w)
    PROVE  Flagged'
<1> USE DEF MemTypes, Flagged
<1>0. query \in People \cup {Nobody} /\ invitee \in People \cup {Nobody}
  BY DEF MemInv, MembersTyped
<1>1. ASSUME Search(w) PROVE Flagged'
  <2>1. Invites'
    BY <1>0, <1>1, RequestInvites DEF Search, Kinds, OfSearch
  <2>2. PagesFlags'
    BY <1>1 DEF Search, PagesFlags, settingsVars
  <2>3. SearchFlags'
    BY <1>1 DEF Search, SearchFlags, searchVars, inviteVars
  <2>4. GivenFlags' /\ NamesOK'
    BY <1>1 DEF Search, GivenFlags, NamesOK, directoryVars, given, settingsVars
  <2> QED BY <2>1, <2>2, <2>3, <2>4
<1>2. ASSUME SendInvite(w) PROVE Flagged'
  <2>1. Invites'
    BY <1>0, <1>2, RequestInvites DEF SendInvite, Kinds, OfSearch
  <2>2. PagesFlags'
    BY <1>2 DEF SendInvite, PagesFlags, settingsVars
  <2>3. SearchFlags'
    BY <1>2 DEF SendInvite, SearchFlags, searchVars, inviteVars
  <2>4. GivenFlags' /\ NamesOK'
    BY <1>2 DEF SendInvite, GivenFlags, NamesOK, directoryVars, given, settingsVars
  <2> QED BY <2>1, <2>2, <2>3, <2>4
<1>3. ASSUME NEW p \in People, OpenInvite(w, p) PROVE Flagged'
  <2>1. Invites'
    BY <1>3, RequestInvites DEF OpenInvite, Kinds, OfSearch
  <2>2. PagesFlags'
    BY <1>3 DEF OpenInvite, PagesFlags, settingsVars
  <2>3. SearchFlags'
    BY <1>3 DEF OpenInvite, SearchFlags, searchVars, inviteVars
  <2>4. GivenFlags' /\ NamesOK'
    BY <1>3 DEF OpenInvite, GivenFlags, NamesOK, directoryVars, given, settingsVars
  <2> QED BY <2>1, <2>2, <2>3, <2>4
<1>4. ASSUME SearchEnds(w) PROVE Flagged'
  <2>1. Invites'
    BY <1>4, EndInvites DEF SearchEnds
  <2>2. PagesFlags'
    BY <1>4 DEF SearchEnds, PagesFlags, settingsVars
  <2>3. SearchFlags'
    BY <1>4 DEF SearchEnds, SearchFlags, searchVars, inviteVars
  <2>4. GivenFlags' /\ NamesOK'
    BY <1>4 DEF SearchEnds, GivenFlags, NamesOK, directoryVars, given, settingsVars
  <2> QED BY <2>1, <2>2, <2>3, <2>4
<1>5. ASSUME DirsEnd(w) PROVE Flagged'
  <2>1. Invites'
    BY <1>5, EndInvites DEF DirsEnd
  <2>2. PagesFlags'
    BY <1>5 DEF DirsEnd, PagesFlags, settingsVars
  <2>3. SearchFlags'
    BY <1>5 DEF DirsEnd, SearchFlags, searchVars, inviteVars
  <2>4. GivenFlags' /\ NamesOK'
    BY <1>5 DEF DirsEnd, GivenFlags, NamesOK, directoryVars, given, settingsVars
  <2> QED BY <2>1, <2>2, <2>3, <2>4
<1>6. ASSUME InviteSent(w) PROVE Flagged'
  <2>1. work[w].who \in People
    BY <1>6 DEF InviteSent, MemInv, WorksOK, IsWork
  <2>2. Invites'
    BY <1>6, EndInvites DEF InviteSent
  <2>3. PagesFlags'
    BY <1>6, <2>1 DEF InviteSent, PagesFlags, settingsVars
  <2>4. SearchFlags'
    BY <1>6, <2>1 DEF InviteSent, SearchFlags, searchVars, inviteVars
  <2>5. GivenFlags' /\ NamesOK'
    BY <1>6, <2>1 DEF InviteSent, GivenFlags, NamesOK, directoryVars, given, settingsVars
  <2> QED BY <2>2, <2>3, <2>4, <2>5
<1>7. ASSUME InviteFails(w) PROVE Flagged'
  <2>1. Invites'
    BY <1>7, EndInvites DEF InviteFails
  <2>2. PagesFlags'
    BY <1>7 DEF InviteFails, PagesFlags, settingsVars
  <2>3. SearchFlags'
    BY <1>7 DEF InviteFails, SearchFlags, searchVars, inviteVars
  <2>4. GivenFlags' /\ NamesOK'
    BY <1>7 DEF InviteFails, GivenFlags, NamesOK, directoryVars, given, settingsVars
  <2> QED BY <2>1, <2>2, <2>3, <2>4
<1> QED BY <1>1, <1>2, <1>3, <1>4, <1>5, <1>6, <1>7 DEF SearchBegin

LEMMA MemTypesStep == MemTypes /\ [MembersNext]_membersVars => MemTypes'
<1> SUFFICES ASSUME MemTypes, [MembersNext]_membersVars PROVE Flagged'
  BY MembersStepKeeps DEF MemTypes
<1>1. ASSUME NEW w \in Works, WorkStep(w) \/ SettingsBegin(w) \/ SearchBegin(w) PROVE Flagged'
  BY <1>1, SettingsBeginTypes, SettingsLoadTypes, SettingsEndTypes, SearchTypes DEF WorkStep
<1> USE DEF MemTypes, Flagged
<1>2. CASE LeaveSettings
  <2>1. AllForgotten
    BY <1>2, ForgottenForgotten DEF LeaveSettings, MemInv
  <2>2. Invites'
    BY <2>1 DEF AllForgotten, Invites, IsWork
  <2>3. PagesFlags'
    BY <1>2 DEF LeaveSettings, PagesFlags, settingsVars
  <2>4. SearchFlags'
    BY <1>2 DEF LeaveSettings, SearchFlags, searchVars, inviteVars
  <2>5. GivenFlags' /\ NamesOK'
    BY <1>2 DEF LeaveSettings, GivenFlags, NamesOK, directoryVars, given, settingsVars
  <2> QED BY <2>2, <2>3, <2>4, <2>5
<1>3. CASE CloseInvite
  <2>1. Invites'
    BY <1>3 DEF CloseInvite, Invites, IsWork
  <2>2. PagesFlags'
    BY <1>3 DEF CloseInvite, PagesFlags, settingsVars
  <2>3. SearchFlags'
    BY <1>3 DEF CloseInvite, SearchFlags, searchVars, inviteVars
  <2>4. GivenFlags' /\ NamesOK'
    BY <1>3 DEF CloseInvite, GivenFlags, NamesOK, directoryVars, given, settingsVars
  <2> QED BY <2>1, <2>2, <2>3, <2>4
<1>4. CASE SearchAgain \/ ClickOutside
  <2>1. Invites'
    BY <1>4 DEF SearchAgain, ClickOutside, Invites, IsWork
  <2>2. PagesFlags'
    BY <1>4 DEF SearchAgain, ClickOutside, PagesFlags, settingsVars
  <2>3. SearchFlags'
    BY <1>4 DEF SearchAgain, ClickOutside, SearchFlags, searchVars, inviteVars
  <2>4. GivenFlags' /\ NamesOK'
    BY <1>4 DEF SearchAgain, ClickOutside, GivenFlags, NamesOK, directoryVars, given, settingsVars
  <2> QED BY <2>1, <2>2, <2>3, <2>4
<1>5. ASSUME NEW q \in People \cup {Nobody}, TypeQuery(q) PROVE Flagged'
  <2>1. /\ typing' = (q # Nobody) /\ dropDown' = TRUE
        /\ UNCHANGED <<directoryVars, given, settingsVars, inviteVars, work>>
    BY <1>5 DEF TypeQuery
  <2>2. typing' \in BOOLEAN
    BY <2>1
  <2> QED
    BY <2>1, <2>2 DEF Invites, IsWork, PagesFlags, SearchFlags, GivenFlags, NamesOK,
                      directoryVars, given, settingsVars, inviteVars
<1>6. CASE UNCHANGED membersVars
  BY <1>6 DEF membersVars, Invites, IsWork, PagesFlags, SearchFlags, GivenFlags, NamesOK
<1> QED BY <1>1, <1>2, <1>3, <1>4, <1>5, <1>6 DEF MembersNext

-----------------------------------------------------------------------------
\* Whatever is clicked, answered or refused, the store of stars, the lists and the pages
\* of the settings keep the types that their hooks declare (favoritesStore.ts,
\* FolderSettingsPage.tsx, SharedSettingsPage.tsx, UserSearch.tsx and the pages with lists).
THEOREM ListsTypeCorrect == Spec /\ ListSpec /\ MembersSpec => []BothTypeOK
<1>1. Spec => []TypeOK
  BY FavInvHolds, PTL DEF FavInv
<1>2. ListInit => ListTypes
  BY ListInitOK DEF ListInit, ListTypes, ListFlags
<1>3. ListSpec => []ListTypeOK
  BY <1>2, ListTypesStep, ListTypesGive, PTL DEF ListSpec
<1>4. MembersSpec => []MembersTypeOK
  BY MemTypesInit, MemTypesStep, MemTypesGive, PTL DEF MembersSpec
<1>5. TypeOK /\ ListTypeOK /\ MembersTypeOK => BothTypeOK
  BY DEF BothTypeOK
<1> QED BY <1>1, <1>3, <1>4, <1>5, PTL
==============================================================================
