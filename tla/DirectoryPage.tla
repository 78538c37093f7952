--------------------------- MODULE DirectoryPage ---------------------------
(***************************************************************************)
(* pages/DirectoryPage.tsx: one page that stays mounted while the address  *)
(* goes from directory to directory, the requests it has under way, what   *)
(* it shows, the toasts that offer to undo, and MoveFileModal.tsx.         *)
(*                                                                         *)
(* Files and folders are listed alike, each list with a cursor of its own: *)
(* there is one list here.  Every handler keeps the directory (actualId)   *)
(* of the moment it was called in its closure: req[r].dir.                 *)
(***************************************************************************)
EXTENDS Naturals, FiniteSets

CONSTANTS
    Dirs, Items, None,
    Order,      \* the order in which the server lists items
    PageSize,   \* PAGE_LIMIT
    Reqs        \* bound: handlers and effects that have a request under way

ASSUME DirectoryPageAssumption ==
    /\ None \notin Dirs \cup Items \cup Reqs
    /\ IsFiniteSet(Items)   \* a table has finitely many rows
    /\ Order \in [Items -> Nat] /\ \A i, j \in Items : Order[i] = Order[j] => i = j
    /\ PageSize \in Nat \ {0}

VARIABLES
    place, trash,          \* the server: where items are, and which are in the trash
    canWrite,              \* permissions in these directories
    patient,               \* whether the user waits for answers
    url,                   \* the directory in the address, and actualId
    shown,                 \* what the page has of which directory
    isLoading, error,
    target,                \* dragDropStore: where files dropped on the page go
    crumbs, crumbLoad,     \* breadcrumbs, and the last call of loadBreadcrumbs
    more,                  \* isLoadingMoreFiles, isLoadingMoreDirs
    undoing,               \* isUndoingRef
    offers,                \* toasts that offer to undo
    modal,                 \* MoveFileModal
    req

vars == <<place, trash, canWrite, patient, url, shown, isLoading, error, target,
          crumbs, crumbLoad, more, undoing, offers, modal, req>>
serverVars == <<place, trash>>
rest       == <<canWrite, patient>>

Adds  == {"upload", "create", "save"}       \* DropZone, new folder, converted file
Moves == {"drop", "modal", "back"}
Kinds == {"load", "drag", "delete", "restore", "rename"} \cup Adds \cup Moves

NoReq  == [pc |-> "idle", kind |-> "load", item |-> None, dir |-> None, to |-> None,
           skip |-> FALSE, page |-> {}, next |-> None]
Closed == [open |-> FALSE, item |-> None, selected |-> None]

TypeOK ==
    /\ place \in [Items -> Dirs \cup {None}] /\ trash \subseteq Items
    /\ canWrite \in BOOLEAN /\ patient \in BOOLEAN
    /\ url \in Dirs
    /\ shown \in [dir : Dirs \cup {None}, items : SUBSET Items, twice : SUBSET Items,
                  next : Items \cup {None}]
    /\ isLoading \in BOOLEAN /\ error \in BOOLEAN
    /\ target \in Dirs
    /\ crumbs \in Dirs \cup {None} /\ crumbLoad \in Reqs \cup {None}
    /\ more \in BOOLEAN /\ undoing \in BOOLEAN
    /\ offers \subseteq [kind : {"restore", "back"}, item : Items, dir : Dirs]
    /\ modal \in [open : BOOLEAN, item : Items \cup {None}, selected : Dirs \cup {None}]
    /\ req \in [Reqs -> [pc : {"idle", "op", "list", "listed", "path", "more", "listedMore"},
                         kind : Kinds, item : Items \cup {None},
                         dir : Dirs \cup {None}, to : Dirs \cup {None}, skip : BOOLEAN,
                         page : SUBSET Items, next : Items \cup {None}]]

-----------------------------------------------------------------------------
(* The server's listing.                                                   *)

Content(d)  == {i \in Items : place[i] = d /\ i \notin trash}
After(S, c) == {i \in S : c = None \/ Order[i] > Order[c]}
\* The first PageSize members of S; the cursor is the last of them if there are more.
FirstOf(S)  == {i \in S : Cardinality({j \in S : Order[j] < Order[i]}) < PageSize}
LastItem(S) == CHOOSE i \in S : \A j \in S : Order[j] <= Order[i]
CursorOf(S) == IF S = FirstOf(S) THEN None ELSE LastItem(FirstOf(S))

-----------------------------------------------------------------------------
(* The screen.                                                             *)

Quiet   == \A r \in Reqs : req[r].pc = "idle"
\* The user, or an effect, may begin something.
Ready   == patient => Quiet
\* Neither the spinner nor the error screen.
Visible == ~isLoading /\ ~error /\ shown.dir # None
Usable  == Visible /\ ~modal.open /\ Ready
Free(r) == req[r].pc = "idle"

\* The buttons ask for the permission; the context menu, dragging and the entry
\* "move" of a file do not.
Offered(k) == k \in {"delete", "rename"} => canWrite

\* loadDirectory(d, skip) begins on behalf of q.
LoadDirectory(r, q, d, skip) ==
    /\ target' = d
    /\ error' = FALSE
    /\ isLoading' = (isLoading \/ ~skip)
    /\ req' = [req EXCEPT ![r] = [q EXCEPT !.pc = "list", !.dir = d, !.skip = skip]]

Send(r, k, i, d, to) ==
    req' = [req EXCEPT ![r] = [NoReq EXCEPT !.pc = "op", !.kind = k, !.item = i,
                                            !.dir = d, !.to = to]]

\* Another address: effect 2.  The toasts stay; a user who waits lets them go first.
Navigate(r, d) ==
    /\ Free(r) /\ d # url /\ ~modal.open /\ Ready
    /\ patient => offers = {}
    /\ url' = d
    /\ LoadDirectory(r, NoReq, d, FALSE)
    /\ UNCHANGED <<serverVars, rest, shown, crumbs, crumbLoad, more, undoing, offers, modal>>

-----------------------------------------------------------------------------
(* Handlers: the request, and what follows its answer.                     *)

Add(r, k, i) ==
    /\ Free(r) /\ Usable /\ k \in Adds /\ place[i] = None
    /\ \A s \in Reqs : ~(req[s].pc = "op" /\ req[s].kind \in Adds \cup {"drag"})
    /\ Send(r, k, i, url, url)
    /\ UNCHANGED <<serverVars, rest, url, shown, isLoading, error, target, crumbs,
                   crumbLoad, more, undoing, offers, modal>>

\* GlobalDropZone covers the page, whatever it shows.
Drag(r, i) ==
    /\ Free(r) /\ Ready /\ place[i] = None
    /\ \A s \in Reqs : ~(req[s].pc = "op" /\ req[s].kind \in Adds \cup {"drag"})
    /\ Send(r, "drag", i, url, target)
    /\ UNCHANGED <<serverVars, rest, url, shown, isLoading, error, target, crumbs,
                   crumbLoad, more, undoing, offers, modal>>

DeleteOrRename(r, k, i) ==
    /\ Free(r) /\ Usable /\ k \in {"delete", "rename"} /\ Offered(k)
    /\ i \in shown.items
    /\ Send(r, k, i, url, None)
    /\ UNCHANGED <<serverVars, rest, url, shown, isLoading, error, target, crumbs,
                   crumbLoad, more, undoing, offers, modal>>

\* handleFolderDrop on a folder that the page shows.
Drop(r, i, d) ==
    /\ Free(r) /\ Usable /\ Offered("drop") /\ i \in shown.items /\ d # shown.dir
    /\ Send(r, "drop", i, url, d)
    /\ UNCHANGED <<serverVars, rest, url, shown, isLoading, error, target, crumbs,
                   crumbLoad, more, undoing, offers, modal>>

\* Mutant: a toast can be clicked again, and moves are not taken in turn.
UndoAgain(r, o) ==
    /\ Free(r) /\ Ready /\ o \in offers
    /\ undoing' = (undoing \/ o.kind = "back")
    /\ Send(r, o.kind, o.item, o.dir, o.dir)
    /\ UNCHANGED <<serverVars, rest, url, shown, isLoading, error, target, crumbs,
                   crumbLoad, more, offers, modal>>

\* A toast works once; it is lost, without effect, while a move is being undone.
Undo(r, o) ==
    /\ Free(r) /\ Ready /\ o \in offers
    /\ o.kind = "back" => ~undoing
    /\ offers' = offers \ {o}
    /\ undoing' = (undoing \/ o.kind = "back")
    /\ Send(r, o.kind, o.item, o.dir, o.dir)
    /\ UNCHANGED <<serverVars, rest, url, shown, isLoading, error, target, crumbs,
                   crumbLoad, more, modal>>

\* It is closed, or its time is over.
Dismiss(o) ==
    /\ o \in offers /\ Ready
    /\ offers' = offers \ {o}
    /\ UNCHANGED <<serverVars, rest, url, shown, isLoading, error, target, crumbs,
                   crumbLoad, more, undoing, modal, req>>

\* What the server makes of the request.
Allowed(q) ==
    /\ canWrite
    /\ q.kind \in Adds \cup {"drag"} => place[q.item] = None
    /\ q.kind = "restore" => q.item \in trash
    /\ q.kind \in Moves \cup {"delete", "rename"} => place[q.item] # None /\ q.item \notin trash

Effect(q) ==
    /\ place' = IF q.kind \in Adds \cup Moves \cup {"drag"}
                THEN [place EXCEPT ![q.item] = q.to] ELSE place
    /\ trash' = IF q.kind = "delete"  THEN trash \cup {q.item} ELSE
                IF q.kind = "restore" THEN trash \ {q.item} ELSE trash

\* Mutant: the toast would move the item back to where it has gone.
OfferOfTarget(q) ==
    IF q.kind \in {"delete", "drop", "modal"}
    THEN {[kind |-> IF q.kind = "delete" THEN "restore" ELSE "back", item |-> q.item, dir |-> q.to]}
    ELSE {}

OfferOf(q) ==
    IF q.kind = "delete"
    THEN {[kind |-> "restore", item |-> q.item, dir |-> q.dir]}
    ELSE IF q.kind \in {"drop", "modal"}
    THEN {[kind |-> "back", item |-> q.item, dir |-> q.dir]}
    ELSE {}

\* The answer is ok: the directory of the closure is loaded again, without the
\* spinner; after a drag it is the callback of the directory in the address, with
\* it.  handleMoveComplete shows its toast first, and the modal closes.
Done(r) ==
    LET q == req[r] IN
    /\ q.pc = "op" /\ Allowed(q)
    /\ Effect(q)
    /\ LoadDirectory(r, q, IF q.kind = "drag" THEN url ELSE q.dir, q.kind # "drag")
    /\ offers' = IF q.kind = "modal" THEN offers \cup OfferOf(q) ELSE offers
    /\ modal' = IF q.kind = "modal" THEN [modal EXCEPT !.open = FALSE] ELSE modal
    /\ UNCHANGED <<rest, url, shown, crumbs, crumbLoad, more, undoing>>

\* The request fails, maybe after the server has done it.
Fail(r) ==
    LET q == req[r] IN
    /\ q.pc = "op"
    /\ \/ UNCHANGED serverVars
       \/ ~patient /\ Allowed(q) /\ Effect(q)
    /\ error' = (error \/ q.kind \in {"create", "delete"})
    /\ undoing' = (undoing /\ q.kind # "back")
    /\ req' = [req EXCEPT ![r] = NoReq]
    /\ UNCHANGED <<rest, url, shown, isLoading, target, crumbs, crumbLoad, more, offers, modal>>

-----------------------------------------------------------------------------
(* loadDirectory.                                                          *)

\* The server answers with the first page.
List(r) ==
    LET q == req[r]
        S == Content(q.dir) IN
    /\ q.pc = "list"
    /\ req' = [req EXCEPT ![r].pc = "listed", ![r].page = FirstOf(S), ![r].next = CursorOf(S)]
    /\ UNCHANGED <<serverVars, rest, url, shown, isLoading, error, target, crumbs,
                   crumbLoad, more, undoing, offers, modal>>

\* The answer arrives, in whatever order; loadBreadcrumbs takes a number.
Listed(r) ==
    LET q == req[r] IN
    /\ q.pc = "listed"
    /\ shown' = [dir |-> q.dir, items |-> q.page, twice |-> {}, next |-> q.next]
    /\ crumbLoad' = r
    /\ req' = [req EXCEPT ![r].pc = "path"]
    /\ UNCHANGED <<serverVars, rest, url, isLoading, error, target, crumbs, more,
                   undoing, offers, modal>>

\* loadDirectory never throws: the handler goes on as if it had succeeded.
Finish(r) ==
    LET q == req[r] IN
    /\ isLoading' = (isLoading /\ q.skip)
    /\ offers' = IF q.kind \in {"delete", "drop"} THEN offers \cup OfferOf(q) ELSE offers
    /\ undoing' = (undoing /\ q.kind # "back")
    /\ req' = [req EXCEPT ![r] = NoReq]

\* Mutant: whoever answers last sets the breadcrumbs.
PathUnnumbered(r) ==
    /\ req[r].pc = "path"
    /\ crumbs' = req[r].dir /\ crumbLoad' = IF crumbLoad = r THEN None ELSE crumbLoad
    /\ Finish(r)
    /\ UNCHANGED <<serverVars, rest, url, shown, error, target, more, modal>>

\* An answer that is not the last one asked for is dropped.
Path(r) ==
    /\ req[r].pc = "path"
    /\ IF crumbLoad = r THEN crumbs' = req[r].dir /\ crumbLoad' = None
                        ELSE UNCHANGED <<crumbs, crumbLoad>>
    /\ Finish(r)
    /\ UNCHANGED <<serverVars, rest, url, shown, error, target, more, modal>>

\* Mutant: the spinner stays.
ListFailsSpinning(r) ==
    /\ req[r].pc = "list"
    /\ error' = TRUE
    /\ req' = [req EXCEPT ![r] = NoReq]
    /\ UNCHANGED <<serverVars, rest, url, shown, isLoading, target, crumbs, crumbLoad, more,
                   undoing, offers, modal>>

ListFails(r) ==
    /\ req[r].pc = "list"
    /\ error' = TRUE
    /\ Finish(r)
    /\ UNCHANGED <<serverVars, rest, url, shown, target, crumbs, crumbLoad, more, modal>>

-----------------------------------------------------------------------------
(* loadMoreFiles, loadMoreDirs.                                            *)

\* The directory of the address, and the cursor of the list.
LoadMore(r) ==
    /\ Free(r) /\ Visible /\ Ready /\ ~more /\ shown.next # None
    /\ more' = TRUE
    /\ req' = [req EXCEPT ![r] = [NoReq EXCEPT !.pc = "more", !.dir = url, !.next = shown.next]]
    /\ UNCHANGED <<serverVars, rest, url, shown, isLoading, error, target, crumbs,
                   crumbLoad, undoing, offers, modal>>

ListMore(r) ==
    LET S == After(Content(req[r].dir), req[r].next) IN
    /\ req[r].pc = "more"
    /\ req' = [req EXCEPT ![r].pc = "listedMore", ![r].page = FirstOf(S), ![r].next = CursorOf(S)]
    /\ UNCHANGED <<serverVars, rest, url, shown, isLoading, error, target, crumbs,
                   crumbLoad, more, undoing, offers, modal>>

\* Mutant: the cursor is kept.
ListedMoreKeepsCursor(r) ==
    LET q == req[r] IN
    /\ q.pc = "listedMore"
    /\ shown' = [shown EXCEPT !.items = @ \cup q.page, !.twice = @ \cup (shown.items \cap q.page)]
    /\ more' = FALSE
    /\ req' = [req EXCEPT ![r] = NoReq]
    /\ UNCHANGED <<serverVars, rest, url, isLoading, error, target, crumbs, crumbLoad,
                   undoing, offers, modal>>

\* Appended to the list there is now, whatever directory it is of.
ListedMore(r) ==
    LET q == req[r] IN
    /\ q.pc = "listedMore"
    /\ shown' = [shown EXCEPT !.items = @ \cup q.page, !.next = q.next,
                              !.twice = @ \cup (shown.items \cap q.page)]
    /\ more' = FALSE
    /\ req' = [req EXCEPT ![r] = NoReq]
    /\ UNCHANGED <<serverVars, rest, url, isLoading, error, target, crumbs, crumbLoad,
                   undoing, offers, modal>>

ListMoreFails(r) ==
    /\ req[r].pc = "more"
    /\ more' = FALSE
    /\ req' = [req EXCEPT ![r] = NoReq]
    /\ UNCHANGED <<serverVars, rest, url, shown, isLoading, error, target, crumbs,
                   crumbLoad, undoing, offers, modal>>

-----------------------------------------------------------------------------
(* MoveFileModal.                                                          *)

\* Which folders it lists is left out: any may be selected.
OpenModal(i) ==
    /\ Usable /\ i \in shown.items
    /\ modal' = [open |-> TRUE, item |-> i, selected |-> url]
    /\ UNCHANGED <<serverVars, rest, url, shown, isLoading, error, target, crumbs,
                   crumbLoad, more, undoing, offers, req>>

NavigateTo(d) ==
    /\ modal.open /\ Ready /\ d # modal.selected
    /\ modal' = [modal EXCEPT !.selected = d]
    /\ UNCHANGED <<serverVars, rest, url, shown, isLoading, error, target, crumbs,
                   crumbLoad, more, undoing, offers, req>>

IsMoving == \E r \in Reqs : req[r].pc = "op" /\ req[r].kind = "modal"

HandleMove(r) ==
    /\ Free(r) /\ modal.open /\ Ready /\ ~IsMoving /\ modal.selected # url
    /\ Send(r, "modal", modal.item, url, modal.selected)
    /\ UNCHANGED <<serverVars, rest, url, shown, isLoading, error, target, crumbs,
                   crumbLoad, more, undoing, offers, modal>>

CloseModal ==
    /\ modal.open
    /\ modal' = [modal EXCEPT !.open = FALSE]
    /\ UNCHANGED <<serverVars, rest, url, shown, isLoading, error, target, crumbs,
                   crumbLoad, more, undoing, offers, req>>

-----------------------------------------------------------------------------

Init ==
    /\ place \in [Items -> Dirs \cup {None}] /\ trash = {}
    /\ canWrite \in BOOLEAN /\ patient \in BOOLEAN
    /\ url \in Dirs /\ target = url
    /\ shown = [dir |-> None, items |-> {}, twice |-> {}, next |-> None]
    /\ isLoading = TRUE /\ error = FALSE
    /\ crumbs = None /\ crumbLoad = None
    /\ more = FALSE /\ undoing = FALSE /\ offers = {}
    /\ modal = Closed
    /\ \E r \in Reqs : req = [s \in Reqs |-> IF s = r THEN [NoReq EXCEPT !.pc = "list", !.dir = url]
                                                      ELSE NoReq]

Begin(r) ==
    \/ \E d \in Dirs : Navigate(r, d)
    \/ \E k \in Adds, i \in Items : Add(r, k, i)
    \/ \E i \in Items : Drag(r, i)
    \/ \E k \in {"delete", "rename"}, i \in Items : DeleteOrRename(r, k, i)
    \/ \E i \in Items, d \in Dirs : Drop(r, i, d)
    \/ \E o \in offers : Undo(r, o)
    \/ LoadMore(r) \/ HandleMove(r)

Continue(r) ==
    \/ Done(r) \/ Fail(r)
    \/ List(r) \/ Listed(r) \/ Path(r) \/ ListFails(r)
    \/ ListMore(r) \/ ListedMore(r) \/ ListMoreFails(r)

Next ==
    \/ \E r \in Reqs : Begin(r) \/ Continue(r)
    \/ \E o \in offers : Dismiss(o)
    \/ \E i \in Items : OpenModal(i)
    \/ \E d \in Dirs : NavigateTo(d)
    \/ CloseModal

Spec == Init /\ [][Next]_vars

-----------------------------------------------------------------------------
\* The breadcrumbs are of the directory whose contents the page has, or the
\* answer that will make them so is under way, and no other will be taken
\* (breadcrumbLoadIdRef).
CrumbsFollowContents ==
    crumbs # shown.dir =>
        /\ crumbLoad # None
        /\ req[crumbLoad].pc = "path" /\ req[crumbLoad].dir = shown.dir

\* However many toasts there are and however often they are clicked, moves are
\* undone one after the other, and no item is restored twice at once (undoing,
\* isUndoingRef).
UndoneOnce ==
    \A r, s \in Reqs : r # s /\ req[r].kind = req[s].kind =>
        /\ req[r].kind # "back"
        /\ req[r].kind = "restore" /\ req[r].pc = "op" /\ req[s].pc = "op" => req[r].item # req[s].item

\* For a user who waits: when nothing is under way the page shows the directory
\* of the address as the server has it, from its first item up to the cursor, each
\* item once; and files dropped go there.
ShowsServer ==
    patient /\ Quiet /\ ~error =>
        /\ shown.dir = url /\ target = url /\ shown.twice = {}
        /\ shown.items = {i \in Content(url) : shown.next = None \/ Order[i] <= Order[shown.next]}
=============================================================================
