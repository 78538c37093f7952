---------------------------- MODULE SharedViews ----------------------------
(***************************************************************************)
(* The public pages of a share link, SharePage for a file and SharedDirec- *)
(* toryPage for a directory: the password form, the address with its path, *)
(* the fetches that an effect starts whenever something changes and that   *)
(* nothing cancels, and the pages of files that are appended.  The names   *)
(* differ from those of DirectoryPage, with which the model is checked.    *)
(***************************************************************************)
EXTENDS Naturals, Sequences, FiniteSets

CONSTANTS
    Folders, Top, NoFolder,
    Parent,        \* of every folder but the shared one, Top
    Docs, NoDoc,
    FolderOf,      \* where a document is
    DocRank,       \* the order of the server's list
    DocLimit,      \* files_limit
    Gets           \* bound: requests under way

ASSUME SharedViewsAssumption ==
    /\ Top \in Folders /\ NoFolder \notin Folders /\ NoDoc \notin Docs
    /\ Parent \in [Folders \ {Top} -> Folders]
    /\ FolderOf \in [Docs -> Folders] /\ DocRank \in [Docs -> Nat]
    /\ DocLimit \in Nat \ {0}
    /\ IsFiniteSet(Docs)   \* a table has finitely many rows

VARIABLES
    view,              \* which of the two pages
    secret,            \* the server: the link has a password
    guestWaits,        \* whether the user waits for answers
    path,              \* ?path=, from the shared directory down
    data, docs, docsCursor, trail,     \* what was fetched, and the breadcrumbs
    fetching, navigating, failed, fetchingMore,
    needsPassword, passwordError, password, saved, submitting,
    get

viewVars == <<view, secret, guestWaits, path, data, docs, docsCursor, trail, fetching, navigating,
              failed, fetchingMore, needsPassword, passwordError, password, saved, submitting, get>>
fixed    == <<view, secret, guestWaits>>
fetched  == <<data, docs, docsCursor, trail>>
waiting  == <<fetching, navigating, failed, fetchingMore>>
form     == <<needsPassword, passwordError, password, saved, submitting>>

Passwords == {"none", "right", "wrong"}
NoGet     == [pc |-> "idle", path |-> <<>>, password |-> "none", given |-> FALSE,
              gate |-> FALSE, from |-> NoDoc]

Paths == {<<>>} \cup {<<a>> : a \in Folders} \cup {<<a, b>> : a \in Folders, b \in Folders}

ViewTypeOK ==
    /\ view \in {"file", "directory"} /\ secret \in BOOLEAN /\ guestWaits \in BOOLEAN
    /\ path \in Paths /\ trail \in Paths
    /\ data \in Folders \cup {NoFolder} /\ docs \subseteq Docs /\ docsCursor \in Docs \cup {NoDoc}
    /\ {fetching, navigating, failed, fetchingMore} \subseteq BOOLEAN
    /\ {needsPassword, passwordError, submitting} \subseteq BOOLEAN
    /\ password \in Passwords /\ saved \in Passwords
    /\ get \in [Gets -> [pc : {"idle", "fetch", "more"}, path : Paths, password : Passwords,
                         given : BOOLEAN, gate : BOOLEAN, from : Docs \cup {NoDoc}]]

-----------------------------------------------------------------------------
\* subDirId: the last of the path.
Folder(p) == IF p = <<>> THEN Top ELSE p[Len(p)]
Subs(f)   == {g \in Folders \ {Top} : Parent[g] = f}

\* The server's list of a folder, from a cursor on.
Beyond(f, c)  == {d \in Docs : FolderOf[d] = f /\ (c = NoDoc \/ DocRank[d] > DocRank[c])}
FirstDocs(S)  == {d \in S : Cardinality({e \in S : DocRank[e] < DocRank[d]}) < DocLimit}
LastDoc(S)    == CHOOSE d \in S : \A e \in S : DocRank[e] <= DocRank[d]
NextCursor(S) == IF S = FirstDocs(S) THEN NoDoc ELSE LastDoc(FirstDocs(S))
Admits(pw)    == secret => pw = "right"

GuestQuiet == \A k \in Gets : get[k].pc = "idle"
GuestReady == guestWaits => GuestQuiet

\* What is on the screen: the form comes before everything else.
FormShown == needsPassword /\ data = NoFolder
DirectoryShown ==
    view = "directory" /\ ~FormShown /\ ~fetching /\ ~navigating /\ ~failed /\ data # NoFolder
-----------------------------------------------------------------------------
\* fetchData(), with the password that was saved when it was made.
Fetch(k, p, pw) ==
    /\ get[k].pc = "idle"
    /\ get' = [get EXCEPT ![k] = [NoGet EXCEPT !.pc = "fetch", !.path = p, !.password = pw,
                                               !.gate = (pw = "none")]]
    /\ fetching' = TRUE /\ failed' = FALSE

\* The effect of SharedDirectoryPage after its address or its token has changed.
Refetch(k, p) ==
    /\ needsPassword' = FALSE /\ password' = "none" /\ passwordError' = FALSE
    /\ data' = IF saved = "none" THEN NoFolder ELSE data
    /\ Fetch(k, p, saved)
    /\ UNCHANGED <<docs, docsCursor, fetchingMore, saved, submitting>>

\* The access token is renewed; the effect of SharePage knows of no password.
RenewToken(k) ==
    /\ ~guestWaits
    /\ \/ view = "directory" /\ Refetch(k, path) /\ UNCHANGED <<trail, navigating>>
       \/ view = "file" /\ Fetch(k, <<>>, "none") /\ UNCHANGED <<fetched, navigating, fetchingMore, form>>
    /\ UNCHANGED <<fixed, path>>

\* handleNavigate: a folder of the list that is shown.
Enter(k, g) ==
    /\ DirectoryShown /\ GuestReady /\ g \in Subs(data) /\ Len(path) < 2 /\ Len(trail) < 2
    /\ path' = Append(path, g) /\ trail' = Append(trail, g)
    /\ navigating' = TRUE
    /\ Refetch(k, path')
    /\ UNCHANGED fixed

\* handleBreadcrumbClick: an address that is there already starts no effect.
Climb(k, i) ==
    /\ DirectoryShown /\ GuestReady /\ i < Len(trail)
    /\ path' = IF i < Len(path) THEN SubSeq(path, 1, i) ELSE path
    /\ trail' = SubSeq(trail, 1, i)
    /\ navigating' = TRUE
    /\ IF path' # path THEN Refetch(k, path')
       ELSE UNCHANGED <<data, docs, docsCursor, fetching, failed, fetchingMore, form, get>>
    /\ UNCHANGED fixed

\* The button of the browser changes the address alone.
GoBack(k) ==
    /\ view = "directory" /\ GuestReady /\ path # <<>>
    /\ path' = SubSeq(path, 1, Len(path) - 1)
    /\ Refetch(k, path')
    /\ UNCHANGED <<fixed, trail, navigating>>

Type(pw) ==
    /\ FormShown /\ GuestReady /\ pw # password
    /\ password' = pw
    /\ UNCHANGED <<fixed, path, fetched, waiting, needsPassword, passwordError, saved, submitting, get>>

\* handlePasswordSubmit of SharePage: one request, and the form stays until its answer.
SubmitForFile(k) ==
    /\ view = "file" /\ FormShown /\ GuestReady /\ password # "none" /\ ~submitting
    /\ get[k].pc = "idle"
    /\ get' = [get EXCEPT ![k] = [NoGet EXCEPT !.pc = "fetch", !.password = password, !.given = TRUE]]
    /\ submitting' = TRUE /\ passwordError' = FALSE
    /\ UNCHANGED <<fixed, path, fetched, waiting, needsPassword, password, saved>>

\* That of SharedDirectoryPage saves the password, so that the effect hides the form
\* and fetches a second time.
SubmitForDirectory(k, j) ==
    /\ view = "directory" /\ FormShown /\ GuestReady /\ password # "none" /\ ~submitting
    /\ k # j /\ get[k].pc = "idle" /\ get[j].pc = "idle"
    /\ LET sent == [NoGet EXCEPT !.pc = "fetch", !.path = path, !.password = password] IN
       get' = [get EXCEPT ![k] = [sent EXCEPT !.given = TRUE],
                          ![j] = IF password = saved THEN @ ELSE sent]
    /\ submitting' = TRUE /\ passwordError' = FALSE /\ saved' = password
    /\ IF password = saved THEN UNCHANGED <<needsPassword, password>>
                           ELSE needsPassword' = FALSE /\ password' = "none"
    /\ fetching' = TRUE /\ failed' = FALSE
    /\ UNCHANGED <<fixed, path, fetched, navigating, fetchingMore>>

\* loadMoreFiles.
MoreDocs(k) ==
    /\ DirectoryShown /\ GuestReady /\ docsCursor # NoDoc /\ ~fetchingMore /\ get[k].pc = "idle"
    /\ fetchingMore' = TRUE
    /\ get' = [get EXCEPT ![k] = [NoGet EXCEPT !.pc = "more", !.path = path, !.password = saved,
                                               !.from = docsCursor]]
    /\ UNCHANGED <<fixed, path, fetched, fetching, navigating, failed, form>>

-----------------------------------------------------------------------------
(* Answers, in any order.                                                  *)

\* The finally of a fetch; that of the form of SharePage is another one.
Ended(k) ==
    LET q == get[k] IN
    /\ get' = [get EXCEPT ![k] = NoGet]
    /\ submitting' = (submitting /\ ~q.given)
    /\ IF view = "file" /\ q.given THEN UNCHANGED <<fetching, navigating>>
                                   ELSE fetching' = FALSE /\ navigating' = FALSE

\* Mutant: the cursor of the folder before stays.
OpenedKeepsCursor(k) ==
    LET q == get[k]  all == Beyond(Folder(q.path), NoDoc) IN
    /\ q.pc = "fetch" /\ Admits(q.password)
    /\ data' = Folder(q.path) /\ docs' = FirstDocs(all) /\ UNCHANGED docsCursor /\ trail' = q.path
    /\ needsPassword' = (needsPassword /\ view = "file" /\ ~q.given)
    /\ Ended(k)
    /\ UNCHANGED <<fixed, path, failed, fetchingMore, passwordError, password, saved>>

\* What was asked for is shown, wherever the address is now.
Opened(k) ==
    LET q == get[k]  all == Beyond(Folder(q.path), NoDoc) IN
    /\ q.pc = "fetch" /\ Admits(q.password)
    /\ data' = Folder(q.path) /\ docs' = FirstDocs(all) /\ docsCursor' = NextCursor(all) /\ trail' = q.path
    /\ needsPassword' = (needsPassword /\ view = "file" /\ ~q.given)
    /\ Ended(k)
    /\ UNCHANGED <<fixed, path, failed, fetchingMore, passwordError, password, saved>>

\* 403: a request without any password asks for one, the others call it wrong.
WrongPassword(k) ==
    LET q == get[k] IN
    /\ q.pc = "fetch" /\ ~Admits(q.password)
    /\ IF q.gate THEN needsPassword' = TRUE /\ UNCHANGED passwordError
                 ELSE passwordError' = TRUE /\ UNCHANGED needsPassword
    /\ Ended(k)
    /\ UNCHANGED <<fixed, path, fetched, failed, fetchingMore, password, saved>>

\* Any other failure.
GetFails(k) ==
    LET q == get[k] IN
    /\ q.pc = "fetch"
    /\ IF view = "file" /\ q.given THEN passwordError' = TRUE /\ UNCHANGED failed
                                   ELSE failed' = TRUE /\ UNCHANGED passwordError
    /\ Ended(k)
    /\ UNCHANGED <<fixed, path, fetched, fetchingMore, needsPassword, password, saved>>

MoreArrived(k) ==
    LET q == get[k]  further == Beyond(Folder(q.path), q.from) IN
    /\ q.pc = "more" /\ Admits(q.password)
    /\ docs' = docs \cup FirstDocs(further) /\ docsCursor' = NextCursor(further)
    /\ fetchingMore' = FALSE /\ get' = [get EXCEPT ![k] = NoGet]
    /\ UNCHANGED <<fixed, path, data, trail, fetching, navigating, failed, form>>

MoreFailed(k) ==
    /\ get[k].pc = "more"
    /\ fetchingMore' = FALSE /\ get' = [get EXCEPT ![k] = NoGet]
    /\ UNCHANGED <<fixed, path, fetched, fetching, navigating, failed, form>>

-----------------------------------------------------------------------------
\* A page that has just been loaded, at an address of a folder, perhaps.
ViewInit ==
    /\ view \in {"file", "directory"} /\ secret \in BOOLEAN /\ guestWaits \in BOOLEAN
    /\ path \in IF view = "file" THEN {<<>>} ELSE {<<>>} \cup {<<g>> : g \in Subs(Top)}
    /\ data = NoFolder /\ docs = {} /\ docsCursor = NoDoc /\ trail = <<>>
    /\ fetching = TRUE /\ navigating = FALSE /\ failed = FALSE /\ fetchingMore = FALSE
    /\ needsPassword = FALSE /\ passwordError = FALSE /\ submitting = FALSE
    /\ password = "none" /\ saved = "none"
    /\ \E k \in Gets : get = [j \in Gets |-> IF j = k THEN
            [NoGet EXCEPT !.pc = "fetch", !.path = path, !.gate = TRUE] ELSE NoGet]

GetStep(k) ==
    Opened(k) \/ WrongPassword(k) \/ GetFails(k) \/ MoreArrived(k) \/ MoreFailed(k)

ViewNext ==
    \/ \E k \in Gets :
           \/ GetStep(k) \/ RenewToken(k) \/ GoBack(k) \/ SubmitForFile(k) \/ MoreDocs(k)
           \/ \E j \in Gets : SubmitForDirectory(k, j)
           \/ \E g \in Folders \ {Top} : Enter(k, g)
           \/ \E i \in 0..1 : Climb(k, i)
    \/ \E pw \in Passwords \ {"none"} : Type(pw)

ViewSpec == ViewInit /\ [][ViewNext]_viewVars /\ \A k \in Gets : WF_viewVars(GetStep(k))

-----------------------------------------------------------------------------
\* For a user who waits: the list and the breadcrumbs are those of the address, every
\* document up to the cursor is shown, and whoever has not given the password is asked
\* for it -- but who has mistyped it for a directory is not asked again.
ViewFollowsAddress ==
    guestWaits /\ GuestQuiet /\ ~failed =>
        IF secret /\ saved # "right" /\ (view = "directory" \/ data = NoFolder)
        THEN FormShown \/ saved = "wrong"
        ELSE /\ data = Folder(path) /\ trail = path
             /\ docs = {d \in Docs : FolderOf[d] = data
                                   /\ (docsCursor = NoDoc \/ DocRank[d] <= DocRank[docsCursor])}
=============================================================================
