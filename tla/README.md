# SharedSpace in TLA+

SharedSpace is a file store: a Go HTTP server (`src/backend`) over PostgreSQL
and MinIO, and a React client (`src/frontend`). This directory holds its
specifications, the TLC configurations that check them on small instances, and
the TLAPS proofs of what holds for every instance.

## 1. The system

**Server.** Every HTTP request is served by a goroutine of its own. The server
keeps no state between requests except the rate limiter's counters: everything
else is in PostgreSQL (default isolation, READ COMMITTED) and in two MinIO
buckets. So two requests meet only through rows and objects, and what can come
between the steps of a request is another request's committed statement, a
failing statement, a failing object call, or the end of the process. A service
opens a transaction for some operations and runs others as single, autocommitted
statements; the only explicit row locks are `SELECT ... FOR UPDATE` on `users`
(`GetUserStorage`, `GetShareLinksStats`), on `refresh_tokens` and on
`email_tokens`.

**Client.** One tab is one thread: a handler runs to its next `await` without
interruption, and between two of them any other handler, effect or answer may
come. Nothing cancels a request that has been sent. The state of a page lives as
long as the page is mounted; the stores (session, favorites, drag and drop) live
as long as the tab; the cookie survives a reload and is shared by all tabs.

### Components

| Component | State | Operations | What makes it correct |
|---|---|---|---|
| `files` | rows of `files`, `file_conversions`; objects of the main bucket; `users.storage_used`; `directories.files_count` | upload, convert and save, move and rename, to trash, restore, delete, list | the quota is never exceeded; the counters say what the rows say; no row without its object, no object without a row |
| `trash` | the same rows, with `deleted_at` | list, clear some, clear all | frees what it deletes, once |
| `dirs` | the tree of `directories` (`parent_id`, `deleted_at`), `files_count` | create, move and rename, to trash, restore, delete, contents, path | the tree stays a tree; trashing and restoring a subtree are inverse |
| `sharing` | `shared_directories`, `shared_directory_members`, `directory_invitations`, `users.shared_dirs_count` | invite, accept, decline, withdraw, change role, remove member | one pending invitation a person; nobody joins without one; who was removed is out |
| `access` | none: it reads `directories` and the members | `Can(user, directory, action)` | the owner may do everything, a member what the role of the nearest shared ancestor allows |
| `sharelinks` | `share_links`, `users.share_links_count` | create, update, delete, delete all, resolve | a link opens what it was made for and nothing once it is off, expired or deleted; the number of links stays within its limit |
| `auth` | `users` (password, `activated`), `refresh_tokens`, `email_tokens` | register, log in, refresh, log out, verify e-mail, resend, request and complete a reset | a refresh token is good once; a reset ends every session |
| `users` | `users` | profile, change password, delete account, search | a change of password ends every other session |
| `favorites`, `mylinks`, `pagination` | `favorite_files`; none; none | add, remove, list; list by cursor | a list walked page by page shows every row once |
| `middleware` | the counters of the rate limiter | limit, authenticate, require activation, recover | at most `limit` requests a window |
| `storage`, `mailer`, `database`, `config`, `server`, `apperror`, `swagger` | the two buckets; none | objects, e-mail, migrations, start-up, routes, error bodies | external effects of the other parts |
| front end: session (`api/client.ts`, `store/authStore.ts`) | `user`, `accessToken`, `isActivated`; `refreshPromise`; the cookie | call, refresh on 401, log in and out, hydrate, verify, change account | calls share one refresh, each gets an answer; cookie, token and profile are of one user |
| front end: directory page | contents, cursors, breadcrumbs, toasts, dialogs | navigate, load, append a page, upload, create, rename, move, delete, undo | shows the directory of the address as the server has it; undoes once |
| front end: file page | metadata, owner, preview, dialogs | load, rename, delete, convert | shows the file of the address |
| front end: pages of a share link | address with a path, password, contents | ask for the password, climb up and down, append a page | address, contents and breadcrumbs agree |
| front end: share-link dialog | links, editor; outside of it a badge and a counter | list, create, edit, delete, undo | the badge and the counter follow the links |
| front end: favorites | `favoriteIds`, `loadedToken`, `inFlight` | load, toggle, undo, reset | a star is what the server knows of |
| front end: list pages (trash, links, invitations, shared directories) | entries, cursors, toasts | load, append a page, remove, clear, undo | nothing is shown twice or missing |
| front end: settings and members | members, roles, `pendingUserId`, the search and its timer | change a role, remove, invite, withdraw, rename, delete | a refused change is taken back |

### How they interact

`files`, `dirs`, `sharing`, `sharelinks` and `trash` ask `access` before they
act, outside the transaction in which they act. `files`, `dirs` and `trash` call
`sharelinks`' repository to switch links off and on with the thing they open and
to give the owners' counters back. Everything that moves bytes writes
`users.storage_used`; `files` and `dirs` write `files_count` of a directory and
of everything above it. `sharing` and `dirs` both write `shared_dirs_count`.
`auth` and `users` write the password and revoke refresh tokens.

In the client every page calls the server through `apiRequest`, which renews the
access token behind the page's back; hydration and the verification page renew
by themselves, on the same cookie. Every page that shows a star uses the store of
favorites, which is emptied when the session ends. `GlobalDropZone` uploads into the
directory that the directory page has left in a store.

### What is hard

* Checks are made on rows read before the transaction (or the statement) that
  relies on them: deletions, restores, moves, roles, passwords.
* Three-statement operations without a transaction (to trash, restore).
* Two stores and no common transaction: objects are stored before the commit of
  an upload and deleted before the commit of a deletion.
* Counters kept by increments, next to rows that others delete.
* Lock order: several operations lock rows of different tables in different
  orders, and only the database's deadlock detector ends such a wait.
* A revocation sees the tokens that exist when it starts; a log-in or a refresh
  in progress stores one afterwards.
* In the client, answers in any order: of requests of pages that have another
  address by then, of sessions that are over, of refreshes of another tab.
* Changes shown before the server has answered, several at a time, that are taken
  back when it refuses; toasts that undo what has changed since.
* Lists appended page by page while they change.

## 2. How the modules correspond to the code

Actions have the names of the functions they translate; `PROJECT.json` names the
lines of each.

### The server

A request is a process. Its local variables are one record, `req[r]`, and `pc`
names the next statement, so what a handler read earlier and uses later is a
field of that record. An action is everything between two points at which
another request can come in: one autocommitted statement, or one transaction up
to its commit. Where a transaction's row locks decide what others may see or
do, the transaction has several steps and the locks are modelled; where it takes
none that matter, it is the one step of its commit.

| Module | Models | State |
|---|---|---|
| `FileStore` | one file's life in `files` and `trash` | `row`, `dir`: table `files`; `link`: its link's `is_active`; `used`: `users.storage_used`; `filesCount`; `objects`: the main bucket; `lock`: the row lock on `users`; `req` |
| `StorageLedger` | what `files` and `trash` promise about `storage_used`, the abstraction of `FileStore` | `used` |
| `AuthSessions` | one account in `auth` and `users` | `account`, `activated`, `password`: the row of `users`; `tok`, `mail`: `refresh_tokens`, `email_tokens`; `expired`; `req`, from which the row locks follow |
| `DirTree` | `dirs`, and `trash` for directories | `parent`, `dirAt`: `parent_id`, `deleted_at` of directories; `fileIn`, `fileAt` of files; `filesCount`, `used`, `objects`, `link`, `req` |
| `ShareLinks` | `sharelinks`, and whoever deletes its rows | `user`, `target`: rows that may be deleted; `link`: `share_links`; `count`: `share_links_count`; `req`, with the row locks |
| `Sharing` | `sharing` and `access` for one shared directory | `shared`, `user`, `role`: the members; `inv`: the invitations; `req` |

**FileStore.** `Upload` and `ConvertAndSave` store objects (`PutObject`), then
lock the user and check the quota (`GetUserStorage`), then insert and charge
(`CommitUpload`); any failure leads to `cleanupObjects` (`CleanupObject`,
`CleanupEnd`), with the transaction open and the lock held until its end.
`SoftDelete` and `Restore` are a read and three statements.
`PermanentDelete` and `ClearTrash` read, delete rows under locks
(`DeleteRows`), delete objects one by one (`DeleteObject`) and commit
(`CommitDelete`). `Faults` says which failures the environment may cause: an
object call that fails with or without effect, a statement, a commit, a commit
whose answer is lost, a failing delete of an object, the end of the process.
`DeleteRows` takes its row locks at once: two deletions do not deadlock with a
conversion in the model as they can in PostgreSQL, where one of the two would be
rolled back, as `DeleteFails` does.

**AuthSessions.** A password is the number of changes before it. `fam` and `pw`
of a refresh token are history variables: the log-in it descends from, and the
password that opened it or was proved in it last. `snap` is what a bulk `UPDATE`
has found in its snapshot. `Waits` says who waits for whom and `DeadlockVictim`
is PostgreSQL's deadlock detector.

**DirTree.** Every operation reads the subtree, the files and the parent by
statements of their own before its transaction, and each read is a step
(`TrashedSubtree`, `TrashedFiles`, ...); the transaction that uses them is one step
(`SoftDeleteSubtree`, `RestoreSubtree`, `HardDelete`). A recursive query ends only
if it meets no cycle (`SubtreeEnds`, `WalkEnds`): `UNION ALL` over a cycle never
does. A deletion time is one of the numbers `Times`; only equality of times
matters to the code, so a new time is the least one not in use. The four steps of
an operation on one file are in `FileStore`; here it is one step.

**ShareLinks.** A transaction's writes are made in its last step and it holds
row locks until then. A `DELETE` that several transactions race for is two
steps: the snapshot (`DeleteByFileIDs`) and, when the rows it found are free,
the rows that are still there (`LockFound`, which takes all it found at once
where PostgreSQL takes one after the other). The counters of several creators
are decremented in any order, as Go iterates a map.

**Sharing.** A handler asks `access.Can` when it starts and writes later, so who
asks may have lost the role by then. Foreign keys and the unique index on
pending invitations are guards of the statements they refuse. `Answerers` and
`Inviters` are the requests that may change, or create, invitations: the
properties about invitations hold while there is one such request at a time
(see section 6).

### The client

An action is what a handler, an effect or the continuation of an `await` does up
to its next `await`. A request is sent in one action and answered, or fails, in
another; it takes effect at the server in one between them, or together with its
answer where nothing that the page does can tell the two apart. A page keeps the variables that React keeps
(`useState`, `useRef`, stores), under the names they have there as far as one
name space for several modules allows. What a handler has in its closure is a
field of its request. Where the code checks `isMounted` or a load's number, the
model does, and nowhere else.

| Module | Models | State |
|---|---|---|
| `Session` | `api/client.ts`, `store/authStore.ts`, what `main.tsx` and the guards of `App.tsx` do with them, and the server's rotation as the client sees it | `issued`, `live`, `expired`: the server's tokens; `cookie`; `user`, `accessToken`, `isActivated`; `call`, `rotation`, `flow`: calls, refreshes and actions of the store under way |
| `Renewals` | what `client.ts` promises to its callers, the abstraction of `Session` | `phase`, `token` of each call |
| `DirectoryPage` | `DirectoryPage.tsx`, `MoveFileModal.tsx` | the server's `place`, `trash`; `url`, `shown`, `crumbs`, `target`, `offers`, `modal`, flags; `req` |
| `SharedViews` | `SharePage.tsx`, `SharedDirectoryPage.tsx` | `path`, `data`, `docs`, `trail`, the password form, flags; `get` |
| `FileView` | `FileViewPage.tsx` | `id` of the address and, for each thing shown, the file it is of; flags; `run`: runs of the effect; `op` |
| `ShareDialog` | `ShareLinkModal.tsx` and what it changes outside | the server's `links`; `listed`, `editing`, `badge`, `count`, `undoable`; `call` |
| `Favorites` | `favoritesStore.ts` and its users: dashboard, favorites, directory and file pages, `GlobalDropZone` | the server's `favs`; `store`, `listed`, `offers`; `loads`, `toggles` |
| `ListPages` | `TrashPage`, `MyLinksPage`, `InvitationsPage`, `SharedDirListPage`, and the list of `FavoritesPage` | the server's `there`, `answered`; `items`, `cursor`, `undos`, flags; `ask` |
| `Members` | `SharedSettingsPage`, `FolderSettingsPage`, `UserSearch` | the server's `role`, `invited`; `members`, `pendingUser`, the search; `work` |

**Session.** A token of the model is the pair that one log-in or refresh issues:
`live` is about its refresh token, `expired` about its access token. The server
side is `Grant` and `Deny`, which `AuthSessions` has in detail; here it is enough
that a refresh token is good once. `scene` is the set of events that may happen in
a behaviour: tokens that run out, lost answers, refusals, revocations, another tab,
reloads, the e-mailed link, changes of the account. `overtaken` is a ghost: an
answer that writes the session came after the sign-out.

**DirectoryPage.** `shown` is the contents, with the directory they are of, the
next cursor, and what is in them twice. `breadcrumbLoadIdRef` is `crumbLoad`.
Undoing a move and undoing a deletion are requests of kinds `back` and `restore`,
which end with a load of the list. Files and folders are listed alike and each
have a cursor; the model has one list.

**FileView.** The four requests of the effect (metadata, owner, content, directory)
are the `pc` of a run; `mounted` is the flag that the clean-up of the effect
clears. Two runs and more may be under way.

**SharedViews, ShareDialog, Favorites, ListPages, Members.** `guestWaits`,
`sharerWaits`, `calm`, `gentle`, and `patient` and `viewerWaits` of the other
pages, say whether the user waits for answers. A property that holds only for who does is
stated for who does; what happens to others is in section 6.

### The MC modules

They give the constants their values, and split an instance into regimes, a choice
made in the initial state. Each regime restricts the actions, never what an
action does.

* `MCFileStore`, `MCAuthSessions`, `MCDirTree`: with `alone` the instance has more
  data, otherwise two requests at once and less data. `alone` is a variable of the
  modules themselves that no action changes: a behaviour in which it is true has one
  request at a time (and nothing fails in `FileStore`, no deletion halfway in `DirTree`);
  the properties that are claimed for it only say so. `MCShareLinks` has a regime of the same name.
* `MCFileObjects`: `FileStore` without crashes and lost answers, after which rows and
  objects cannot be paired (section 6), and never `alone`.
* `MCSession`: pairs are issued in order, and `Room` and `Demand` leave a pair for
  whatever may still ask for one. The second user logs in only in the scene in
  which nothing but time happens.
* `MCPages` (of `Pages`, which puts the four pages side by side and states the types of
  all): `which` page a behaviour is of; for a directory also `scene`: a user
  who waits, one who goes to and fro while lists load, one who clicks toasts.
* `MCFavorites` (of `Lists`, likewise): `which` of the stars, the lists, the settings and the search;
  `Scenes` of the stars.

## 3. The runs

| Run | Instance | What it shows |
|---|---|---|
| `filestore` | alone: two users, three files, two directories. Otherwise: one user, two files of 2 bytes, quota 3, two requests, every fault | types; nobody is charged too much; `FileStore` implements `StorageLedger`; every request ends; alone, the counters are exact and links follow their file |
| `filestore_objects` | two files, two directories, two requests, moves, failing puts and statements | a row that nobody is deleting has its object; no object is left without a row |
| `auth` | two requests, three tokens, four e-mails, one of each expires, two changes of password | one live token a log-in; a reset token is spent once; nothing outlives an account; every request ends, deadlocks included; alone, no session outlives its password and a new e-mail replaces the old |
| `auth_reset` | two requests | **violation**: a log-in in progress stores a token that the reset does not revoke |
| `dirtree` | three directories, a file, two times, two requests, one of which moves | foreign keys; no cycle, so that every walk ends; alone, the trash is closed downwards, counts and bytes are exact, rows and objects are paired, links follow their target |
| `dirtree_two_movers` | two requests that move | **violation**: two moves make a cycle |
| `sharelinks` | two users, two targets, three links alone, two links with two requests | foreign keys; no row has two lockers; the counter keeps its limit and covers the links; every request ends |
| `sharing` | an owner and two users, two invitations, two requests | the owner stays; members are not invited; nobody joins but by a pending invitation |
| `session` | two calls, two users, five pairs of tokens, seven scenes | one session in cookie, token and profile; if only time passes a log-out alone ends it; `Session` implements `Renewals`; every call and action ends |
| `pages` | four pages, two items (three documents), pages of one, two requests | breadcrumbs follow contents; a move is undone once; list, address and server agree; the file is that of the address; badge and counter follow the links; spinners end |
| `lists` | two files, two users, three access tokens; three entries, two sections, pages of one; two people | stars and lists are the server's after every failure and undo; stars are nobody else's; refused roles are taken back; loading ends |
| `favorites_fresh` | one page opened by its address | **violation**: removing a favorite adds it |

Deadlock checking is off everywhere: the instances run out of fresh ids
(files, tokens, links, invitations) and may then stop, and a page with a user who
does nothing does nothing. That what has begun ends is checked by `RequestsEnd`,
`CallsEnd`, `PagesEnd` and `LoadingsEnd` instead.

### Bounds

* Two requests: each hazard of the server is a race of two; a third party, where
  one is needed, is the earlier request whose rows are there. In the client, two
  requests of a page (three loads of stars) are the one that is overtaken and
  the one that overtakes. The theorems of section 5 have no such bound.
* `Size` and `Quota` of `FileStore`: two files of 2 bytes each fit a quota of 3
  one at a time only, so that every race on the quota is one that matters. One
  file is larger than an upload may be (`MaxFileSize`), which only a conversion
  produces. `Cap` bounds a counter that races have spoiled.
* `Drift` (`FileStore`, `DirTree`): races spoil counters (section 6) and would make
  them grow without end; no request starts once a counter is further off than
  this. One request alone never reaches it, as the exactness properties show.
* `Times` (`DirTree`): a file and a directory above it trashed one after the
  other; `TimeLeft` keeps one for each deletion under way.
* `Home` (`DirTree`): one directory below the root is there from the start, so
  that a move, a trash and a creation are all possible in the first step.
* `Toks`, `Mails`, `MaxPw` (`AuthSessions`): `TokRoom`, `MailRoom` and `PwRoom`
  start a request only if the rows it may need are left. `Lapses` are those
  that may expire: one that does and one that does not tell the cases apart.
* `Toks` of `Session`: three pairs of one user, which are a log-in and two renewals,
  or two of each of two users.
* Pages of one entry (`PageSize`, `DocLimit`, `Limit`): two entries then have a
  cursor between them. `MaxMade` and `LinkQuota`: the limit of links is reached
  and left again. Toasts: at most two at a time (`Toasts` in `MCPages`).
* Symmetry is used in `sharing` only, over users other than the owner and
  invitations, none of which is told apart by a constant or an invariant.

### Fairness

The handlers are goroutines that the Go scheduler runs, so a step that can be
taken is taken in the end. In `FileStore`, `AuthSessions` and `ShareLinks` steps
wait for row locks, which others may take in between; PostgreSQL queues those who
wait and grants the lock in order, hence strong fairness of each request's next
step. `DeadlockVictim` is among these steps: PostgreSQL looks for deadlocks after a
second. Starting a request, failing, crashing and expiry have no fairness.

In the client, a request that has been sent is answered or fails (a browser gives
up on a connection that is gone), and the continuation of a promise runs: weak
fairness of each request's next step, of a refresh, and of the actions of the
store. None for what the user does, for time, another tab, or the choice between
an answer and a failure. `DirTree` and `Sharing` have no liveness property: that
every walk ends is a state property there (`Acyclic`).

## 4. What the violations say

* `auth_reset` (`ResetRevokesAll`). The comment of `ResetPassword` says that a
  reset revokes all refresh tokens and forces a new log-in everywhere. The bulk
  `UPDATE` revokes those it finds; a log-in that has compared the old password,
  or a refresh that has read its token, inserts another after that.
* `dirtree_two_movers` (`Acyclic`). Moving a directory below itself is refused
  after a query made before the transaction, without a lock: two moves, of x
  into y and of y into x, both pass. The subtree is then cut off from the root, and every
  recursive query that reaches it runs for ever.
* `favorites_fresh` (`RemovedIsRemoved`). `docs/frontend/pages.md:112` says that
  `FavoritesPage` removes a file from the favorites. It calls the toggle of the
  store, which decides by a set that only the dashboard loads: on a page opened
  by its address the set is empty, and the file is added once more, while the
  page takes it off its list and says that it was removed.

## 5. The proofs

The theorems hold for every value of the constants under the named assumption of
their module (finite sets, types of the constants), which TLC evaluates in each
run. Each follows one argument: an inductive invariant holds initially, every
action keeps it, and it implies the property. Every invariant, action property and
refinement that a passing run checks is stated by a theorem; only the liveness is not.

What the assumptions ask beyond types: the rows of a table are finitely many
(`Entries`, `Docs`, `Items`), so that a page has a last row and the next one is
shorter; in `DirTree` a directory is not a file; in `ShareDialog` one link at least
can be made (`MaxMade`). The last row of a page is `LastOf`, `LastDoc`
and `LastItem`, which say that it is the one with the greatest rank.

### Server

* **FileStoreProofs**: `TypeCorrect`, `QuotaCorrect`, `UsedNeverOvercharges`,
  `ImplementsLedger`. `QuotaHeld` alone is not inductive: between the check and
  the commit an upload must still fit. `Reserved` says that a request about to
  insert holds the lock on its user and that what it adds fits; `UploadsFresh`
  that its rows are new and nobody else's, so that bytes are added once;
  `DeletesOwned` that what a deletion refunds was charged to the same user. A few
  lemmas give the bytes of unions and differences of sets of files.
  `RowsPairedHolds` is for any number of requests that overlap, with failing puts and
  statements and no crash or lost commit (`Faults`): an object that a request has
  stored is its own until it commits or cleans up (`StoresOwn`), the objects that a
  deletion takes are those of rows that it holds (`ErasesOwn`), and so a row keeps its object
  (`RowsKept`) and an object its row or its request (`ObjectsKept`).
  `ExactAloneHolds` is for one request at a time: what a request has read is still so
  (`AsRead`), and `used`, `files_count` and the links differ from what the rows
  say by exactly what the statements still to come will write (`CountsOwed`,
  `LinksOwed`, `UsedIsBytes`).
* **AuthSessionsProofs**: `TypeCorrect`, `OneTokenPerLogin`, `CanBeVerified`,
  `AccountTakesAll`, `ResetOnce`. `TokHeld` and `MailHeld` say that a row that is
  locked is locked once and still live (unused), `LoginStored` that a token
  descends from a stored one, `SnapFound` what a bulk `UPDATE` has found,
  `UserHeld` that a held account exists. `ReplacedAloneHolds`, for one request at a
  time, adds that what it has read is still so: a session is opened with the current
  password, and the snapshot of a bulk `UPDATE` has every live session (`SeesSessions`)
  or unused e-mail of the kind (`SeesMails`) that it is to replace.
* **DirTreeProofs**: `TypeCorrect` (with the foreign keys) and
  `OneMoverKeepsTree`, if at most one request at a time moves. The point is
  `NotNested`: the target of a move that has passed its check is still not below
  what is moved, although others create, delete and restore in between: a
  creation adds a leaf, a deletion takes whole subtrees, neither changes what is
  below what. `LeafInserted`, `MovedOutside` and `RowsDeleted` are the three
  lemmas on trees. `ConsistentAloneHolds` is for one request at a time, over any
  tree: the trash is closed downwards (`TrashClosed`), the count of the root and the
  bytes are those of the rows (`Counted`), links follow what they open (`LinksFollow`),
  and there is an object for each row and for the one file that is about to be inserted
  (`Paired`). `Dated` makes a restoration exact: a directory that may be restored has the
  time of every file below it, so that all of them come back. Between two steps of the
  request `AsRead` says that the parent, the subtree and the files it has read are
  those there are. It rests on lemmas on what is below what after a
  leaf is added, a subtree is cut off or hung elsewhere, and on counts of sets of files.
* **ShareLinksProofs**: `TypeCorrect`, `LimitHolds`, and `LinksCounted` and
  `CountIsBetween` if no link is deleted by its id. `RoomLeft` is the lock's work:
  the count read is still below the limit when it is incremented. `DueIsDeleted`
  says that a request never takes more from a counter than the links it has locked
  for deletion, which deleting by id breaks (section 6).
* **SharingProofs**: `TypeCorrect`, `OwnerRemains`, and with one request that
  answers invitations `JoinsOnlyByPending` (`AcceptsPending`: what is being
  accepted is still pending), and if the same request is the only one that
  invites `MembersNeverInvited` (`InvitesStranger`) and `MembersStay`, which says
  both of members.

### Client

* **SessionProofs**: `TypeCorrect`, `ImplementsRenewals`, `SessionIsOne`,
  `OnlyUserSignsOut`. A call that waits does so for a refresh under way and for no
  other (`NobodyForgotten`), and the pair with which a refresh is answered has not
  been used by anybody (`Distinct`), so that a call is never sent again with the
  token that was refused. For one session, `Owners` says that whatever may still
  write it is of the user who is signed in, and `AloneWhileHydrating` that nothing
  else has begun before hydration has ended. That a log-out alone ends it needs `Unseen` (a pair just
  granted is not in the cookie and nobody has sent it) and `Undisturbed` (what the
  cookie holds can be exchanged, or its exchange is under way and cannot be refused).
* **PagesProofs** is about the four pages of `Pages`.
  - `DirectoryPage`: `CrumbsCorrect` and `NothingUndoneTwice` (`DirInv`). For the
    breadcrumbs, `Crumbs` is the property and `LastPath` says that the load which
    `breadcrumbLoadIdRef` names is the last. That nothing is undone twice is a
    right that is passed on: for an item there is at most one of a deletion that
    has taken effect and not offered to undo yet, its toast, and the request that
    the toast has sent (`OneRight`), and all of them are about an item in the trash.
    `OneBack` is the same for moves, by `isUndoingRef`. `ShowsServerHolds`, for a
    user who waits: one request is under way at a time, about the directory of the
    address, what it has been answered is what the server has, and the page is wrong only
    while its list is loaded (`Awaited`). Lemmas on pages say that the next one begins
    after the last row shown and ends where the new cursor is.
  - `SharedViews`: `ViewFollowsAddressHolds` (`ViewInv`), for a guest who waits:
    `FileSettles` for a shared file and `DirectorySettles` for a directory say that
    whatever is under way has the address and the saved password, and that a page at
    rest has the directory of the address or asks for the password.
  - `FileView`: `FileTypeCorrect` and `AddressIsFollowed` (`FileInv`). Of the runs of
    the effect one at most is mounted, it is of the address (`OneRun`, `LiveRun`),
    and what it has not replaced yet is behind the spinner (`Shown`). An owner's name
    is asked for a foreign file only (`OwnersAsked`). For a user who waits there is
    one request at a time (`OneAtATime`), and then the parts of the page that are set
    without `isMounted` are of the same file too (`OneFileShown`).
  - `ShareDialog`: `DialogSettlesHolds` (`DialogInv`), for a user who waits: each link
    is made once (`LinksOK`), and `Settles` says of each request that the server has
    done and not yet answered what its answer will tell the list, the badge and the
    counter (`AnswerTells`), so that they agree with the links again after it.
  - `PagesTypeCorrect`: the types of all four. They need what is known of a request:
    that what it is about was there when it was sent (`Aimed`, `DeletesLinks`).
* **ListsProofs** is about the modules of `Lists`.
  - `Favorites`: `StarsAreOwnHolds` and `FavoritesFollowServerHolds` (`FavInv`). `Signed`,
    `OneToken` and `OwnLoads` say whose the loads and the stars are, with one load
    of a token at a time. `Flips` and `OneByOne` are about toggles that overlap:
    each is on a file of its own and goes back to what it found, and every other file
    has the server's star. `Stars` says for a user who waits what the one toggle under
    way has made of the whole set and of the list of `FavoritesPage`.
  - `Members`: `MembersFollowServerHolds` (`MemInv`). Of two changes under way no
    two are of one member, and each knows the role to put back, which the server still has
    (`Changing`); a role that differs from the server's is that of such a change
    (`Roled`). `Attended` says that who loads does nothing else, `Found` is about the
    search.
  - `ListPages`: `ListFollowsServerHolds` (`ListInv`). What is shown is there, and of each
    section everything up to its cursor is shown, but for the link whose removal is under
    way (`Follows`). What has been shown or removed lies before the cursor
    (`BeforeCursor`): an undo puts nothing behind it, where the next page would
    bring it a second time.
  - `ListsTypeCorrect`: the types of all three.

Only model-checked: liveness (`RequestsEnd`, `CallsEnd`, `PagesEnd`,
`LoadingsEnd`), which under fairness is beyond the prover. Where a theorem has a
hypothesis, the code does not keep the property without it: the run
`dirtree_two_movers` is the counterexample for `OneMoverKeepsTree`, and section 6 has
the line of the code for the others.

## 6. Where the code does less than one may expect

The modules do what the code does, these included. The properties are stated so
that they hold all the same; `hazards` in `PROJECT.json` has most of them at their line.

Server:

* Two deletions of one file both refund its bytes (`files/service.go:502`), and
  two requests to the trash both decrement `files_count` (`:415`): `storage_used`
  and `files_count` are exact only while requests do not overlap.
* Moving a file leaves `files_count` of both directories alone (`files/service.go:333`).
* A lost answer to a commit makes an upload delete the objects of committed
  rows (`files/service.go:133`); a deletion that fails to commit has already
  deleted objects (`:511`).
* A directory created, or a file uploaded, while its parent goes to the trash
  stays alive in it (`dirs/service.go:532`). A restore brings back every directory
  of the subtree but only the files of the same deletion, and recomputes no
  count between (`:656`).
* A purge of a subtree refunds a file twice that goes to the trash between two
  of its reads, and never one that is uploaded later (`dirs/service.go:718`).
* A purge of a directory that has a link, and no file below it, panics on a nil
  map and can never succeed (`dirs/service.go:748`).
* Two changes of a password with one session: the second replaces a password it
  has not proved (`users/service.go:137`). Two resends leave two good tokens
  (`auth/service.go:394`).
* Two deletions of one link by its id both decrement (`sharelinks/service.go:335`);
  of two updates one may be lost (`:288`). Deleting an account leaves the
  counters of others, and the objects in MinIO, as they are
  (`users/repository.go:134`).
* An invitation that is accepted twice at once, or while it is withdrawn, still
  admits (`sharing/service.go:234`); withdrawing overwrites any status
  (`:309`); `ChangeRole` accepts the owner, to which `docs/backend/errors.md:62`
  answers 403 (`:355`).
* `RecalcSharedDirsCount` counts in a sub-select whose snapshot is older than the
  row lock it waits for (`dirs/service.go:255`); not modelled.

Client:

* An answer that comes after a log-out signs in again (`authStore.ts:239`):
  `OneSession` is claimed until that happens (`overtaken`). A load of favorites
  that comes after it fills the store for the next user (`late`).
* `GlobalDropZone` adds an upload to the favorites twice; if the second fails, the
  star goes although the file is a favorite (`forgotten`).
* In `TrashPage` a section that has no next page has the cursor null, which asks
  for its first page again: its entries are shown twice (`TrashPage.tsx:96`).
* `SharedDirectoryPage` does not ask again for a password that was mistyped, and
  going to and fro faster than the server answers may leave the contents of
  another folder, or `isNavigating` without a fetch (`SharedDirectoryPage.tsx:189`).
* `FileViewPage` sets the type of preview without asking `isMounted`: going from
  file to file may leave that of another (`FileViewPage.tsx:190`).
* There is one `pendingUserId` for all members (`SharedSettingsPage.tsx:118`): the
  second change enables the row of the first again.
* The invitation dialog that was opened for somebody else before the answer came
  says that the other one was invited (`UserSearch.tsx:79`).
* After a list that failed to load, or a counter that failed to refresh, the share
  dialog says too little (`ShareLinkModal.tsx:192`).

## 7. What is not modelled

* Resolving a link, searches, profile fields and lists, on the server: they change
  no state that others rely on. `access` with shared directories inside of
  shared ones; `users.shared_dirs_count` and its limit (section 8).
* The rate limiter is one critical section over one counter. The clean-up of
  temporary objects deletes what nothing refers to any more. Access tokens are pure
  computation: that they run out is in `Session`.
* Of the client: layout, components without a request of their own, forms with one
  request each, and caches that no other page reads. Files and folders of a
  directory are listed by two requests in the code and by one in `DirectoryPage`.
* Image codecs, e-mail templates, migrations, routing, start-up, configuration,
  error bodies, generated code and deployment are no protocols.

## 8. What is left

In this order; the first three are modules of the server.

1. `SharedDirs`: `users.shared_dirs_count` and its limit, which a restore checks
   for its root only (`dirs/service.go:636`). Properties: the limit, and the
   counter against the rows, with one creation at a time.
2. `Access`: the nearest shared directory above a directory, with shared
   directories in shared ones, as a function over the tree of `DirTree`, checked
   against a reference definition over all small trees.
3. `LinkAccess`: resolving a link (`is_active`, expiry, password, presigned
   URL) against its update, deletion and the deletion of its target.
4. Proofs: of the properties that the passing runs check, only the liveness is left.
   What remains is to drop hypotheses: `RowsPaired` with a crash needs a statement
   that says which objects may be left over, and `CountIsBetween` with
   deletions by id one that says how far the counter may be off. The theorems of the
   modules of 1 to 3 come with them.
