------------------------------ MODULE FileStore ------------------------------
(***************************************************************************)
(* The life of a file in internal/files and internal/trash: its row in     *)
(* PostgreSQL, its object in MinIO, its owner's storage_used and the       *)
(* files_count of the directories above it.  Every HTTP request is a       *)
(* process of its own; the steps of a request are the points at which      *)
(* other requests, a failing call or a crash of the server can come in     *)
(* between.  A transaction (READ COMMITTED) publishes its writes in its    *)
(* commit step, and the row lock it holds on users is the variable lock.   *)
(*                                                                         *)
(* A file id stands for one row, its object key and its share link; Owner  *)
(* and Size label the id.  Directories are alive and do not move here      *)
(* (DirTree.tla), and share_links_count is kept in ShareLinks.tla.         *)
(***************************************************************************)
EXTENDS Integers, FiniteSets

CONSTANTS
    Users, Dirs, Files, Reqs,
    Owner,        \* [Files -> Users]: the owner_id of the row
    Size,         \* [Files -> 0..Cap]: its size in bytes
    Cap,          \* no file is larger than this
    MaxFileSize,  \* maxFileSize: the largest upload
    Quota,        \* [Users -> Nat]: storage_quota
    Above,        \* [Dirs -> SUBSET Dirs]: a directory and its ancestors
    Faults,       \* the failures the environment may cause
    Moves,        \* whether PATCH /files/{id} may move files
    Linked,       \* the files a link may be created for
    Drift,        \* bound of the model: how far files_count may run off
    None

FaultKinds == {"put", "putLost", "del", "stmt", "commit", "ackLost", "crash"}

ASSUME ConstantsOK ==
    /\ IsFiniteSet(Files)
    /\ Cap \in Nat /\ MaxFileSize \in Nat
    /\ Owner \in [Files -> Users]
    /\ Size  \in [Files -> 0..Cap]
    /\ Quota \in [Users -> Nat]
    /\ Above \in [Dirs -> SUBSET Dirs]
    /\ Faults \subseteq FaultKinds
    /\ Moves \in BOOLEAN /\ Linked \subseteq Files /\ Drift \in Nat
    /\ None \notin Users \cup Dirs \cup Files \cup Reqs

VARIABLES
    row,         \* [Files -> RowStates]: the row of files
    dir,         \* [Files -> Dirs]: its directory_id
    link,        \* [Files -> LinkStates]: its row in share_links
    used,        \* [Users -> Int]: users.storage_used
    filesCount,  \* [Dirs -> Int]: directories.files_count
    objects,     \* SUBSET Files: the objects in the main bucket
    lock,        \* [Users -> Reqs \cup {None}]: who holds the users row
    req,         \* [Reqs -> Request]: the requests being served
    alone        \* BOOLEAN, never changed: one request at a time, nothing fails

db   == <<row, dir, link, used, filesCount>>
vars == <<row, dir, link, used, filesCount, objects, lock, req, alone>>

RowStates  == {"none", "alive", "trashed", "gone"}
LinkStates == {"none", "on", "off"}

Pcs == {"idle", "put", "begin", "insert", "cleanup",
        "trash", "restore", "countDown", "countUp", "linksOff", "linksOn",
        "delTx", "delObject", "delCommit"}

Request ==
    [ pc   : Pcs,                   \* the next step of the handler
      user : Users \cup {None},     \* whose storage_used is charged
      fs   : SUBSET Files,          \* the files it works on
      done : SUBSET Files,          \* uploadedKeys; the objects still to delete
      dir  : Dirs \cup {None},      \* directory_id as it was read
      src  : Files \cup {None},     \* the source of a conversion
      live : BOOLEAN ]              \* file.DeletedAt == nil as it was read

Idle == [ pc |-> "idle", user |-> None, fs |-> {}, done |-> {},
          dir |-> None, src |-> None, live |-> FALSE ]

(***************************************************************************)
(* The bytes of a set of files: the sum of their sizes, counted byte by    *)
(* byte.                                                                   *)
(***************************************************************************)
Content(S) == {b \in S \X (1..Cap) : b[2] <= Size[b[1]]}
Bytes(S)   == Cardinality(Content(S))

Exists(f)  == row[f] \in {"alive", "trashed"}
RowsOf(u)  == {f \in Files : Owner[f] = u /\ Exists(f)}
Under(d)   == {f \in Files : row[f] = "alive" /\ d \in Above[dir[f]]}
Quiet      == \A r \in Reqs : req[r] = Idle

\* files_count of d and of everything above it, moved by n.
Adjusted(d, n) ==
    [x \in Dirs |-> IF x \in Above[d] THEN filesCount[x] + n ELSE filesCount[x]]

\* A DELETE that has not committed yet keeps the row of f locked.
RowLocked(f) ==
    \E r \in Reqs : f \in req[r].fs /\ req[r].pc \in {"delObject", "delCommit"}

At(r, pc)      == req[r].pc = pc
Goto(r, pc)    == req' = [req EXCEPT ![r].pc = pc]
Return(r)      == req' = [req EXCEPT ![r] = Idle]
Fault(kind)    == kind \in Faults /\ ~alone
Unlocked(r)    == [u \in Users |-> IF lock[u] = r THEN None ELSE lock[u]]

Init ==
    /\ row        = [f \in Files |-> "none"]
    /\ dir        \in {[f \in Files |-> d] : d \in Dirs}
    /\ link       = [f \in Files |-> "none"]
    /\ used       = [u \in Users |-> 0]
    /\ filesCount = [d \in Dirs |-> 0]
    /\ objects    = {}
    /\ lock       = [u \in Users |-> None]
    /\ req        = [r \in Reqs |-> Idle]
    /\ alone      \in BOOLEAN

-----------------------------------------------------------------------------
(* Upload and ConvertAndSave: objects first, then one transaction.         *)

\* uuid.NewString(): an id no row and no request in progress has.
Fresh(f) == row[f] = "none" /\ f \notin objects /\ \A q \in Reqs : f \notin req[q].fs

Upload(r, d, fs) ==
    /\ At(r, "idle")
    /\ fs # {}
    /\ \A f \in fs : Fresh(f) /\ Size[f] <= MaxFileSize
    /\ \E u \in Users :
         /\ \A f \in fs : Owner[f] = u
         /\ req' = [req EXCEPT ![r] =
                [Idle EXCEPT !.pc = "put", !.user = u, !.fs = fs, !.dir = d]]
    /\ UNCHANGED <<db, objects, lock>>

ConvertAndSave(r, s, f) ==
    /\ At(r, "idle")
    /\ row[s] = "alive" /\ s \in objects
    /\ Fresh(f)
    /\ req' = [req EXCEPT ![r] =
           [Idle EXCEPT !.pc = "put", !.user = Owner[f], !.fs = {f},
                        !.dir = dir[s], !.src = s]]
    /\ UNCHANGED <<db, objects, lock>>

PutObject(r, f) ==
    /\ At(r, "put") /\ f \in req[r].fs \ req[r].done
    /\ objects' = objects \cup {f}
    /\ LET done == req[r].done \cup {f} IN
         req' = [req EXCEPT ![r].done = done,
                            ![r].pc = IF done = req[r].fs THEN "begin" ELSE "put"]
    /\ UNCHANGED <<db, lock>>

\* Mutant: the empty key of the failed upload joins the keys to clean up.
PutFailsKeepsKey(r, f) ==
    /\ At(r, "put") /\ f \in req[r].fs \ req[r].done
    /\ Fault("put")
    /\ req' = [req EXCEPT ![r].done = @ \cup {None}, ![r].pc = "cleanup"]
    /\ UNCHANGED <<db, objects, lock>>

\* storage.Upload returns an error, before or after the object was stored:
\* its key is not among the keys the handler cleans up.
PutFails(r, f) ==
    /\ At(r, "put") /\ f \in req[r].fs \ req[r].done
    /\ \/ Fault("put") /\ UNCHANGED objects
       \/ Fault("putLost") /\ objects' = objects \cup {f}
    /\ Goto(r, "cleanup")
    /\ UNCHANGED <<db, lock>>

\* Mutant: the SELECT without FOR UPDATE.
GetUserStorageUnlocked(r) ==
    LET u == req[r].user IN
    /\ At(r, "begin")
    /\ Goto(r, IF used[u] + Bytes(req[r].fs) > Quota[u] THEN "cleanup" ELSE "insert")
    /\ UNCHANGED <<db, objects, lock>>

\* SELECT storage_used, storage_quota ... FOR UPDATE, and the check.
GetUserStorage(r) ==
    LET u == req[r].user IN
    /\ At(r, "begin")
    /\ lock[u] = None
    /\ lock' = [lock EXCEPT ![u] = r]
    /\ Goto(r, IF used[u] + Bytes(req[r].fs) > Quota[u] THEN "cleanup" ELSE "insert")
    /\ UNCHANGED <<db, objects>>

\* Save, IncrementFilesCount and AddUserStorageUsed, as the commit shows them.
Inserted(r) ==
    LET fs == req[r].fs
        u  == req[r].user IN
    /\ req[r].src # None => Exists(req[r].src) /\ ~RowLocked(req[r].src)
    /\ row'  = [f \in Files |-> IF f \in fs THEN "alive" ELSE row[f]]
    /\ dir'  = [f \in Files |-> IF f \in fs THEN req[r].dir ELSE dir[f]]
    /\ used' = [used EXCEPT ![u] = @ + Bytes(fs)]
    /\ filesCount' = Adjusted(req[r].dir, Cardinality(fs))
    /\ lock' = Unlocked(r)
    /\ UNCHANGED <<link, objects>>

CommitUpload(r) ==
    /\ At(r, "insert") /\ Inserted(r) /\ Return(r)

\* The commit took place but its answer was lost: the handler cleans up.
CommitUploadAckLost(r) ==
    /\ Fault("ackLost")
    /\ At(r, "insert") /\ Inserted(r) /\ Goto(r, "cleanup")

\* Mutant: a failing beginTx returns without cleaning up.
UploadTxFailsUncleaned(r) ==
    /\ Fault("stmt") \/ Fault("commit")
    /\ At(r, "begin") \/ At(r, "insert")
    /\ Return(r)
    /\ lock' = Unlocked(r)
    /\ UNCHANGED <<db, objects>>

\* beginTx, a statement or the commit fails.
UploadTxFails(r) ==
    /\ \/ At(r, "begin")  /\ Fault("stmt")
       \/ At(r, "insert") /\ (Fault("stmt") \/ Fault("commit"))
    /\ Goto(r, "cleanup")
    /\ UNCHANGED <<db, objects, lock>>

\* SaveConversion, whose source has been deleted: the foreign key refuses it.
SourceGone(r) ==
    /\ At(r, "insert") /\ req[r].src # None /\ ~Exists(req[r].src)
    /\ Goto(r, "cleanup")
    /\ UNCHANGED <<db, objects, lock>>

\* cleanupObjects ignores a failing Delete.
CleanupObject(r, f) ==
    /\ At(r, "cleanup") /\ f \in req[r].done
    /\ req' = [req EXCEPT ![r].done = @ \ {f}]
    /\ \/ objects' = objects \ {f}
       \/ Fault("del") /\ UNCHANGED objects
    /\ UNCHANGED <<db, lock>>

\* Mutant: no deferred Rollback.
CleanupEndNoRollback(r) ==
    /\ At(r, "cleanup") /\ req[r].done = {}
    /\ Return(r)
    /\ UNCHANGED <<db, objects, lock>>

\* The deferred Rollback runs last: the users row stays locked until here.
CleanupEnd(r) ==
    /\ At(r, "cleanup") /\ req[r].done = {}
    /\ lock' = Unlocked(r)
    /\ Return(r)
    /\ UNCHANGED <<db, objects>>

-----------------------------------------------------------------------------
(* SoftDelete and Restore: a read, then three autocommitted statements.    *)

\* Bound of the model: requests that race change files_count without end.
CountsInBounds ==
    \A d \in Dirs : filesCount[d] \in -Drift..(Cardinality(Files) + Drift)

SoftDelete(r, f) ==
    /\ At(r, "idle") /\ row[f] = "alive" /\ CountsInBounds
    /\ req' = [req EXCEPT ![r] = [Idle EXCEPT !.pc = "trash", !.fs = {f}, !.dir = dir[f]]]
    /\ UNCHANGED <<db, objects, lock>>

Restore(r, f) ==
    /\ At(r, "idle") /\ row[f] = "trashed" /\ CountsInBounds
    /\ req' = [req EXCEPT ![r] = [Idle EXCEPT !.pc = "restore", !.fs = {f}, !.dir = dir[f]]]
    /\ UNCHANGED <<db, objects, lock>>

\* UPDATE files SET deleted_at = ... WHERE id = $1 AND deleted_at IS NULL; the
\* number of rows it changed is not looked at.
SoftDeleteFile(r) ==
    /\ At(r, "trash")
    /\ \A f \in req[r].fs : ~RowLocked(f)
    /\ row' = [f \in Files |-> IF f \in req[r].fs /\ row[f] = "alive"
                               THEN "trashed" ELSE row[f]]
    /\ Goto(r, "countDown")
    /\ UNCHANGED <<dir, link, used, filesCount, objects, lock>>

\* UPDATE files SET deleted_at = NULL WHERE id = $1.
RestoreFile(r) ==
    /\ At(r, "restore")
    /\ \A f \in req[r].fs : ~RowLocked(f)
    /\ row' = [f \in Files |-> IF f \in req[r].fs /\ row[f] = "trashed"
                               THEN "alive" ELSE row[f]]
    /\ Goto(r, "countUp")
    /\ UNCHANGED <<dir, link, used, filesCount, objects, lock>>

IncrementFilesCount(r) ==
    /\ \/ /\ At(r, "countDown")
          /\ filesCount' = Adjusted(req[r].dir, -1)
          /\ Goto(r, "linksOff")
       \/ /\ At(r, "countUp")
          /\ filesCount' = Adjusted(req[r].dir, 1)
          /\ Goto(r, "linksOn")
    /\ UNCHANGED <<row, dir, link, used, objects, lock>>

SetActiveByFileIDs(r) ==
    LET status == IF At(r, "linksOff") THEN "off" ELSE "on" IN
    /\ At(r, "linksOff") \/ At(r, "linksOn")
    /\ \A f \in req[r].fs : ~RowLocked(f)
    /\ link' = [f \in Files |-> IF f \in req[r].fs /\ link[f] # "none"
                                THEN status ELSE link[f]]
    /\ Return(r)
    /\ UNCHANGED <<row, dir, used, filesCount, objects, lock>>

\* A statement fails: what was written before it stays.
StatementFails(r) ==
    /\ Fault("stmt")
    /\ req[r].pc \in {"trash", "restore", "countDown", "countUp", "linksOff", "linksOn"}
    /\ Return(r)
    /\ UNCHANGED <<db, objects, lock>>

-----------------------------------------------------------------------------
(* PermanentDelete and ClearTrash: the rows are read, then a transaction   *)
(* deletes them, refunds their bytes and deletes the objects before it     *)
(* commits.                                                                *)

PermanentDelete(r, f) ==
    /\ At(r, "idle") /\ Exists(f)
    /\ req' = [req EXCEPT ![r] =
           [Idle EXCEPT !.pc = "delTx", !.user = Owner[f], !.fs = {f}, !.done = {f},
                        !.dir = dir[f], !.live = (row[f] = "alive")]]
    /\ UNCHANGED <<db, objects, lock>>

ClearTrash(r, u, fs) ==
    /\ At(r, "idle")
    /\ fs # {} /\ \A f \in fs : Owner[f] = u /\ row[f] = "trashed"
    /\ req' = [req EXCEPT ![r] =
           [Idle EXCEPT !.pc = "delTx", !.user = u, !.fs = fs, !.done = fs]]
    /\ UNCHANGED <<db, objects, lock>>

\* DeleteByFileIDs, HardDeleteFile / ClearFiles and AddUserStorageUsed wait for
\* the locks on the rows they change.
DeleteRows(r) ==
    /\ At(r, "delTx")
    /\ lock[req[r].user] = None
    /\ lock' = [lock EXCEPT ![req[r].user] = r]
    /\ Goto(r, "delObject")
    /\ UNCHANGED <<db, objects>>

DeleteObject(r, f) ==
    /\ At(r, "delObject") /\ f \in req[r].done
    /\ objects' = objects \ {f}
    /\ LET left == req[r].done \ {f} IN
         req' = [req EXCEPT ![r].done = left,
                            ![r].pc = IF left = {} THEN "delCommit" ELSE "delObject"]
    /\ UNCHANGED <<db, lock>>

\* Mutant: only live files are refunded.
CommitDeleteLiveRefund(r) ==
    LET fs == req[r].fs IN
    /\ At(r, "delCommit")
    /\ row'  = [f \in Files |-> IF f \in fs THEN "gone" ELSE row[f]]
    /\ link' = [f \in Files |-> IF f \in fs THEN "none" ELSE link[f]]
    /\ used' = IF req[r].live THEN [used EXCEPT ![req[r].user] = @ - Bytes(fs)] ELSE used
    /\ filesCount' = IF req[r].live THEN Adjusted(req[r].dir, -1) ELSE filesCount
    /\ lock' = Unlocked(r)
    /\ Return(r)
    /\ UNCHANGED <<dir, objects>>

\* Mutant: files_count is decremented for a trashed file as well.
CommitDeleteCountsTrashed(r) ==
    LET fs == req[r].fs IN
    /\ At(r, "delCommit")
    /\ row'  = [f \in Files |-> IF f \in fs THEN "gone" ELSE row[f]]
    /\ link' = [f \in Files |-> IF f \in fs THEN "none" ELSE link[f]]
    /\ used' = [used EXCEPT ![req[r].user] = @ - Bytes(fs)]
    /\ filesCount' = IF req[r].dir # None THEN Adjusted(req[r].dir, -1) ELSE filesCount
    /\ lock' = Unlocked(r)
    /\ Return(r)
    /\ UNCHANGED <<dir, objects>>

\* Rows that are already gone are not noticed: the bytes and the count read
\* before the transaction are given back all the same.
CommitDelete(r) ==
    LET fs == req[r].fs IN
    /\ At(r, "delCommit")
    /\ row'  = [f \in Files |-> IF f \in fs THEN "gone" ELSE row[f]]
    /\ link' = [f \in Files |-> IF f \in fs THEN "none" ELSE link[f]]
    /\ used' = [used EXCEPT ![req[r].user] = @ - Bytes(fs)]
    /\ filesCount' = IF req[r].live THEN Adjusted(req[r].dir, -1) ELSE filesCount
    /\ lock' = Unlocked(r)
    /\ Return(r)
    /\ UNCHANGED <<dir, objects>>

\* A statement, storage.Delete or the commit fails and the transaction is
\* rolled back; the objects deleted so far stay deleted.
DeleteFails(r) ==
    /\ \/ At(r, "delTx")     /\ Fault("stmt")
       \/ At(r, "delObject") /\ Fault("del")
       \/ At(r, "delCommit") /\ Fault("commit")
    /\ lock' = Unlocked(r)
    /\ Return(r)
    /\ UNCHANGED <<db, objects>>

-----------------------------------------------------------------------------
\* Update with parent_id: one transaction whose UPDATE has the guard
\* deleted_at IS NULL.  files_count stays as it was.
MoveFile(f, d) ==
    /\ Moves
    /\ row[f] = "alive" /\ ~RowLocked(f)
    /\ dir' = [dir EXCEPT ![f] = d]
    /\ UNCHANGED <<row, link, used, filesCount, objects, lock, req>>

\* sharelinks.createLink for a file: GetShareLinksStats locks the users row of
\* the creator (the owner, here) for the length of the transaction.
CreateLink(f) ==
    /\ f \in Linked /\ link[f] = "none"
    /\ row[f] = "alive" /\ ~RowLocked(f)
    /\ lock[Owner[f]] = None
    /\ link' = [link EXCEPT ![f] = "on"]
    /\ UNCHANGED <<row, dir, used, filesCount, objects, lock, req>>

\* The server dies: open transactions are rolled back, requests are lost.
Crash ==
    /\ Fault("crash")
    /\ ~Quiet
    /\ lock' = [u \in Users |-> None]
    /\ req'  = [r \in Reqs |-> Idle]
    /\ UNCHANGED <<db, objects>>

-----------------------------------------------------------------------------
Start(r) ==
    /\ alone => Quiet
    /\ \/ \E d \in Dirs, fs \in SUBSET Files : Upload(r, d, fs)
       \/ \E s, f \in Files : ConvertAndSave(r, s, f)
       \/ \E f \in Files : SoftDelete(r, f) \/ Restore(r, f) \/ PermanentDelete(r, f)
       \/ \E u \in Users, fs \in SUBSET Files : ClearTrash(r, u, fs)

\* The next step of a request in progress, unless something fails.
Proceed(r) ==
    \/ \E f \in Files : PutObject(r, f) \/ CleanupObject(r, f) \/ DeleteObject(r, f)
    \/ GetUserStorage(r) \/ CommitUpload(r) \/ SourceGone(r) \/ CleanupEnd(r)
    \/ SoftDeleteFile(r) \/ RestoreFile(r) \/ IncrementFilesCount(r)
    \/ SetActiveByFileIDs(r)
    \/ DeleteRows(r) \/ CommitDelete(r)

Fails(r) ==
    \/ \E f \in Files : PutFails(r, f)
    \/ CommitUploadAckLost(r) \/ UploadTxFails(r) \/ StatementFails(r) \/ DeleteFails(r)

Continue(r) == Proceed(r) \/ Fails(r)

Next ==
    /\ UNCHANGED alone
    /\ \/ \E r \in Reqs : Start(r) \/ Continue(r)
       \/ \E f \in Files, d \in Dirs : MoveFile(f, d)
       \/ \E f \in Files : CreateLink(f)
       \/ Crash

Spec == Init /\ [][Next]_vars

\* Go schedules every goroutine, and PostgreSQL grants a row lock in the order
\* in which it was asked for: a request that can go on again and again does,
\* even if others take the lock in between.  Nothing has to fail.
FairSpec == Spec /\ \A r \in Reqs : SF_vars(Proceed(r) /\ UNCHANGED alone)

-----------------------------------------------------------------------------
(* Properties.                                                             *)

TypeOK ==
    /\ row  \in [Files -> RowStates]
    /\ dir  \in [Files -> Dirs]
    /\ link \in [Files -> LinkStates]
    /\ used \in [Users -> Int]
    /\ filesCount \in [Dirs -> Int]
    /\ objects \subseteq Files
    /\ lock \in [Users -> Reqs \cup {None}]
    /\ req  \in [Reqs -> Request]
    /\ alone \in BOOLEAN

\* No interleaving of uploads, conversions, deletions and failures takes
\* storage_used above storage_quota (the check of Upload and ConvertAndSave
\* and the lock it is made under).
QuotaHeld == \A u \in Users : used[u] <= Quota[u]

\* An account is never charged for bytes it does not have: deletions that race
\* give back too much, never too little.
UsedNotAboveBytes == \A u \in Users : used[u] <= Bytes(RowsOf(u))

\* storage_used is the number of bytes of the rows the user owns.
UsedIsBytes == \A u \in Users : used[u] = Bytes(RowsOf(u))

\* files_count is the number of live files in the directory and below it, as
\* migration 004 computes it, whenever no request is in progress.
FilesCountExact ==
    Quiet => \A d \in Dirs : filesCount[d] = Cardinality(Under(d))

\* Once requests are over, the links of a file follow it into the trash and back.
LinksFollowTrash ==
    Quiet => \A f \in Files : /\ row[f] = "trashed" => link[f] # "on"
                              /\ row[f] = "alive"   => link[f] # "off"

\* When no other request and no failure comes between, and no file is moved, storage_used
\* and files_count are exact through uploads, conversions, the trash and back, and the
\* links of a file follow it there and back.
ExactAlone == alone /\ ~Moves => UsedIsBytes /\ FilesCountExact /\ LinksFollowTrash

\* A row that no deletion is working on has its object: nothing but a deletion
\* that was cut short, or a commit whose answer was lost, leaves a row alone.
RowHasObject ==
    \A f \in Files : Exists(f) =>
        f \in objects \/ \E r \in Reqs : f \in req[r].fs /\ ~At(r, "idle")

\* Once requests are over, an object that belongs to no row is one of a
\* failure the handlers cannot undo.
NoOrphanObjects == Quiet => \A f \in objects : Exists(f)

\* Rows and objects stay paired: no row without its object, and no object left over.
RowsPaired == RowHasObject /\ NoOrphanObjects

\* storage_used only ever grows by a step that ends within the quota, and no
\* step touches two accounts: FileStore implements StorageLedger.
Ledger     == INSTANCE StorageLedger
LedgerSpec == Ledger!Spec

\* Whatever fails on the way, a request ends and gives its locks back.
RequestsEnd == \A r \in Reqs : ~At(r, "idle") ~> At(r, "idle")
==============================================================================
