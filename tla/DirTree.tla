------------------------------ MODULE DirTree -------------------------------
(***************************************************************************)
(* The tree of directories in internal/dirs, and internal/trash where it   *)
(* clears directories: parent_id and deleted_at of a directory, the files  *)
(* below it, files_count, and the links that are switched with it.  A      *)
(* request reads what it works on in several statements of their own and   *)
(* then writes in one transaction, which is one step here.                 *)
(*                                                                         *)
(* deleted_at is None for "no row", Alive for NULL and otherwise the time  *)
(* of the deletion.  Names, and what access.Can answers, only decide       *)
(* whether a request is refused: Refused.  All files are of one byte and   *)
(* one owner; the steps of the operations on one file are in FileStore,    *)
(* and shared_dirs_count is left out.                                      *)
(***************************************************************************)
EXTENDS Integers, FiniteSets

CONSTANTS
    Dirs, Files, Reqs,
    Root,       \* the directory of type root
    Home,       \* a directory that is in it from the start
    Movers,     \* the requests that may be a PATCH with parent_id
    Ops,        \* the other operations that requests may be
    Times,      \* bound of the model: how many deletion times are told apart
    Drift,      \* bound of the model: how far a counter may run off
    None

Operations == {"create", "upload", "file", "link", "trash", "restore", "purge", "clear", "fail"}

ASSUME ConstantsOK ==
    /\ Root \in Dirs /\ Home \in Dirs /\ Root # Home
    /\ Movers \subseteq Reqs
    /\ Ops \subseteq Operations
    /\ Times \subseteq Nat \ {0} /\ Drift \in Nat
    /\ None \notin Dirs \cup Files \cup Reqs \cup Nat
    /\ IsFiniteSet(Files) /\ Dirs \cap Files = {}

VARIABLES
    parent,      \* [Dirs -> Dirs \cup {None}]: parent_id
    dirAt,       \* [Dirs -> Stamps]: deleted_at of a directory
    fileIn,      \* [Files -> Dirs \cup {None}]: directory_id
    fileAt,      \* [Files -> Stamps]: deleted_at of a file
    filesCount,  \* [Dirs -> Int]: directories.files_count
    used,        \* Int: users.storage_used
    objects,     \* SUBSET Files: the objects in the bucket
    link,        \* [Dirs \cup Files -> LinkStates]: its share link
    req,         \* [Reqs -> Request]: the requests being served
    alone        \* BOOLEAN, fixed in a behaviour: one request at a time, and
                 \* no deletion fails halfway

tree  == <<parent, dirAt>>
files == <<fileIn, fileAt, used, objects>>
vars  == <<parent, dirAt, fileIn, fileAt, filesCount, used, objects, link, req, alone>>

Alive      == 0
Stamps     == Times \cup {Alive, None}
LinkStates == {"none", "on", "off"}

Pcs == {"idle", "insertDir", "insertFile", "moveIds", "move",
        "trashIds", "trashFiles", "trash",
        "restoreParent", "restoreIds", "restoreFiles", "restore",
        "purgeIds", "purgeAlive", "purgeDead", "purge", "clearIds", "clearFiles", "clear"}

Request ==
    [ pc   : Pcs,                  \* the next step of the handler
      d    : Dirs \cup {None},     \* the directory it works on
      p    : Dirs \cup {None},     \* its parent as it was read, or the target
      f    : Files \cup {None},    \* the file to insert
      at   : Stamps,               \* deleted_at of d as it was read
      ids  : SUBSET Dirs,          \* the subtree as it was read
      live : SUBSET Files,         \* its live files as they were read
      dead : SUBSET Files ]        \* its trashed files as they were read

Idle == [ pc |-> "idle", d |-> None, p |-> None, f |-> None, at |-> None,
          ids |-> {}, live |-> {}, dead |-> {} ]

-----------------------------------------------------------------------------
(* WITH RECURSIVE: the set it returns, and whether it returns.             *)

DownClosed(S) == \A x \in Dirs : parent[x] \in S => x \in S
Below(d)      == {x \in Dirs : \A S \in SUBSET Dirs : d \in S /\ DownClosed(S) => x \in S}
AboveOf(d)    == {x \in Dirs : d \in Below(x)}

\* UNION ALL repeats the rows of a cycle without end.
SubtreeEnds(d) == parent[d] \notin Below(d)
WalkEnds(d)    == \E x \in AboveOf(d) : parent[x] = None

HasRow(d)  == dirAt[d] # None
IsAlive(d) == dirAt[d] = Alive
InTrash(d) == dirAt[d] \in Times
FilesAlive(ids)   == {f \in Files : fileIn[f] \in ids /\ fileAt[f] = Alive}
FilesTrashed(ids) == {f \in Files : fileIn[f] \in ids /\ fileAt[f] \in Times}

\* files_count of d and of everything above it, moved by n.
Adjusted(d, n) ==
    IF d = None \/ n = 0 THEN filesCount
    ELSE [x \in Dirs |-> IF x \in AboveOf(d) THEN filesCount[x] + n ELSE filesCount[x]]
CanAdjust(d, n) == d = None \/ n = 0 \/ WalkEnds(d)

\* UPDATE share_links SET is_active.
Switched(ts, status) ==
    [t \in Dirs \cup Files |-> IF t \in ts /\ link[t] # "none" THEN status ELSE link[t]]

Quiet      == \A r \in Reqs : req[r] = Idle
At(r, pc)  == req[r].pc = pc
Return(r)  == req' = [req EXCEPT ![r] = Idle]
May(r, op) == At(r, "idle") /\ op \in Ops

\* time.Now(): no row and no request has it; only equality matters.
InUse(t) == \/ \E d \in Dirs  : dirAt[d] = t
            \/ \E f \in Files : fileAt[f] = t
            \/ \E r \in Reqs  : req[r].at = t
Now == {t \in Times : ~InUse(t) /\ \A s \in Times : s < t => InUse(s)}

\* Bound of the model: there is a time left for every deletion in progress.
TimeLeft ==
    Cardinality({t \in Times : ~InUse(t)}) >
        Cardinality({r \in Reqs : req[r].pc \in {"trashIds", "trashFiles", "trash"}})

\* uuid: no row and no request has it.
FreshDir(d) == ~HasRow(d) /\ \A r \in Reqs : d # req[r].d /\ d # req[r].p /\ d \notin req[r].ids
FreshFile(f) ==
    /\ fileAt[f] = None /\ f \notin objects
    /\ \A r \in Reqs : f # req[r].f /\ f \notin req[r].live \cup req[r].dead

\* Bound of the model: counters that requests spoil would grow without end.
CountsInBounds ==
    /\ \A d \in Dirs : filesCount[d] \in -Drift..(Cardinality(Files) + Drift)
    /\ used \in -Drift..(Cardinality(Files) + Drift)

Init ==
    /\ parent = [d \in Dirs |-> IF d = Home THEN Root ELSE None]
    /\ dirAt  = [d \in Dirs |-> IF d \in {Root, Home} THEN Alive ELSE None]
    /\ fileIn = [f \in Files |-> None]
    /\ fileAt = [f \in Files |-> None]
    /\ filesCount = [d \in Dirs |-> 0]
    /\ used = 0
    /\ objects = {}
    /\ link = [t \in Dirs \cup Files |-> "none"]
    /\ req = [r \in Reqs |-> Idle]
    /\ alone \in BOOLEAN

-----------------------------------------------------------------------------
(* Create, and the upload of a file.                                       *)

Create(r, d, p) ==
    /\ May(r, "create")
    /\ FreshDir(d) /\ IsAlive(p)
    /\ req' = [req EXCEPT ![r] = [Idle EXCEPT !.pc = "insertDir", !.d = d, !.p = p]]
    /\ UNCHANGED <<tree, files, filesCount, link>>

\* INSERT: the foreign key only wants a row, in the trash or not.
InsertDir(r) ==
    LET d == req[r].d IN
    /\ At(r, "insertDir")
    /\ HasRow(req[r].p)
    /\ parent' = [parent EXCEPT ![d] = req[r].p]
    /\ dirAt'  = [dirAt EXCEPT ![d] = Alive]
    /\ filesCount' = [filesCount EXCEPT ![d] = 0]
    /\ Return(r)
    /\ UNCHANGED <<files, link>>

Upload(r, f, p) ==
    /\ May(r, "upload") /\ CountsInBounds
    /\ FreshFile(f) /\ IsAlive(p)
    /\ objects' = objects \cup {f}
    /\ req' = [req EXCEPT ![r] = [Idle EXCEPT !.pc = "insertFile", !.f = f, !.p = p]]
    /\ UNCHANGED <<tree, fileIn, fileAt, used, filesCount, link>>

InsertFile(r) ==
    LET f == req[r].f
        p == req[r].p IN
    /\ At(r, "insertFile")
    /\ HasRow(p) /\ CanAdjust(p, 1)
    /\ fileIn' = [fileIn EXCEPT ![f] = p]
    /\ fileAt' = [fileAt EXCEPT ![f] = Alive]
    /\ used' = used + 1
    /\ filesCount' = Adjusted(p, 1)
    /\ Return(r)
    /\ UNCHANGED <<tree, objects, link>>

\* The foreign key refuses the row; an upload deletes its object again.
ParentGone(r) ==
    /\ At(r, "insertDir") \/ At(r, "insertFile") \/ At(r, "move")
    /\ ~HasRow(req[r].p)
    /\ objects' = objects \ {req[r].f}
    /\ Return(r)
    /\ UNCHANGED <<tree, fileIn, fileAt, used, filesCount, link>>

-----------------------------------------------------------------------------
(* Update with parent_id.  What is read of d first is checked again by the *)
(* UPDATE, so its read and that of the target are one step.                *)

Update(r, d, p) ==
    /\ At(r, "idle") /\ r \in Movers
    /\ IsAlive(d) /\ d # Root /\ p # d /\ IsAlive(p)
    /\ req' = [req EXCEPT ![r] = [Idle EXCEPT !.pc = "moveIds", !.d = d, !.p = p]]
    /\ UNCHANGED <<tree, files, filesCount, link>>

\* Mutant: the target is not looked for in the subtree.
CheckNestingNot(r) ==
    /\ At(r, "moveIds")
    /\ SubtreeEnds(req[r].d)
    /\ req' = [req EXCEPT ![r].pc = "move"]
    /\ UNCHANGED <<tree, files, filesCount, link>>

CheckNesting(r) ==
    /\ At(r, "moveIds")
    /\ SubtreeEnds(req[r].d)
    /\ req' = [req EXCEPT ![r] = IF req[r].p \in Below(req[r].d) THEN Idle
                                 ELSE [req[r] EXCEPT !.pc = "move"]]
    /\ UNCHANGED <<tree, files, filesCount, link>>

\* UPDATE directories SET parent_id = $3 WHERE id = $1 AND deleted_at IS NULL.
UpdateNameAndParent(r) ==
    /\ At(r, "move")
    /\ HasRow(req[r].p)
    /\ parent' = IF IsAlive(req[r].d) THEN [parent EXCEPT ![req[r].d] = req[r].p] ELSE parent
    /\ Return(r)
    /\ UNCHANGED <<dirAt, files, filesCount, link>>

-----------------------------------------------------------------------------
(* SoftDelete.                                                             *)

SoftDelete(r, d) ==
    /\ May(r, "trash") /\ CountsInBounds /\ TimeLeft
    /\ IsAlive(d) /\ d # Root
    /\ req' = [req EXCEPT ![r] = [Idle EXCEPT !.pc = "trashIds", !.d = d, !.p = parent[d]]]
    /\ UNCHANGED <<tree, files, filesCount, link>>

TrashedSubtree(r) ==
    /\ At(r, "trashIds")
    /\ SubtreeEnds(req[r].d)
    /\ req' = [req EXCEPT ![r].pc = "trashFiles",
                          ![r].ids = {x \in Below(req[r].d) : HasRow(x)}]
    /\ UNCHANGED <<tree, files, filesCount, link>>

TrashedFiles(r) ==
    /\ At(r, "trashFiles")
    /\ req' = [req EXCEPT ![r].pc = "trash", ![r].live = FilesAlive(req[r].ids)]
    /\ UNCHANGED <<tree, files, filesCount, link>>

\* The files get the new time even if they were in the trash before, the
\* directories only if they were not.
SoftDeleteSubtree(r) ==
    LET ids == req[r].ids
        n   == Cardinality(req[r].live) IN
    /\ At(r, "trash")
    /\ CanAdjust(req[r].p, n)
    /\ \E t \in Now :
         /\ fileAt' = [f \in Files |-> IF fileIn[f] \in ids THEN t ELSE fileAt[f]]
         /\ dirAt'  = [x \in Dirs |-> IF x \in ids /\ IsAlive(x) THEN t ELSE dirAt[x]]
    /\ filesCount' = Adjusted(req[r].p, -n)
    /\ link' = Switched(req[r].live \cup ids, "off")
    /\ Return(r)
    /\ UNCHANGED <<parent, fileIn, used, objects>>

-----------------------------------------------------------------------------
(* Restore.                                                                *)

Restore(r, d) ==
    /\ May(r, "restore") /\ CountsInBounds
    /\ InTrash(d)
    /\ req' = [req EXCEPT ![r] = [Idle EXCEPT !.pc = "restoreParent", !.d = d,
                                              !.p = parent[d], !.at = dirAt[d]]]
    /\ UNCHANGED <<tree, files, filesCount, link>>

\* Mutant: a directory is restored into a parent that is in the trash.
RestoreAnywhere(r) ==
    /\ At(r, "restoreParent")
    /\ req' = [req EXCEPT ![r].pc = "restoreIds"]
    /\ UNCHANGED <<tree, files, filesCount, link>>

RestoreUnderParent(r) ==
    /\ At(r, "restoreParent")
    /\ req' = [req EXCEPT ![r] = IF IsAlive(req[r].p)
                                 THEN [req[r] EXCEPT !.pc = "restoreIds"] ELSE Idle]
    /\ UNCHANGED <<tree, files, filesCount, link>>

RestoredSubtree(r) ==
    /\ At(r, "restoreIds")
    /\ SubtreeEnds(req[r].d)
    /\ req' = [req EXCEPT ![r].pc = "restoreFiles",
                          ![r].ids = {x \in Below(req[r].d) : HasRow(x)}]
    /\ UNCHANGED <<tree, files, filesCount, link>>

\* On another connection than the transaction that is already open.
RestoredFiles(r) ==
    /\ At(r, "restoreFiles")
    /\ req' = [req EXCEPT ![r].pc = "restore", ![r].dead = FilesTrashed(req[r].ids)]
    /\ UNCHANGED <<tree, files, filesCount, link>>

\* The files that carry the time of the directory come back; every directory
\* of the subtree does, whenever it was deleted.
RestoreSubtree(r) ==
    LET ids == req[r].ids
        n   == Cardinality(req[r].dead) IN
    /\ At(r, "restore")
    /\ CanAdjust(req[r].p, n)
    /\ fileAt' = [f \in Files |-> IF fileIn[f] \in ids /\ fileAt[f] = req[r].at
                                  THEN Alive ELSE fileAt[f]]
    /\ dirAt'  = [x \in Dirs |-> IF x \in ids /\ HasRow(x) THEN Alive ELSE dirAt[x]]
    /\ filesCount' = Adjusted(req[r].p, n)
    /\ link' = Switched(req[r].dead \cup ids, "on")
    /\ Return(r)
    /\ UNCHANGED <<parent, fileIn, used, objects>>

-----------------------------------------------------------------------------
(* PermanentDelete, and ClearTrash for a directory: other reads, and one   *)
(* transaction alike.                                                      *)

PermanentDelete(r, d) ==
    /\ May(r, "purge") /\ CountsInBounds
    /\ HasRow(d) /\ d # Root
    /\ req' = [req EXCEPT ![r] = [Idle EXCEPT !.pc = "purgeIds", !.d = d, !.p = parent[d]]]
    /\ UNCHANGED <<tree, files, filesCount, link>>

PurgedSubtree(r) ==
    /\ At(r, "purgeIds")
    /\ SubtreeEnds(req[r].d)
    /\ req' = [req EXCEPT ![r].pc = "purgeAlive",
                          ![r].ids = {x \in Below(req[r].d) : HasRow(x)}]
    /\ UNCHANGED <<tree, files, filesCount, link>>

PurgedAlive(r) ==
    /\ At(r, "purgeAlive")
    /\ req' = [req EXCEPT ![r].pc = "purgeDead", ![r].live = FilesAlive(req[r].ids)]
    /\ UNCHANGED <<tree, files, filesCount, link>>

\* A file that was put into the trash since PurgedAlive is found twice.
PurgedDead(r) ==
    /\ At(r, "purgeDead")
    /\ req' = [req EXCEPT ![r].pc = "purge", ![r].dead = FilesTrashed(req[r].ids)]
    /\ UNCHANGED <<tree, files, filesCount, link>>

ClearTrash(r, d) ==
    /\ May(r, "clear") /\ CountsInBounds
    /\ InTrash(d)
    /\ req' = [req EXCEPT ![r] = [Idle EXCEPT !.pc = "clearIds", !.d = d]]
    /\ UNCHANGED <<tree, files, filesCount, link>>

\* FindDeletedSubtreeIDs: down through directories that are in the trash.
ClearedSubtree(r) ==
    LET d == req[r].d IN
    /\ At(r, "clearIds")
    /\ SubtreeEnds(d)
    /\ req' = [req EXCEPT ![r].pc = "clearFiles",
                          ![r].ids = {x \in Below(d) : \A y \in Below(d) \cap AboveOf(x) : InTrash(y)}]
    /\ UNCHANGED <<tree, files, filesCount, link>>

ClearedFiles(r) ==
    /\ At(r, "clearFiles")
    /\ req' = [req EXCEPT ![r].pc = "clear", ![r].dead = FilesTrashed(req[r].ids)]
    /\ UNCHANGED <<tree, files, filesCount, link>>

\* DeleteByFileIDs returns a nil map when it is given no file, and the counts
\* of the directories' links are added to it: the handler panics.
Panics(r) == req[r].live \cup req[r].dead = {} /\ \E d \in req[r].ids : link[d] # "none"

\* Every row below a deleted directory goes with it (ON DELETE CASCADE).
Cascade(ids) == UNION {Below(d) : d \in {x \in ids : HasRow(x)}}

Deleting(r) == At(r, "purge") \/ At(r, "clear")

\* Mutant: no ON DELETE CASCADE below what was read.
HardDeleteListed(r) ==
    LET gone == req[r].ids
        rows == {f \in Files : fileIn[f] \in gone}
        n    == Cardinality(req[r].live) IN
    /\ Deleting(r) /\ ~Panics(r)
    /\ CanAdjust(req[r].p, n)
    /\ parent' = [d \in Dirs |-> IF d \in gone THEN None ELSE parent[d]]
    /\ dirAt'  = [d \in Dirs |-> IF d \in gone THEN None ELSE dirAt[d]]
    /\ fileIn' = [f \in Files |-> IF f \in rows THEN None ELSE fileIn[f]]
    /\ fileAt' = [f \in Files |-> IF f \in rows THEN None ELSE fileAt[f]]
    /\ link'   = [t \in Dirs \cup Files |-> IF t \in gone \cup rows THEN "none" ELSE link[t]]
    /\ used'   = used - n - Cardinality(req[r].dead)
    /\ objects' = objects \ (req[r].live \cup req[r].dead)
    /\ filesCount' = [d \in Dirs |-> IF d \in gone THEN 0 ELSE Adjusted(req[r].p, -n)[d]]
    /\ Return(r)

\* ClearTrash deletes the files by their ids as well, PermanentDelete relies on
\* the cascade.
HardDelete(r) ==
    LET gone  == Cascade(req[r].ids)
        rows  == {f \in Files : fileIn[f] \in gone \/ (At(r, "clear") /\ f \in req[r].dead)}
        n     == Cardinality(req[r].live) IN
    /\ Deleting(r) /\ ~Panics(r)
    /\ CanAdjust(req[r].p, n)
    /\ parent' = [d \in Dirs |-> IF d \in gone THEN None ELSE parent[d]]
    /\ dirAt'  = [d \in Dirs |-> IF d \in gone THEN None ELSE dirAt[d]]
    /\ fileIn' = [f \in Files |-> IF f \in rows THEN None ELSE fileIn[f]]
    /\ fileAt' = [f \in Files |-> IF f \in rows THEN None ELSE fileAt[f]]
    /\ link'   = [t \in Dirs \cup Files |-> IF t \in gone \cup rows THEN "none" ELSE link[t]]
    /\ used'   = used - n - Cardinality(req[r].dead)
    /\ objects' = objects \ (req[r].live \cup req[r].dead)
    /\ LET count == Adjusted(req[r].p, -n) IN
         filesCount' = [d \in Dirs |-> IF d \in gone THEN 0 ELSE count[d]]
    /\ Return(r)

\* The recover middleware answers 500 and the transaction is rolled back.
HardDeletePanics(r) ==
    /\ Deleting(r) /\ Panics(r)
    /\ Return(r)
    /\ UNCHANGED <<tree, files, filesCount, link>>

\* storage.Delete or the commit fails after some objects have been deleted.
HardDeleteFails(r) ==
    /\ "fail" \in Ops /\ ~alone
    /\ Deleting(r) /\ ~Panics(r)
    /\ \E S \in SUBSET (req[r].live \cup req[r].dead) : objects' = objects \ S
    /\ Return(r)
    /\ UNCHANGED <<tree, fileIn, fileAt, used, filesCount, link>>

\* access.Can says no, a name is taken, or a statement fails: nothing is written.
Refused(r) ==
    /\ "fail" \in Ops
    /\ req[r].pc \notin {"idle", "insertFile"}
    /\ Return(r)
    /\ UNCHANGED <<tree, files, filesCount, link>>

-----------------------------------------------------------------------------
(* Operations on one file, and a new link, each as one step.               *)

FileSoftDelete(r, f) ==
    /\ May(r, "file") /\ CountsInBounds /\ TimeLeft
    /\ fileAt[f] = Alive /\ CanAdjust(fileIn[f], 1)
    /\ \E t \in Now : fileAt' = [fileAt EXCEPT ![f] = t]
    /\ filesCount' = Adjusted(fileIn[f], -1)
    /\ link' = Switched({f}, "off")
    /\ UNCHANGED <<tree, fileIn, used, objects, req>>

FileRestore(r, f) ==
    /\ May(r, "file") /\ CountsInBounds
    /\ fileAt[f] \in Times /\ IsAlive(fileIn[f]) /\ CanAdjust(fileIn[f], 1)
    /\ fileAt' = [fileAt EXCEPT ![f] = Alive]
    /\ filesCount' = Adjusted(fileIn[f], 1)
    /\ link' = Switched({f}, "on")
    /\ UNCHANGED <<tree, fileIn, used, objects, req>>

CreateLink(r, t) ==
    /\ May(r, "link")
    /\ link[t] = "none"
    /\ IF t \in Dirs THEN IsAlive(t) ELSE fileAt[t] = Alive
    /\ link' = [link EXCEPT ![t] = "on"]
    /\ UNCHANGED <<tree, files, filesCount, req>>

-----------------------------------------------------------------------------
Start(r) ==
    /\ alone => Quiet
    /\ \/ \E d, p \in Dirs : Create(r, d, p) \/ Update(r, d, p)
       \/ \E f \in Files, p \in Dirs : Upload(r, f, p)
       \/ \E d \in Dirs : SoftDelete(r, d) \/ Restore(r, d) \/ PermanentDelete(r, d) \/ ClearTrash(r, d)

Proceed(r) ==
    \/ InsertDir(r) \/ InsertFile(r) \/ ParentGone(r)
    \/ CheckNesting(r) \/ UpdateNameAndParent(r)
    \/ TrashedSubtree(r) \/ TrashedFiles(r) \/ SoftDeleteSubtree(r)
    \/ RestoreUnderParent(r) \/ RestoredSubtree(r) \/ RestoredFiles(r) \/ RestoreSubtree(r)
    \/ PurgedSubtree(r) \/ PurgedAlive(r) \/ PurgedDead(r)
    \/ ClearedSubtree(r) \/ ClearedFiles(r)
    \/ HardDelete(r) \/ HardDeletePanics(r)

OneStep(r) ==
    /\ alone => Quiet
    /\ \/ \E f \in Files : FileSoftDelete(r, f) \/ FileRestore(r, f)
       \/ \E t \in Dirs \cup Files : CreateLink(r, t)

Next ==
    /\ \E r \in Reqs : Start(r) \/ Proceed(r) \/ OneStep(r) \/ HardDeleteFails(r) \/ Refused(r)
    /\ UNCHANGED alone

Spec == Init /\ [][Next]_vars

-----------------------------------------------------------------------------
(* Properties.                                                             *)

\* Types, and the foreign keys: a row's parent and a file's directory exist.
TypeOK ==
    /\ parent \in [Dirs -> Dirs \cup {None}]
    /\ dirAt  \in [Dirs -> Stamps]
    /\ fileIn \in [Files -> Dirs \cup {None}]
    /\ fileAt \in [Files -> Stamps]
    /\ filesCount \in [Dirs -> Int]
    /\ used \in Int
    /\ objects \subseteq Files
    /\ link \in [Dirs \cup Files -> LinkStates]
    /\ req \in [Reqs -> Request]
    /\ alone \in BOOLEAN
    /\ \A d \in Dirs  : parent[d] # None => HasRow(d) /\ HasRow(parent[d])
    /\ \A f \in Files : fileAt[f] # None <=> fileIn[f] # None
    /\ \A f \in Files : fileIn[f] # None => HasRow(fileIn[f])

\* The directories are a tree: there is no set of directories whose parents
\* are all in the set (Update refuses to move a directory below itself).
Acyclic == ~ \E S \in (SUBSET Dirs) \ {{}} : \A x \in S : parent[x] \in S

\* What is in a directory of the trash is in the trash: SoftDelete takes the
\* whole subtree, and nothing is created in, moved to or restored into it.
TrashIsClosed ==
    Quiet => /\ \A d \in Dirs : IsAlive(d) /\ parent[d] # None => IsAlive(parent[d])
             /\ \A f \in Files : fileAt[f] = Alive => IsAlive(fileIn[f])

\* Whatever way files went to the trash and came back, one by one or with any
\* directory above them, files_count of the root is the number of live files.
RootCountExact ==
    Quiet => filesCount[Root] = Cardinality({f \in Files : fileAt[f] = Alive})

\* storage_used is what the rows hold, and rows and objects are paired: what a
\* deletion of a subtree gives back is what it deletes.
UsedIsRows ==
    Quiet => /\ used = Cardinality({f \in Files : fileAt[f] # None})
             /\ objects = {f \in Files : fileAt[f] # None}

\* A link works if and only if what it opens is not in the trash.
LinksFollowTrash ==
    Quiet => /\ \A d \in Dirs : /\ link[d] = "on"  => IsAlive(d)
                                /\ link[d] = "off" => InTrash(d)
             /\ \A f \in Files : /\ link[f] = "on"  => fileAt[f] = Alive
                                 /\ link[f] = "off" => fileAt[f] \in Times

\* One request at a time, through the trash and back in any order: nothing alive is below
\* a directory in the trash, the counters are exact and links follow their target.
ConsistentAlone ==
    alone => TrashIsClosed /\ RootCountExact /\ UsedIsRows /\ LinksFollowTrash

=============================================================================
