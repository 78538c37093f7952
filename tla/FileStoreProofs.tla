--------------------------- MODULE FileStoreProofs ---------------------------
(***************************************************************************)
(* Proofs about FileStore for every number of users, files, directories    *)
(* and concurrent requests, every size and quota, and every set of faults. *)
(***************************************************************************)
EXTENDS FileStore, FiniteSetTheorems, TLAPS

Uploading == {"put", "begin", "insert"}
Deleting  == {"delTx", "delObject", "delCommit"}

\* The rows of an upload in progress do not exist yet, and no other upload in
\* progress has them.
UploadsFresh ==
    \A r \in Reqs : req[r].pc \in Uploading =>
        /\ req[r].user \in Users /\ req[r].dir \in Dirs
        /\ \A f \in req[r].fs : row[f] = "none" /\ Owner[f] = req[r].user
        /\ \A q \in Reqs \ {r} :
              req[q].pc \in Uploading => req[r].fs \cap req[q].fs = {}

\* A request that passed the quota check holds the users row, and what it is
\* about to add still fits.
Reserved ==
    \A r \in Reqs : req[r].pc = "insert" =>
        /\ lock[req[r].user] = r
        /\ used[req[r].user] + Bytes(req[r].fs) <= Quota[req[r].user]

\* A deletion works on rows of one owner that were there when it read them.
DeletesOwned ==
    \A r \in Reqs : req[r].pc \in Deleting =>
        /\ req[r].user \in Users
        /\ \A f \in req[r].fs : row[f] # "none" /\ Owner[f] = req[r].user
        /\ req[r].live => req[r].dir \in Dirs

IInv ==
    /\ TypeOK
    /\ UploadsFresh
    /\ Reserved
    /\ DeletesOwned
    /\ QuotaHeld
    /\ UsedNotAboveBytes
-----------------------------------------------------------------------------
(* Bytes: the size of a set of files.                                      *)

LEMMA ContentFinite ==
    ASSUME NEW S \in SUBSET Files
    PROVE  IsFiniteSet(Content(S)) /\ Bytes(S) \in Nat
<1>1. IsFiniteSet(S)
  BY FS_Subset, ConstantsOK
<1>2. IsFiniteSet(1..Cap)
  BY FS_Interval, ConstantsOK
<1>3. IsFiniteSet(S \X (1..Cap))
  BY <1>1, <1>2, FS_Product
<1>4. Content(S) \in SUBSET (S \X (1..Cap))
  BY DEF Content
<1>5. IsFiniteSet(Content(S))
  BY <1>3, <1>4, FS_Subset
<1> QED
  BY <1>5, FS_CardinalityType DEF Bytes

LEMMA BytesMonotone ==
    ASSUME NEW S \in SUBSET Files, NEW T \in SUBSET S
    PROVE  Bytes(T) <= Bytes(S)
<1>1. Content(T) \in SUBSET Content(S)
  BY DEF Content
<1> QED
  BY <1>1, ContentFinite, FS_Subset DEF Bytes

LEMMA BytesUnion ==
    ASSUME NEW S \in SUBSET Files, NEW T \in SUBSET Files
    PROVE  /\ Bytes(S \cup T) <= Bytes(S) + Bytes(T)
           /\ S \cap T = {} => Bytes(S \cup T) = Bytes(S) + Bytes(T)
<1>1. Content(S \cup T) = Content(S) \cup Content(T)
  BY DEF Content
<1>2. /\ IsFiniteSet(Content(S)) /\ IsFiniteSet(Content(T))
      /\ Bytes(S) \in Nat /\ Bytes(T) \in Nat
  BY ContentFinite
<1>3. Bytes(S \cup T) = Bytes(S) + Bytes(T) - Cardinality(Content(S) \cap Content(T))
  BY <1>1, <1>2, FS_Union DEF Bytes
<1>4. Cardinality(Content(S) \cap Content(T)) \in Nat
  BY <1>2, FS_Intersection, FS_CardinalityType
<1>5. S \cap T = {} => Content(S) \cap Content(T) = {}
  BY DEF Content
<1>6. Cardinality({}) = 0
  BY FS_EmptySet
<1>7. S \cap T = {} => Cardinality(Content(S) \cap Content(T)) = 0
  BY <1>5, <1>6
<1> QED
  BY <1>2, <1>3, <1>4, <1>7

\* What is left after T is taken away is at least the difference.
LEMMA BytesDifference ==
    ASSUME NEW S \in SUBSET Files, NEW T \in SUBSET Files
    PROVE  Bytes(S) - Bytes(T) <= Bytes(S \ T)
<1>1. Bytes(S) <= Bytes((S \ T) \cup T)
  BY BytesMonotone
<1>2. Bytes((S \ T) \cup T) <= Bytes(S \ T) + Bytes(T)
  BY BytesUnion
<1>3. /\ Bytes(S) \in Nat /\ Bytes(T) \in Nat
      /\ Bytes(S \ T) \in Nat /\ Bytes((S \ T) \cup T) \in Nat
  BY ContentFinite
<1> QED
  BY <1>1, <1>2, <1>3

-----------------------------------------------------------------------------
(* Type correctness.                                                       *)

LEMMA TypeInit == Init => TypeOK
  BY ConstantsOK DEF Init, TypeOK, Idle, Request, Pcs, RowStates, LinkStates

\* Steps that only move a request on keep it a request.
LEMMA StepTyped ==
    ASSUME req \in [Reqs -> Request], NEW r \in Reqs
    PROVE  /\ \A pc \in Pcs : Goto(r, pc) => req' \in [Reqs -> Request]
           /\ Return(r) => req' \in [Reqs -> Request]
           /\ \A pc \in Pcs, done \in SUBSET Files :
                 [req[r] EXCEPT !.done = done, !.pc = pc] \in Request
<1>1. ASSUME NEW q \in Request, NEW pc \in Pcs
      PROVE  [q EXCEPT !.pc = pc] \in Request
  BY <1>1 DEF Request
<1>2. ASSUME NEW q \in Request, NEW pc \in Pcs, NEW done \in SUBSET Files
      PROVE  [q EXCEPT !.done = done, !.pc = pc] \in Request
  BY <1>2 DEF Request
<1>3. Idle \in Request
  BY DEF Request, Idle, Pcs
<1>4. \A pc \in Pcs : Goto(r, pc) => req' \in [Reqs -> Request]
  BY <1>1 DEF Goto
<1>5. Return(r) => req' \in [Reqs -> Request]
  BY <1>3 DEF Return
<1> QED
  BY <1>2, <1>4, <1>5

\* A request as its first step makes it.
LEMMA NewRequestTyped ==
    ASSUME NEW pc \in Pcs, NEW user \in Users \cup {None}, NEW fs \in SUBSET Files,
           NEW done \in SUBSET Files, NEW d \in Dirs \cup {None},
           NEW src \in Files \cup {None}, NEW live \in BOOLEAN
    PROVE  /\ [Idle EXCEPT !.pc = pc, !.user = user, !.fs = fs, !.dir = d] \in Request
           /\ [Idle EXCEPT !.pc = pc, !.user = user, !.fs = fs, !.dir = d,
                           !.src = src] \in Request
           /\ [Idle EXCEPT !.pc = pc, !.fs = fs, !.dir = d] \in Request
           /\ [Idle EXCEPT !.pc = pc, !.user = user, !.fs = fs, !.done = done] \in Request
           /\ [Idle EXCEPT !.pc = pc, !.user = user, !.fs = fs, !.done = done,
                           !.dir = d, !.live = live] \in Request
  BY DEF Idle, Request

LEMMA DifferenceTyped ==
    ASSUME NEW S, NEW t \in [S -> Int], NEW n \in Int, NEW x
    PROVE  [t EXCEPT ![x] = @ - n] \in [S -> Int]
<1>1. \A y \in S : t[y] - n \in Int
  OBVIOUS
<1> QED
  BY <1>1

LEMMA InsertedTyped ==
    ASSUME TypeOK, UploadsFresh, NEW r \in Reqs, At(r, "insert"), Inserted(r)
    PROVE  /\ row'  \in [Files -> RowStates]
           /\ dir'  \in [Files -> Dirs]
           /\ link' \in [Files -> LinkStates]
           /\ used' \in [Users -> Int]
           /\ filesCount' \in [Dirs -> Int]
           /\ objects' \subseteq Files
           /\ lock' \in [Users -> Reqs \cup {None}]
<1>1. Bytes(req[r].fs) \in Nat
  BY ContentFinite DEF TypeOK, Request
<1>2. Cardinality(req[r].fs) \in Nat
  BY FS_Subset, FS_CardinalityType, ConstantsOK DEF TypeOK, Request
<1>3. req[r].user \in Users /\ req[r].dir \in Dirs
  BY DEF UploadsFresh, Uploading, At
<1> QED
  BY <1>1, <1>2, <1>3 DEF TypeOK, Request, Inserted, Adjusted, Unlocked, RowStates

LEMMA TypeNext == TypeOK /\ UploadsFresh /\ [Next]_vars => TypeOK'
<1> SUFFICES ASSUME TypeOK, UploadsFresh, [Next]_vars PROVE TypeOK'
  OBVIOUS
<1>0. alone' = alone
  BY DEF Next, vars
<1> USE <1>0 DEF TypeOK, At, Unlocked, db, Pcs
<1>1. ASSUME NEW r \in Reqs, Start(r) PROVE TypeOK'
  <2>1. ASSUME NEW d \in Dirs, NEW fs \in SUBSET Files, Upload(r, d, fs) PROVE TypeOK'
    <3>1. PICK u \in Users :
            req' = [req EXCEPT ![r] =
                      [Idle EXCEPT !.pc = "put", !.user = u, !.fs = fs, !.dir = d]]
      BY <2>1 DEF Upload
    <3>2. [Idle EXCEPT !.pc = "put", !.user = u, !.fs = fs, !.dir = d] \in Request
      BY NewRequestTyped
    <3> QED
      BY <2>1, <3>1, <3>2 DEF Upload
  <2>2. ASSUME NEW s \in Files, NEW f \in Files, ConvertAndSave(r, s, f) PROVE TypeOK'
    <3> DEFINE new == [Idle EXCEPT !.pc = "put", !.user = Owner[f], !.fs = {f},
                                   !.dir = dir[s], !.src = s]
    <3>1. Owner[f] \in Users /\ dir[s] \in Dirs
      BY ConstantsOK
    <3>2. new \in Request
      BY <3>1 DEF Idle, Request
    <3>3. req' = [req EXCEPT ![r] = new]
      BY <2>2 DEF ConvertAndSave
    <3> HIDE DEF new
    <3>4. req' \in [Reqs -> Request]
      BY <3>2, <3>3
    <3> QED
      BY <2>2, <3>4 DEF ConvertAndSave
  <2>3. ASSUME NEW f \in Files, SoftDelete(r, f) PROVE TypeOK'
    BY <2>3 DEF SoftDelete, Request, Idle, Return
  <2>4. ASSUME NEW f \in Files, Restore(r, f) PROVE TypeOK'
    BY <2>4 DEF Restore, Request, Idle, Return
  <2>5. ASSUME NEW f \in Files, PermanentDelete(r, f) PROVE TypeOK'
    <3> DEFINE live == row[f] = "alive"
    <3>1. Owner[f] \in Users /\ dir[f] \in Dirs
      BY ConstantsOK
    <3>2. live \in BOOLEAN
      OBVIOUS
    <3> HIDE DEF live
    <3>3. [Idle EXCEPT !.pc = "delTx", !.user = Owner[f], !.fs = {f}, !.done = {f},
                       !.dir = dir[f], !.live = live] \in Request
      BY <3>1, <3>2 DEF Idle, Request
    <3>4. UNCHANGED <<row, dir, link, used, filesCount, objects, lock>>
      BY <2>5 DEF PermanentDelete
    <3>5. req' \in [Reqs -> Request]
      BY <2>5, <3>3 DEF PermanentDelete, live
    <3> QED
      BY <3>4, <3>5
  <2>6. ASSUME NEW u \in Users, NEW fs \in SUBSET Files, ClearTrash(r, u, fs) PROVE TypeOK'
    BY <2>6 DEF ClearTrash, Request, Idle, Return
  <2> QED
    BY <1>1, <2>1, <2>2, <2>3, <2>4, <2>5, <2>6 DEF Start
<1>2. ASSUME NEW r \in Reqs, Continue(r) PROVE TypeOK'
  <2>1. ASSUME NEW f \in Files, PutObject(r, f) PROVE TypeOK'
    <3> DEFINE done == req[r].done \cup {f}
               pc   == IF done = req[r].fs THEN "begin" ELSE "put"
    <3>1. req' = [req EXCEPT ![r] = [req[r] EXCEPT !.done = done, !.pc = pc]]
      BY <2>1 DEF PutObject
    <3>2. req[r].done \in SUBSET Files
      BY DEF Request
    <3>3. [req[r] EXCEPT !.done = done, !.pc = pc] \in Request
      BY <3>2, StepTyped
    <3> HIDE DEF done, pc
    <3>4. req' \in [Reqs -> Request]
      BY <3>1, <3>3
    <3>5. objects' \subseteq Files /\ UNCHANGED <<row, dir, link, used, filesCount, lock>>
      BY <2>1 DEF PutObject
    <3> QED
      BY <3>4, <3>5
  <2>2. ASSUME NEW f \in Files, PutFails(r, f) PROVE TypeOK'
    BY <2>2, StepTyped DEF PutFails
  <2>3. ASSUME NEW f \in Files, CleanupObject(r, f) PROVE TypeOK'
    <3> DEFINE left == req[r].done \ {f}
    <3>1. req' = [req EXCEPT ![r] = [req[r] EXCEPT !.done = left]]
      BY <2>3 DEF CleanupObject
    <3>2. [req[r] EXCEPT !.done = left] \in Request
      <4>1. req[r] \in Request
        OBVIOUS
      <4>2. left \in SUBSET Files
        BY <4>1 DEF Request
      <4> QED
        BY <4>1, <4>2 DEF Request
    <3> QED
      BY <2>3, <3>1, <3>2 DEF CleanupObject
  <2>4. ASSUME NEW f \in Files, DeleteObject(r, f) PROVE TypeOK'
    <3> DEFINE left == req[r].done \ {f}
               pc   == IF left = {} THEN "delCommit" ELSE "delObject"
    <3>1. req' = [req EXCEPT ![r] = [req[r] EXCEPT !.done = left, !.pc = pc]]
      BY <2>4 DEF DeleteObject
    <3>2. req[r].done \in SUBSET Files
      BY DEF Request
    <3>3. [req[r] EXCEPT !.done = left, !.pc = pc] \in Request
      BY <3>2, StepTyped
    <3> QED
      BY <2>4, <3>1, <3>3 DEF DeleteObject
  <2>5. CASE GetUserStorage(r)
    BY <2>5, StepTyped DEF GetUserStorage
  <2>6. CASE CommitUpload(r)
    BY <2>6, InsertedTyped, StepTyped DEF CommitUpload
  <2>7. CASE CommitUploadAckLost(r)
    BY <2>7, InsertedTyped, StepTyped DEF CommitUploadAckLost
  <2>8. CASE UploadTxFails(r) \/ SourceGone(r)
    BY <2>8, StepTyped DEF UploadTxFails, SourceGone
  <2>9. CASE CleanupEnd(r)
    BY <2>9 DEF CleanupEnd, Request, Idle, Return
  <2>10. CASE SoftDeleteFile(r)
    BY <2>10, StepTyped DEF SoftDeleteFile, RowStates
  <2>11. CASE RestoreFile(r)
    BY <2>11, StepTyped DEF RestoreFile, RowStates
  <2>12. CASE IncrementFilesCount(r)
    <3>1. Goto(r, "linksOff") \/ Goto(r, "linksOn")
      BY <2>12 DEF IncrementFilesCount
    <3>2. req' \in [Reqs -> Request]
      BY <3>1, StepTyped
    <3>3. \A d : /\ Adjusted(d, 1)  \in [Dirs -> Int]
                 /\ Adjusted(d, -1) \in [Dirs -> Int]
      BY DEF Adjusted
    <3>4. filesCount' \in [Dirs -> Int]
      BY <2>12, <3>3 DEF IncrementFilesCount
    <3> QED
      BY <2>12, <3>2, <3>4 DEF IncrementFilesCount
  <2>13. CASE SetActiveByFileIDs(r)
    BY <2>13, StepTyped DEF SetActiveByFileIDs, LinkStates
  <2>14. CASE StatementFails(r)
    BY <2>14 DEF StatementFails, Request, Idle, Return
  <2>15. CASE DeleteRows(r)
    BY <2>15, StepTyped DEF DeleteRows
  <2>16. CASE CommitDelete(r)
    <3>1. Bytes(req[r].fs) \in Nat
      BY ContentFinite DEF Request
    <3>2. used' \in [Users -> Int]
      <4> DEFINE freed == Bytes(req[r].fs)
                 u     == req[r].user
      <4>1. used' = [used EXCEPT ![u] = @ - freed]
        BY <2>16 DEF CommitDelete
      <4>2. freed \in Int /\ used \in [Users -> Int]
        BY <3>1
      <4> HIDE DEF freed, u
      <4> QED
        BY <4>1, <4>2, DifferenceTyped
    <3>3. filesCount' \in [Dirs -> Int]
      BY <2>16 DEF CommitDelete, Adjusted
    <3>4. req' \in [Reqs -> Request]
      BY <2>16, StepTyped DEF CommitDelete
    <3> QED
      BY <2>16, <3>2, <3>3, <3>4 DEF CommitDelete, RowStates, LinkStates
  <2>17. CASE DeleteFails(r)
    BY <2>17 DEF DeleteFails, Request, Idle, Return
  <2> QED
    BY <1>2, <2>1, <2>2, <2>3, <2>4, <2>5, <2>6, <2>7, <2>8, <2>9, <2>10, <2>11,
       <2>12, <2>13, <2>14, <2>15, <2>16, <2>17 DEF Continue, Proceed, Fails
<1>3. ASSUME NEW f \in Files, NEW d \in Dirs, MoveFile(f, d) PROVE TypeOK'
  BY <1>3 DEF MoveFile
<1>4. ASSUME NEW f \in Files, CreateLink(f) PROVE TypeOK'
  BY <1>4 DEF CreateLink, LinkStates
<1>5. CASE Crash
  BY <1>5 DEF Crash, Idle, Request
<1>6. CASE UNCHANGED vars
  BY <1>6 DEF vars
<1> QED
  BY <1>1, <1>2, <1>3, <1>4, <1>5, <1>6 DEF Next
-----------------------------------------------------------------------------
(* The inductive invariant.                                                *)

LEMMA IInvInit == Init => IInv
<1> SUFFICES ASSUME Init PROVE IInv
  OBVIOUS
<1>1. TypeOK
  BY TypeInit
<1>2. UploadsFresh /\ Reserved /\ DeletesOwned
  BY DEF Init, Idle, UploadsFresh, Reserved, DeletesOwned, Uploading, Deleting
<1>3. QuotaHeld
  BY ConstantsOK DEF Init, QuotaHeld
<1>4. UsedNotAboveBytes
  <2>1. \A u \in Users : Bytes(RowsOf(u)) \in Nat
    BY ContentFinite DEF RowsOf
  <2> QED
    BY <2>1 DEF Init, UsedNotAboveBytes
<1> QED
  BY <1>1, <1>2, <1>3, <1>4 DEF IInv

\* Every step of one request that creates or removes no row and moves no bytes,
\* whatever it does to its own lock.
LEMMA RequestStep ==
    ASSUME IInv, TypeOK', NEW r \in Reqs,
           \A q \in Reqs \ {r} : req'[q] = req[q],
           used' = used,
           \A f \in Files : /\ Exists(f)' <=> Exists(f)
                            /\ row'[f] = "none" <=> row[f] = "none",
           \A u \in Users : lock[u] \in Reqs \ {r} => lock'[u] = lock[u],
           req'[r].pc \in Uploading =>
               /\ req'[r].user \in Users /\ req'[r].dir \in Dirs
               /\ \A f \in req'[r].fs : row[f] = "none" /\ Owner[f] = req'[r].user
               /\ \A q \in Reqs \ {r} :
                     req[q].pc \in Uploading => req'[r].fs \cap req[q].fs = {},
           req'[r].pc = "insert" =>
               /\ lock'[req'[r].user] = r
               /\ used[req'[r].user] + Bytes(req'[r].fs) <= Quota[req'[r].user],
           req'[r].pc \in Deleting =>
               /\ req'[r].user \in Users
               /\ \A f \in req'[r].fs : row[f] # "none" /\ Owner[f] = req'[r].user
               /\ req'[r].live => req'[r].dir \in Dirs
    PROVE  IInv'
<1>1. \A q \in Reqs : req[q].fs \in SUBSET Files /\ req'[q].fs \in SUBSET Files
  BY DEF IInv, TypeOK, Request
<1>2. UploadsFresh'
  BY <1>1 DEF IInv, UploadsFresh
<1>3. Reserved'
  <2> SUFFICES ASSUME NEW q \in Reqs, req'[q].pc = "insert"
               PROVE  /\ lock'[req'[q].user] = q
                      /\ used'[req'[q].user] + Bytes(req'[q].fs) <= Quota[req'[q].user]
    BY DEF Reserved, Bytes, Content
  <2>1. CASE q = r
    BY <2>1
  <2>2. CASE q # r
    <3>1. req'[q] = req[q]
      BY <2>2
    <3>2. /\ req[q].user \in Users
          /\ lock[req[q].user] = q
          /\ used[req[q].user] + Bytes(req[q].fs) <= Quota[req[q].user]
      BY <3>1 DEF IInv, UploadsFresh, Uploading, Reserved
    <3>3. lock'[req[q].user] = q
      BY <2>2, <3>2
    <3> QED
      BY <3>1, <3>2, <3>3
  <2> QED
    BY <2>1, <2>2
<1>4. DeletesOwned'
  BY <1>1 DEF IInv, DeletesOwned
<1>5. QuotaHeld'
  BY DEF IInv, QuotaHeld
<1>6. UsedNotAboveBytes'
  <2>1. \A u \in Users : RowsOf(u)' = RowsOf(u)
    BY DEF RowsOf
  <2> QED
    BY <2>1 DEF IInv, UsedNotAboveBytes, Bytes, Content
<1> QED
  BY <1>2, <1>3, <1>4, <1>5, <1>6 DEF IInv

LEMMA StartStep ==
    ASSUME IInv, TypeOK', NEW r \in Reqs, Start(r)
    PROVE  IInv'
<1> USE DEF At, db, Exists, Uploading, Deleting
<1>1. ASSUME NEW d \in Dirs, NEW fs \in SUBSET Files, Upload(r, d, fs) PROVE IInv'
  <2>1. PICK u \in Users :
          /\ \A f \in fs : Owner[f] = u
          /\ req' = [req EXCEPT ![r] =
                    [Idle EXCEPT !.pc = "put", !.user = u, !.fs = fs, !.dir = d]]
    BY <1>1 DEF Upload
  <2>2. /\ req'[r].pc = "put" /\ req'[r].user = u /\ req'[r].fs = fs /\ req'[r].dir = d
        /\ \A q \in Reqs \ {r} : req'[q] = req[q]
    BY <2>1 DEF IInv, TypeOK, Idle
  <2>3. /\ \A f \in fs : row[f] = "none"
        /\ \A q \in Reqs : fs \cap req[q].fs = {}
    BY <1>1 DEF Upload, Fresh
  <2> QED
    BY <1>1, <2>1, <2>2, <2>3, RequestStep DEF Upload
<1>2. ASSUME NEW s \in Files, NEW f \in Files, ConvertAndSave(r, s, f) PROVE IInv'
  <2>1. /\ req'[r].pc = "put" /\ req'[r].user = Owner[f] /\ req'[r].fs = {f}
        /\ req'[r].dir = dir[s]
        /\ \A q \in Reqs \ {r} : req'[q] = req[q]
    BY <1>2 DEF ConvertAndSave, IInv, TypeOK, Idle
  <2>2. row[f] = "none" /\ \A q \in Reqs : {f} \cap req[q].fs = {}
    BY <1>2 DEF ConvertAndSave, Fresh
  <2>3. Owner[f] \in Users /\ dir[s] \in Dirs
    BY ConstantsOK DEF IInv, TypeOK
  <2> QED
    BY <1>2, <2>1, <2>2, <2>3, RequestStep DEF ConvertAndSave
<1>3. ASSUME NEW f \in Files, SoftDelete(r, f) PROVE IInv'
  <2>1. /\ req'[r].pc = "trash" /\ \A q \in Reqs \ {r} : req'[q] = req[q]
    BY <1>3 DEF SoftDelete, IInv, TypeOK, Idle
  <2> QED
    BY <1>3, <2>1, RequestStep DEF SoftDelete
<1>4. ASSUME NEW f \in Files, Restore(r, f) PROVE IInv'
  <2>1. /\ req'[r].pc = "restore" /\ \A q \in Reqs \ {r} : req'[q] = req[q]
    BY <1>4 DEF Restore, IInv, TypeOK, Idle
  <2> QED
    BY <1>4, <2>1, RequestStep DEF Restore
<1>5. ASSUME NEW f \in Files, PermanentDelete(r, f) PROVE IInv'
  <2>1. /\ req'[r].pc = "delTx" /\ req'[r].user = Owner[f] /\ req'[r].fs = {f}
        /\ req'[r].dir = dir[f]
        /\ \A q \in Reqs \ {r} : req'[q] = req[q]
    BY <1>5 DEF PermanentDelete, IInv, TypeOK, Idle
  <2>2. row[f] # "none"
    BY <1>5 DEF PermanentDelete
  <2>3. Owner[f] \in Users /\ dir[f] \in Dirs
    BY ConstantsOK DEF IInv, TypeOK
  <2> QED
    BY <1>5, <2>1, <2>2, <2>3, RequestStep DEF PermanentDelete
<1>6. ASSUME NEW u \in Users, NEW fs \in SUBSET Files, ClearTrash(r, u, fs) PROVE IInv'
  <2>1. /\ req'[r].pc = "delTx" /\ req'[r].user = u /\ req'[r].fs = fs
        /\ req'[r].live = FALSE
        /\ \A q \in Reqs \ {r} : req'[q] = req[q]
    BY <1>6 DEF ClearTrash, IInv, TypeOK, Idle
  <2>2. \A f \in fs : row[f] # "none" /\ Owner[f] = u
    BY <1>6 DEF ClearTrash
  <2> QED
    BY <1>6, <2>1, <2>2, RequestStep DEF ClearTrash
<1> QED
  BY <1>1, <1>2, <1>3, <1>4, <1>5, <1>6 DEF Start

\* What the commit of an upload adds is what it reserved.
LEMMA InsertedStep ==
    ASSUME IInv, TypeOK', NEW r \in Reqs, At(r, "insert"), Inserted(r),
           \A q \in Reqs \ {r} : req'[q] = req[q],
           req'[r].pc \in {"idle", "cleanup"}
    PROVE  IInv'
<1> DEFINE u  == req[r].user
           fs == req[r].fs
<1>1. /\ u \in Users /\ req[r].dir \in Dirs /\ fs \in SUBSET Files
      /\ \A f \in fs : row[f] = "none" /\ Owner[f] = u
      /\ \A q \in Reqs \ {r} : req[q].pc \in Uploading => fs \cap req[q].fs = {}
      /\ lock[u] = r /\ used[u] + Bytes(fs) <= Quota[u]
  BY DEF IInv, UploadsFresh, Reserved, Uploading, At, TypeOK, Request
<1>2. /\ row' = [f \in Files |-> IF f \in fs THEN "alive" ELSE row[f]]
      /\ used' = [used EXCEPT ![u] = @ + Bytes(fs)]
      /\ lock' = [v \in Users |-> IF lock[v] = r THEN None ELSE lock[v]]
  BY DEF Inserted, Unlocked
<1>3. /\ used'[u] = used[u] + Bytes(fs)
      /\ \A v \in Users \ {u} : used'[v] = used[v]
  BY <1>1, <1>2 DEF IInv, TypeOK
<1>4. \A q \in Reqs : req[q].fs \in SUBSET Files
  BY DEF IInv, TypeOK, Request
<1>5. UploadsFresh'
  BY <1>1, <1>2, <1>4 DEF IInv, UploadsFresh, Uploading
<1>6. Reserved'
  <2> SUFFICES ASSUME NEW q \in Reqs, req'[q].pc = "insert"
               PROVE  /\ lock'[req'[q].user] = q
                      /\ used'[req'[q].user] + Bytes(req'[q].fs) <= Quota[req'[q].user]
    BY DEF Reserved, Bytes, Content
  <2>1. q # r /\ req'[q] = req[q]
    OBVIOUS
  <2>2. /\ req[q].user \in Users
        /\ lock[req[q].user] = q
        /\ used[req[q].user] + Bytes(req[q].fs) <= Quota[req[q].user]
    BY <2>1 DEF IInv, UploadsFresh, Uploading, Reserved
  <2>3. req[q].user # u
    BY <1>1, <2>1, <2>2
  <2> QED
    BY <1>2, <1>3, <2>1, <2>2, <2>3
<1>7. DeletesOwned'
  BY <1>1, <1>2, <1>4 DEF IInv, DeletesOwned, Deleting
<1>8. QuotaHeld'
  BY <1>1, <1>3 DEF IInv, QuotaHeld
<1>9. UsedNotAboveBytes'
  <2> SUFFICES ASSUME NEW v \in Users PROVE used'[v] <= Bytes(RowsOf(v)')
    BY DEF UsedNotAboveBytes, Bytes, Content
  <2>1. RowsOf(v) \in SUBSET Files /\ used[v] <= Bytes(RowsOf(v))
    BY DEF RowsOf, IInv, UsedNotAboveBytes
  <2>2. CASE v = u
    <3>1. RowsOf(v)' = RowsOf(v) \cup fs
      BY <1>1, <1>2, <2>2 DEF RowsOf, Exists
    <3>2. RowsOf(v) \cap fs = {}
      BY <1>1 DEF RowsOf, Exists
    <3>3. Bytes(RowsOf(v) \cup fs) = Bytes(RowsOf(v)) + Bytes(fs)
      BY <1>1, <2>1, <3>2, BytesUnion
    <3>4. Bytes(RowsOf(v)) \in Nat /\ Bytes(fs) \in Nat /\ used[v] \in Int
      BY <1>1, <2>1, ContentFinite DEF IInv, TypeOK
    <3> QED
      BY <1>3, <2>1, <2>2, <3>1, <3>3, <3>4
  <2>3. CASE v # u
    <3>1. RowsOf(v)' = RowsOf(v)
      BY <1>1, <1>2, <2>3 DEF RowsOf, Exists
    <3> QED
      BY <1>3, <2>1, <2>3, <3>1
  <2> QED
    BY <2>2, <2>3
<1> QED
  BY <1>5, <1>6, <1>7, <1>8, <1>9 DEF IInv

\* A deletion gives back at least the bytes of the rows it removes.
LEMMA CommitDeleteStep ==
    ASSUME IInv, TypeOK', NEW r \in Reqs, CommitDelete(r)
    PROVE  IInv'
<1> DEFINE u  == req[r].user
           fs == req[r].fs
<1>1. /\ u \in Users /\ fs \in SUBSET Files
      /\ \A f \in fs : row[f] # "none" /\ Owner[f] = u
      /\ Bytes(fs) \in Nat
  BY ContentFinite DEF IInv, DeletesOwned, Deleting, CommitDelete, At, TypeOK, Request
<1>2. /\ row' = [f \in Files |-> IF f \in fs THEN "gone" ELSE row[f]]
      /\ used' = [used EXCEPT ![u] = @ - Bytes(fs)]
      /\ lock' = [v \in Users |-> IF lock[v] = r THEN None ELSE lock[v]]
  BY DEF CommitDelete, Unlocked
<1>3. /\ used'[u] = used[u] - Bytes(fs) /\ used'[u] <= used[u]
      /\ \A v \in Users \ {u} : used'[v] = used[v]
  BY <1>1, <1>2 DEF IInv, TypeOK
<1>4. /\ \A q \in Reqs : req[q].fs \in SUBSET Files
      /\ \A q \in Reqs \ {r} : req'[q] = req[q]
      /\ req'[r].pc = "idle"
  BY DEF IInv, TypeOK, Request, CommitDelete, Return, Idle
<1>5. UploadsFresh'
  BY <1>1, <1>2, <1>4 DEF IInv, UploadsFresh, Uploading
<1>6. Reserved'
  <2> SUFFICES ASSUME NEW q \in Reqs, req'[q].pc = "insert"
               PROVE  /\ lock'[req'[q].user] = q
                      /\ used'[req'[q].user] + Bytes(req'[q].fs) <= Quota[req'[q].user]
    BY DEF Reserved, Bytes, Content
  <2>1. q # r /\ req'[q] = req[q]
    BY <1>4
  <2>2. /\ req[q].user \in Users
        /\ lock[req[q].user] = q
        /\ used[req[q].user] + Bytes(req[q].fs) <= Quota[req[q].user]
    BY <2>1 DEF IInv, UploadsFresh, Uploading, Reserved
  <2>3. /\ used'[req[q].user] <= used[req[q].user]
        /\ used'[req[q].user] \in Int /\ used[req[q].user] \in Int
        /\ Bytes(req[q].fs) \in Nat /\ Quota[req[q].user] \in Nat
    <3>1. used'[req[q].user] <= used[req[q].user]
      <4>1. used[req[q].user] \in Int
        BY <2>2 DEF IInv, TypeOK
      <4>2. CASE req[q].user = u
        BY <4>2, <1>3
      <4>3. CASE req[q].user # u
        BY <4>1, <4>3, <2>2, <1>3
      <4> QED
        BY <4>2, <4>3
    <3>2. used'[req[q].user] \in Int /\ used[req[q].user] \in Int
      BY <2>2 DEF IInv, TypeOK
    <3>3. req[q].fs \in SUBSET Files
      BY DEF IInv, TypeOK, Request
    <3>4. Bytes(req[q].fs) \in Nat
      BY <3>3, ContentFinite
    <3>5. Quota[req[q].user] \in Nat
      BY <2>2, ConstantsOK
    <3> QED
      BY <3>1, <3>2, <3>4, <3>5
  <2>4. used'[req[q].user] + Bytes(req[q].fs) <= Quota[req[q].user]
    BY <2>2, <2>3
  <2> QED
    BY <1>2, <2>1, <2>2, <2>4
<1>7. DeletesOwned'
  BY <1>1, <1>2, <1>4 DEF IInv, DeletesOwned, Deleting
<1>8. QuotaHeld'
  BY <1>1, <1>3, ConstantsOK DEF IInv, QuotaHeld, TypeOK
<1>9. UsedNotAboveBytes'
  <2> SUFFICES ASSUME NEW v \in Users PROVE used'[v] <= Bytes(RowsOf(v)')
    BY DEF UsedNotAboveBytes, Bytes, Content
  <2>1. RowsOf(v) \in SUBSET Files /\ used[v] <= Bytes(RowsOf(v))
    BY DEF RowsOf, IInv, UsedNotAboveBytes
  <2>2. CASE v = u
    <3>1. RowsOf(v)' = RowsOf(v) \ fs
      BY <1>1, <1>2, <2>2 DEF RowsOf, Exists
    <3>2. Bytes(RowsOf(v)) - Bytes(fs) <= Bytes(RowsOf(v) \ fs)
      BY <1>1, <2>1, BytesDifference
    <3>3. /\ Bytes(RowsOf(v)) \in Nat /\ Bytes(RowsOf(v) \ fs) \in Nat
          /\ used[v] \in Int
      BY <1>1, <2>1, ContentFinite DEF IInv, TypeOK
    <3> QED
      BY <1>1, <1>3, <2>1, <2>2, <3>1, <3>2, <3>3
  <2>3. CASE v # u
    <3>1. RowsOf(v)' = RowsOf(v)
      BY <1>1, <1>2, <2>3 DEF RowsOf, Exists
    <3> QED
      BY <1>3, <2>1, <2>3, <3>1
  <2> QED
    BY <2>2, <2>3
<1> QED
  BY <1>5, <1>6, <1>7, <1>8, <1>9 DEF IInv

LEMMA ContinueStep ==
    ASSUME IInv, TypeOK', NEW r \in Reqs, Continue(r)
    PROVE  IInv'
<1> USE DEF At, db, Exists, Uploading, Deleting
<1>1. ASSUME NEW f \in Files, PutObject(r, f) PROVE IInv'
  <2>1. /\ req[r].pc = "put" /\ req'[r].pc \in {"put", "begin"}
        /\ req'[r].user = req[r].user /\ req'[r].fs = req[r].fs /\ req'[r].dir = req[r].dir
        /\ \A q \in Reqs \ {r} : req'[q] = req[q]
    <3> DEFINE done == req[r].done \cup {f}
               pc   == IF done = req[r].fs THEN "begin" ELSE "put"
    <3>1. req' = [req EXCEPT ![r] = [req[r] EXCEPT !.done = done, !.pc = pc]]
      BY <1>1 DEF PutObject
    <3>2. req \in [Reqs -> Request] /\ req[r] \in Request /\ req[r].pc = "put"
      BY <1>1 DEF PutObject, IInv, TypeOK
    <3>3. pc \in {"put", "begin"}
      OBVIOUS
    <3> HIDE DEF done, pc
    <3> QED
      BY <3>1, <3>2, <3>3 DEF Request
  <2>2. UNCHANGED <<row, dir, link, used, filesCount, lock>>
    BY <1>1 DEF PutObject
  <2>3. /\ req'[r].user \in Users /\ req'[r].dir \in Dirs
        /\ \A x \in req'[r].fs : row[x] = "none" /\ Owner[x] = req'[r].user
        /\ \A q \in Reqs \ {r} :
              req[q].pc \in Uploading => req'[r].fs \cap req[q].fs = {}
    BY <2>1 DEF IInv, UploadsFresh
  <2>4. \A x \in Files : /\ Exists(x)' <=> Exists(x)
                         /\ row'[x] = "none" <=> row[x] = "none"
    BY <2>2
  <2>5. req'[r].pc # "insert" /\ req'[r].pc \notin Deleting
    BY <2>1
  <2> HIDE DEF Uploading, Deleting, Exists
  <2> QED
    BY <2>1, <2>2, <2>3, <2>4, <2>5, RequestStep
<1>2. ASSUME NEW f \in Files, PutFails(r, f) PROVE IInv'
  <2>1. req'[r].pc = "cleanup" /\ \A q \in Reqs \ {r} : req'[q] = req[q]
    BY <1>2 DEF PutFails, Goto, IInv, TypeOK, Request
  <2> QED
    BY <1>2, <2>1, RequestStep DEF PutFails
<1>3. ASSUME NEW f \in Files, CleanupObject(r, f) PROVE IInv'
  <2>1. req'[r].pc = "cleanup" /\ \A q \in Reqs \ {r} : req'[q] = req[q]
    BY <1>3 DEF CleanupObject, IInv, TypeOK, Request
  <2> QED
    BY <1>3, <2>1, RequestStep DEF CleanupObject
<1>4. ASSUME NEW f \in Files, DeleteObject(r, f) PROVE IInv'
  <2>1. /\ req[r].pc = "delObject" /\ req'[r].pc \in {"delObject", "delCommit"}
        /\ req'[r].user = req[r].user /\ req'[r].fs = req[r].fs /\ req'[r].dir = req[r].dir
        /\ req'[r].live = req[r].live
        /\ \A q \in Reqs \ {r} : req'[q] = req[q]
    BY <1>4 DEF DeleteObject, IInv, TypeOK, Request
  <2>2. /\ UNCHANGED <<row, dir, link, used, filesCount, lock>>
        /\ req'[r].pc \notin Uploading
    BY <1>4, <2>1 DEF DeleteObject
  <2>3. /\ req[r].pc \in Deleting
        /\ req[r].user \in Users
        /\ \A x \in req[r].fs : row[x] # "none" /\ Owner[x] = req[r].user
        /\ req[r].live => req[r].dir \in Dirs
        /\ req'[r].pc # "insert"
    BY <2>1 DEF IInv, DeletesOwned
  <2>4. \A x \in Files : /\ Exists(x)' <=> Exists(x)
                         /\ row'[x] = "none" <=> row[x] = "none"
    BY <2>2
  <2> HIDE DEF Exists
  <2> QED
    BY <2>1, <2>2, <2>3, <2>4, RequestStep
<1>5. CASE GetUserStorage(r)
  <2>1. /\ req[r].pc = "begin" /\ req'[r].pc \in {"cleanup", "insert"}
        /\ req'[r].user = req[r].user /\ req'[r].fs = req[r].fs /\ req'[r].dir = req[r].dir
        /\ \A q \in Reqs \ {r} : req'[q] = req[q]
        /\ req'[r].pc = "insert" =>
             ~ (used[req[r].user] + Bytes(req[r].fs) > Quota[req[r].user])
    BY <1>5 DEF GetUserStorage, Goto, IInv, TypeOK, Request
  <2>2. UploadsFresh
    BY DEF IInv
  <2>3. /\ req[r].user \in Users /\ used[req[r].user] \in Int
        /\ Quota[req[r].user] \in Nat /\ Bytes(req[r].fs) \in Nat
    BY <2>1, <2>2, ConstantsOK, ContentFinite DEF UploadsFresh, IInv, TypeOK, Request
  <2>4. req'[r].pc = "insert" =>
            used[req[r].user] + Bytes(req[r].fs) <= Quota[req[r].user]
    BY <2>1, <2>3
  <2>5. lock[req[r].user] = None /\ lock' = [lock EXCEPT ![req[r].user] = r]
    BY <1>5 DEF GetUserStorage
  <2>6. /\ lock'[req[r].user] = r
        /\ \A v \in Users : lock[v] \in Reqs \ {r} => lock'[v] = lock[v]
    BY <2>3, <2>5, ConstantsOK DEF IInv, TypeOK
  <2> QED
    BY <1>5, <2>1, <2>2, <2>4, <2>6, RequestStep DEF GetUserStorage, UploadsFresh
<1>6. CASE CommitUpload(r)
  <2>1. req'[r].pc = "idle" /\ \A q \in Reqs \ {r} : req'[q] = req[q]
    BY <1>6 DEF CommitUpload, Return, Idle, IInv, TypeOK
  <2> QED
    BY <1>6, <2>1, InsertedStep DEF CommitUpload
<1>7. CASE CommitUploadAckLost(r)
  <2>1. req'[r].pc = "cleanup" /\ \A q \in Reqs \ {r} : req'[q] = req[q]
    BY <1>7 DEF CommitUploadAckLost, Goto, IInv, TypeOK, Request
  <2> QED
    BY <1>7, <2>1, InsertedStep DEF CommitUploadAckLost
<1>8. CASE UploadTxFails(r) \/ SourceGone(r)
  <2>1. req'[r].pc = "cleanup" /\ \A q \in Reqs \ {r} : req'[q] = req[q]
    BY <1>8 DEF UploadTxFails, SourceGone, Goto, IInv, TypeOK, Request
  <2> QED
    BY <1>8, <2>1, RequestStep DEF UploadTxFails, SourceGone
<1>9. CASE CleanupEnd(r)
  <2>1. req'[r].pc = "idle" /\ \A q \in Reqs \ {r} : req'[q] = req[q]
    BY <1>9 DEF CleanupEnd, Return, Idle, IInv, TypeOK
  <2> QED
    BY <1>9, <2>1, RequestStep DEF CleanupEnd, Unlocked
<1>10. CASE SoftDeleteFile(r)
  <2>1. req'[r].pc = "countDown" /\ \A q \in Reqs \ {r} : req'[q] = req[q]
    BY <1>10 DEF SoftDeleteFile, Goto, IInv, TypeOK, Request
  <2> QED
    BY <1>10, <2>1, RequestStep DEF SoftDeleteFile
<1>11. CASE RestoreFile(r)
  <2>1. req'[r].pc = "countUp" /\ \A q \in Reqs \ {r} : req'[q] = req[q]
    BY <1>11 DEF RestoreFile, Goto, IInv, TypeOK, Request
  <2> QED
    BY <1>11, <2>1, RequestStep DEF RestoreFile
<1>12. CASE IncrementFilesCount(r)
  <2>1. req'[r].pc \in {"linksOff", "linksOn"} /\ \A q \in Reqs \ {r} : req'[q] = req[q]
    BY <1>12 DEF IncrementFilesCount, Goto, IInv, TypeOK, Request
  <2> QED
    BY <1>12, <2>1, RequestStep DEF IncrementFilesCount
<1>13. CASE SetActiveByFileIDs(r)
  <2>1. req'[r].pc = "idle" /\ \A q \in Reqs \ {r} : req'[q] = req[q]
    BY <1>13 DEF SetActiveByFileIDs, Return, Idle, IInv, TypeOK
  <2> QED
    BY <1>13, <2>1, RequestStep DEF SetActiveByFileIDs
<1>14. CASE StatementFails(r)
  <2>1. req'[r].pc = "idle" /\ \A q \in Reqs \ {r} : req'[q] = req[q]
    BY <1>14 DEF StatementFails, Return, Idle, IInv, TypeOK
  <2> QED
    BY <1>14, <2>1, RequestStep DEF StatementFails
<1>15. CASE DeleteRows(r)
  <2>1. /\ req[r].pc = "delTx" /\ req'[r].pc = "delObject"
        /\ req'[r].user = req[r].user /\ req'[r].fs = req[r].fs /\ req'[r].dir = req[r].dir
        /\ req'[r].live = req[r].live
        /\ \A q \in Reqs \ {r} : req'[q] = req[q]
    BY <1>15 DEF DeleteRows, Goto, IInv, TypeOK, Request
  <2>2. DeletesOwned
    BY DEF IInv
  <2>3. \A v \in Users : lock[v] \in Reqs \ {r} => lock'[v] = lock[v]
    BY <1>15, ConstantsOK DEF DeleteRows, IInv, TypeOK
  <2> QED
    BY <1>15, <2>1, <2>2, <2>3, RequestStep DEF DeleteRows, DeletesOwned
<1>16. CASE CommitDelete(r)
  BY <1>16, CommitDeleteStep
<1>17. CASE DeleteFails(r)
  <2>1. req'[r].pc = "idle" /\ \A q \in Reqs \ {r} : req'[q] = req[q]
    BY <1>17 DEF DeleteFails, Return, Idle, IInv, TypeOK
  <2> QED
    BY <1>17, <2>1, RequestStep DEF DeleteFails, Unlocked
<1> QED
  BY <1>1, <1>2, <1>3, <1>4, <1>5, <1>6, <1>7, <1>8, <1>9, <1>10, <1>11, <1>12,
     <1>13, <1>14, <1>15, <1>16, <1>17 DEF Continue, Proceed, Fails

\* Steps that leave every row in existence and move no bytes, of no request.
LEMMA OtherStep ==
    ASSUME IInv, TypeOK', used' = used,
           \A f \in Files : /\ Exists(f)' <=> Exists(f)
                            /\ row'[f] = "none" <=> row[f] = "none",
           \/ UNCHANGED <<req, lock>>
           \/ \A r \in Reqs : req'[r].pc = "idle"
    PROVE  IInv'
<1>1. \A q \in Reqs : req[q].fs \in SUBSET Files
  BY DEF IInv, TypeOK, Request
<1>2. UploadsFresh' /\ DeletesOwned'
  BY <1>1 DEF IInv, UploadsFresh, DeletesOwned, Uploading, Deleting
<1>3. Reserved'
  BY DEF IInv, Reserved, Bytes, Content
<1>4. QuotaHeld'
  BY DEF IInv, QuotaHeld
<1>5. \A u \in Users : RowsOf(u)' = RowsOf(u)
  BY DEF RowsOf
<1>6. UsedNotAboveBytes'
  BY <1>5 DEF IInv, UsedNotAboveBytes, Bytes, Content
<1> QED
  BY <1>2, <1>3, <1>4, <1>6 DEF IInv

LEMMA IInvNext == IInv /\ [Next]_vars => IInv'
<1> SUFFICES ASSUME IInv, [Next]_vars PROVE IInv'
  OBVIOUS
<1>1. TypeOK'
  BY TypeNext DEF IInv
<1>2. ASSUME NEW r \in Reqs, Start(r) PROVE IInv'
  BY <1>1, <1>2, StartStep
<1>3. ASSUME NEW r \in Reqs, Continue(r) PROVE IInv'
  BY <1>1, <1>3, ContinueStep
<1>4. ASSUME NEW f \in Files, NEW d \in Dirs, MoveFile(f, d) PROVE IInv'
  BY <1>1, <1>4, OtherStep DEF MoveFile, Exists
<1>5. ASSUME NEW f \in Files, CreateLink(f) PROVE IInv'
  BY <1>1, <1>5, OtherStep DEF CreateLink, Exists
<1>6. CASE Crash
  <2>1. \A r \in Reqs : req'[r].pc = "idle"
    BY <1>6 DEF Crash, Idle
  <2> QED
    BY <1>1, <1>6, <2>1, OtherStep DEF Crash, db, Exists
<1>7. CASE UNCHANGED vars
  BY <1>1, <1>7, OtherStep DEF vars, Exists
<1> QED
  BY <1>2, <1>3, <1>4, <1>5, <1>6, <1>7 DEF Next

LEMMA Invariance == Spec => []IInv
  BY IInvInit, IInvNext, PTL DEF Spec

-----------------------------------------------------------------------------
(* Rows and objects, where nothing is lost half way: only a put or a       *)
(* statement fails, and the handlers undo both.                            *)

Storing == {"put", "begin", "insert", "cleanup"}

\* A request that stores objects works on ids of its own, which have no row
\* yet; the objects it has stored are there until it cleans up.
StoresOwn ==
    \A r \in Reqs : req[r].pc \in Storing =>
        /\ req[r].done \subseteq req[r].fs
        /\ \A f \in req[r].fs : row[f] = "none"
        /\ \A q \in Reqs \ {r} :
              req[q].pc \in Storing => req[r].fs \cap req[q].fs = {}
        /\ req[r].pc # "cleanup" => req[r].done \subseteq objects
        /\ req[r].pc \in {"begin", "insert"} => req[r].done = req[r].fs

\* A deletion has deleted the objects that are not left to delete: none before
\* its transaction, all of them when it commits.
ErasesOwn ==
    \A r \in Reqs : req[r].pc \in Deleting =>
        /\ req[r].done \subseteq req[r].fs
        /\ (req[r].fs \ req[r].done) \cap objects = {}
        /\ req[r].pc = "delCommit" => req[r].done = {}

\* A row has its object, or a deletion that is sure to commit has the row.
RowsKept ==
    \A f \in Files : Exists(f) =>
        \/ f \in objects
        \/ \E r \in Reqs : req[r].pc \in {"delObject", "delCommit"} /\ f \in req[r].fs

\* An object has its row, or the request that stored it still counts it.
ObjectsKept ==
    \A f \in objects :
        \/ Exists(f)
        \/ \E r \in Reqs : req[r].pc \in Storing /\ f \in req[r].done

PairInv == StoresOwn /\ ErasesOwn /\ RowsKept /\ ObjectsKept

LEMMA PairInit == Init => PairInv
  BY DEF Init, Idle, Storing, Deleting, Exists,
     PairInv, StoresOwn, ErasesOwn, RowsKept, ObjectsKept

\* A step of one request that changes no row and no object: what it must know
\* of the request to keep the pairing.
LEMMA KeepsPairs ==
    ASSUME TypeOK, TypeOK', PairInv, NEW r \in Reqs,
           \A q \in Reqs \ {r} : req'[q] = req[q],
           objects' = objects,
           \A f \in Files : /\ Exists(f)' <=> Exists(f)
                            /\ row'[f] = "none" <=> row[f] = "none",
           req[r].pc \in {"delObject", "delCommit"} =>
               req'[r].pc \in {"delObject", "delCommit"} /\ req'[r].fs = req[r].fs,
           req[r].pc \in Storing /\ req[r].done # {} =>
               req'[r].pc \in Storing /\ req'[r].done = req[r].done,
           req'[r].pc \in Storing =>
               /\ req'[r].done \subseteq req'[r].fs
               /\ \A f \in req'[r].fs : row[f] = "none"
               /\ \A q \in Reqs \ {r} :
                     req[q].pc \in Storing => req'[r].fs \cap req[q].fs = {}
               /\ req'[r].pc # "cleanup" => req'[r].done \subseteq objects
               /\ req'[r].pc \in {"begin", "insert"} => req'[r].done = req'[r].fs,
           req'[r].pc \in Deleting =>
               /\ req'[r].done \subseteq req'[r].fs
               /\ (req'[r].fs \ req'[r].done) \cap objects = {}
               /\ req'[r].pc = "delCommit" => req'[r].done = {}
    PROVE  PairInv'
<1> USE DEF PairInv
<1>1. \A q \in Reqs : req[q].fs \in SUBSET Files /\ req'[q].fs \in SUBSET Files
  BY DEF TypeOK, Request
<1>2. StoresOwn'
  BY <1>1 DEF StoresOwn
<1>3. ErasesOwn'
  BY DEF ErasesOwn
<1>4. RowsKept'
  BY DEF RowsKept
<1>5. ObjectsKept'
  BY DEF ObjectsKept, TypeOK
<1> QED
  BY <1>2, <1>3, <1>4, <1>5

LEMMA PairStart ==
    ASSUME TypeOK, TypeOK', PairInv, NEW r \in Reqs, Start(r)
    PROVE  PairInv'
<1> USE DEF At, db, Exists
<1>1. ASSUME NEW d \in Dirs, NEW fs \in SUBSET Files, Upload(r, d, fs) PROVE PairInv'
  <2>1. /\ req[r].pc = "idle" /\ req'[r].pc = "put"
        /\ req'[r].fs = fs /\ req'[r].done = {}
        /\ \A q \in Reqs \ {r} : req'[q] = req[q]
    BY <1>1 DEF Upload, TypeOK, Idle
  <2>2. /\ \A f \in fs : row[f] = "none"
        /\ \A q \in Reqs : fs \cap req[q].fs = {}
    BY <1>1 DEF Upload, Fresh
  <2>3. UNCHANGED <<row, objects>>
    BY <1>1 DEF Upload
  <2> QED
    BY <2>1, <2>2, <2>3, KeepsPairs DEF Deleting, Storing
<1>2. ASSUME NEW s \in Files, NEW f \in Files, ConvertAndSave(r, s, f) PROVE PairInv'
  <2>1. /\ req[r].pc = "idle" /\ req'[r].pc = "put"
        /\ req'[r].fs = {f} /\ req'[r].done = {}
        /\ \A q \in Reqs \ {r} : req'[q] = req[q]
    BY <1>2 DEF ConvertAndSave, TypeOK, Idle
  <2>2. row[f] = "none" /\ \A q \in Reqs : {f} \cap req[q].fs = {}
    BY <1>2 DEF ConvertAndSave, Fresh
  <2>3. UNCHANGED <<row, objects>>
    BY <1>2 DEF ConvertAndSave
  <2> QED
    BY <2>1, <2>2, <2>3, KeepsPairs DEF Deleting, Storing
<1>3. ASSUME NEW f \in Files, SoftDelete(r, f) \/ Restore(r, f) PROVE PairInv'
  <2>1. /\ req[r].pc = "idle" /\ req'[r].pc \in {"trash", "restore"}
        /\ \A q \in Reqs \ {r} : req'[q] = req[q]
    BY <1>3 DEF SoftDelete, Restore, TypeOK, Idle
  <2>2. UNCHANGED <<row, objects>>
    BY <1>3 DEF SoftDelete, Restore
  <2> QED
    BY <2>1, <2>2, KeepsPairs DEF Deleting, Storing
<1>4. ASSUME NEW f \in Files, PermanentDelete(r, f) PROVE PairInv'
  <2>1. /\ req[r].pc = "idle" /\ req'[r].pc = "delTx"
        /\ req'[r].fs = {f} /\ req'[r].done = {f}
        /\ \A q \in Reqs \ {r} : req'[q] = req[q]
    BY <1>4 DEF PermanentDelete, TypeOK, Idle
  <2>2. UNCHANGED <<row, objects>>
    BY <1>4 DEF PermanentDelete
  <2> QED
    BY <2>1, <2>2, KeepsPairs DEF Deleting, Storing
<1>5. ASSUME NEW u \in Users, NEW fs \in SUBSET Files, ClearTrash(r, u, fs) PROVE PairInv'
  <2>1. /\ req[r].pc = "idle" /\ req'[r].pc = "delTx"
        /\ req'[r].fs = fs /\ req'[r].done = fs
        /\ \A q \in Reqs \ {r} : req'[q] = req[q]
    BY <1>5 DEF ClearTrash, TypeOK, Idle
  <2>2. UNCHANGED <<row, objects>>
    BY <1>5 DEF ClearTrash
  <2> QED
    BY <2>1, <2>2, KeepsPairs DEF Deleting, Storing
<1> QED
  BY <1>1, <1>2, <1>3, <1>4, <1>5 DEF Start

\* The object of an upload in progress.
LEMMA PairPut ==
    ASSUME IInv, TypeOK', PairInv, NEW r \in Reqs, NEW f \in Files, PutObject(r, f)
    PROVE  PairInv'
<1> USE DEF PairInv
<1> DEFINE done == req[r].done \cup {f}
           pc   == IF done = req[r].fs THEN "begin" ELSE "put"
<1>1. req' = [req EXCEPT ![r] = [req[r] EXCEPT !.done = done, !.pc = pc]]
  BY DEF PutObject
<1>2. /\ req[r].pc = "put" /\ f \in req[r].fs
      /\ row' = row /\ objects' = objects \cup {f}
  BY DEF PutObject, At, db
<1>3. /\ pc \in {"put", "begin"} /\ (pc = "begin" => done = req[r].fs)
  OBVIOUS
<1>4. /\ req'[r].pc = pc /\ req'[r].done = done /\ req'[r].fs = req[r].fs
      /\ \A q \in Reqs \ {r} : req'[q] = req[q]
  <2> HIDE DEF done, pc
  <2> QED
    BY <1>1, <1>2 DEF IInv, TypeOK, Request
<1>5. \A q \in Reqs : req[q].fs \in SUBSET Files
  BY DEF IInv, TypeOK, Request
<1>6. row[f] = "none" /\ \A q \in Reqs : req[q].pc \in Deleting => f \notin req[q].fs
  BY <1>2 DEF StoresOwn, Storing, DeletesOwned, IInv
<1>7. StoresOwn'
  <2>1. /\ done \subseteq req[r].fs /\ done \subseteq objects'
        /\ \A x \in req[r].fs : row[x] = "none"
        /\ \A q \in Reqs \ {r} :
              req[q].pc \in Storing => req[r].fs \cap req[q].fs = {}
    BY <1>2 DEF StoresOwn, Storing
  <2> HIDE DEF done, pc
  <2>2. ASSUME NEW q \in Reqs, q # r, req[q].pc \in Storing
        PROVE  /\ req[q].done \subseteq req[q].fs
               /\ \A x \in req[q].fs : row[x] = "none"
               /\ \A p \in Reqs \ {q} :
                     req'[p].pc \in Storing => req[q].fs \cap req'[p].fs = {}
               /\ req[q].pc # "cleanup" => req[q].done \subseteq objects'
               /\ req[q].pc \in {"begin", "insert"} => req[q].done = req[q].fs
    <3>1. /\ req[q].done \subseteq req[q].fs
          /\ \A x \in req[q].fs : row[x] = "none"
          /\ \A p \in Reqs \ {q} :
                req[p].pc \in Storing => req[q].fs \cap req[p].fs = {}
          /\ req[q].pc # "cleanup" => req[q].done \subseteq objects
          /\ req[q].pc \in {"begin", "insert"} => req[q].done = req[q].fs
      BY <2>2 DEF StoresOwn
    <3>2. req[r].pc \in Storing
      BY <1>2 DEF Storing
    <3> QED
      BY <1>2, <1>4, <3>1, <3>2
  <2> QED
    BY <1>2, <1>3, <1>4, <2>1, <2>2 DEF StoresOwn, Storing
<1>8. ErasesOwn'
  BY <1>2, <1>3, <1>4, <1>6 DEF ErasesOwn, Deleting
<1>9. RowsKept'
  BY <1>2, <1>3, <1>4 DEF RowsKept, Exists
<1>10. ObjectsKept'
  BY <1>2, <1>3, <1>4 DEF ObjectsKept, Exists, Storing
<1> QED
  BY <1>7, <1>8, <1>9, <1>10

\* The object of a failed upload: nothing else can have it.
LEMMA PairCleanup ==
    ASSUME IInv, TypeOK', PairInv, NEW r \in Reqs, NEW f \in Files,
           CleanupObject(r, f), ~Fault("del")
    PROVE  PairInv'
<1> USE DEF PairInv
<1>1. /\ req[r].pc = "cleanup" /\ f \in req[r].done
      /\ row' = row /\ objects' = objects \ {f}
  BY DEF CleanupObject, At, db
<1>2. /\ req'[r].pc = "cleanup" /\ req'[r].done = req[r].done \ {f}
      /\ req'[r].fs = req[r].fs
      /\ \A q \in Reqs \ {r} : req'[q] = req[q]
  BY <1>1 DEF CleanupObject, IInv, TypeOK, Request
<1>3. \A q \in Reqs : req[q].fs \in SUBSET Files
  BY DEF IInv, TypeOK, Request
<1>4. f \in req[r].fs /\ row[f] = "none"
  BY <1>1 DEF StoresOwn, Storing
<1>5. \A q \in Reqs \ {r} : req[q].pc \in Storing => f \notin req[q].fs
  BY <1>1, <1>4 DEF StoresOwn, Storing
<1>6. StoresOwn'
  BY <1>1, <1>2, <1>3, <1>5 DEF StoresOwn, Storing
<1>7. ErasesOwn'
  BY <1>1, <1>2 DEF ErasesOwn, Deleting
<1>8. RowsKept'
  BY <1>1, <1>2, <1>4 DEF RowsKept, Exists
<1>9. ObjectsKept'
  BY <1>1, <1>2 DEF ObjectsKept, Exists
<1> QED
  BY <1>6, <1>7, <1>8, <1>9

\* The object of a file that is being deleted.
LEMMA PairDelete ==
    ASSUME IInv, TypeOK', PairInv, NEW r \in Reqs, NEW f \in Files, DeleteObject(r, f)
    PROVE  PairInv'
<1> USE DEF PairInv
<1> DEFINE left == req[r].done \ {f}
           pc   == IF left = {} THEN "delCommit" ELSE "delObject"
<1>1. req' = [req EXCEPT ![r] = [req[r] EXCEPT !.done = left, !.pc = pc]]
  BY DEF DeleteObject
<1>2. /\ req[r].pc = "delObject" /\ f \in req[r].done
      /\ row' = row /\ objects' = objects \ {f}
  BY DEF DeleteObject, At, db
<1>3. /\ pc \in {"delObject", "delCommit"} /\ (pc = "delCommit" => left = {})
  OBVIOUS
<1>4. /\ req'[r].pc = pc /\ req'[r].done = left /\ req'[r].fs = req[r].fs
      /\ \A q \in Reqs \ {r} : req'[q] = req[q]
  <2> HIDE DEF left, pc
  <2> QED
    BY <1>1, <1>2 DEF IInv, TypeOK, Request
<1> HIDE DEF left, pc
<1>5. f \in req[r].fs /\ req[r].done \subseteq req[r].fs /\ row[f] # "none"
  BY <1>2 DEF ErasesOwn, IInv, DeletesOwned, Deleting
<1>6. \A q \in Reqs : req[q].pc \in Storing => f \notin req[q].fs /\ f \notin req[q].done
  BY <1>5 DEF StoresOwn
<1>7. \A q \in Reqs \ {r} : req'[q] = req[q]
  BY <1>4
<1>8. req'[r].pc \in Deleting /\ req'[r].pc \notin Storing
  BY <1>3, <1>4 DEF Deleting, Storing
<1>9. StoresOwn'
  BY <1>2, <1>6, <1>7, <1>8 DEF StoresOwn
<1>10. ErasesOwn'
  <2>1. /\ left \subseteq req[r].fs
        /\ (req[r].fs \ left) \cap objects' = {}
    BY <1>2, <1>5 DEF left, ErasesOwn, Deleting
  <2> QED
    BY <1>2, <1>3, <1>4, <2>1 DEF ErasesOwn
<1>11. RowsKept'
  <2>1. req[r].pc \in {"delObject", "delCommit"} /\ req'[r].pc \in {"delObject", "delCommit"}
    BY <1>2, <1>3, <1>4
  <2>2. \A q \in Reqs : req[q].pc \in {"delObject", "delCommit"} =>
           req'[q].pc \in {"delObject", "delCommit"} /\ req'[q].fs = req[q].fs
    BY <1>4, <2>1
  <2> HIDE DEF pc
  <2> QED
    BY <1>2, <1>4, <1>5, <2>1, <2>2 DEF RowsKept, Exists
<1>12. ObjectsKept'
  <2>1. \A q \in Reqs : req[q].pc \in Storing =>
           req'[q].pc \in Storing /\ req'[q].done = req[q].done
    BY <1>2, <1>7 DEF Storing
  <2> QED
    BY <1>2, <2>1 DEF ObjectsKept, Exists
<1> QED
  BY <1>9, <1>10, <1>11, <1>12

\* The rows of an upload appear when all their objects are there.
LEMMA PairInserted ==
    ASSUME IInv, TypeOK', PairInv, NEW r \in Reqs, CommitUpload(r)
    PROVE  PairInv'
<1> USE DEF PairInv
<1>1. /\ req[r].pc = "insert" /\ objects' = objects
      /\ row' = [f \in Files |-> IF f \in req[r].fs THEN "alive" ELSE row[f]]
  BY DEF CommitUpload, Inserted, At
<1>2. req'[r].pc = "idle" /\ \A q \in Reqs \ {r} : req'[q] = req[q]
  BY DEF CommitUpload, Return, Idle, IInv, TypeOK
<1>3. \A q \in Reqs : req[q].fs \in SUBSET Files
  BY DEF IInv, TypeOK, Request
<1>4. /\ req[r].done = req[r].fs /\ req[r].fs \subseteq objects
      /\ \A q \in Reqs \ {r} : req[q].pc \in Storing => req[q].fs \cap req[r].fs = {}
  BY <1>1 DEF StoresOwn, Storing
<1>5. /\ \A f \in req[r].fs : row'[f] = "alive"
      /\ \A f \in Files \ req[r].fs : row'[f] = row[f]
  BY <1>1, <1>3
<1>6. req'[r].pc \notin Storing /\ req'[r].pc \notin Deleting
  BY <1>2 DEF Storing, Deleting
<1>7. StoresOwn'
  BY <1>1, <1>2, <1>3, <1>4, <1>5, <1>6 DEF StoresOwn
<1>8. ErasesOwn'
  BY <1>1, <1>2, <1>6 DEF ErasesOwn
<1>9. RowsKept'
  BY <1>1, <1>2, <1>4, <1>5 DEF RowsKept, Exists
<1>10. ObjectsKept'
  BY <1>1, <1>2, <1>4, <1>5 DEF ObjectsKept, Exists, IInv, TypeOK
<1> QED
  BY <1>7, <1>8, <1>9, <1>10

\* The rows of a deletion go when all their objects are gone.
LEMMA PairErased ==
    ASSUME IInv, TypeOK', PairInv, NEW r \in Reqs, CommitDelete(r)
    PROVE  PairInv'
<1> USE DEF PairInv
<1>1. /\ req[r].pc = "delCommit" /\ objects' = objects
      /\ row' = [f \in Files |-> IF f \in req[r].fs THEN "gone" ELSE row[f]]
  BY DEF CommitDelete, At
<1>2. req'[r].pc = "idle" /\ \A q \in Reqs \ {r} : req'[q] = req[q]
  BY DEF CommitDelete, Return, Idle, IInv, TypeOK
<1>3. \A q \in Reqs : req[q].fs \in SUBSET Files
  BY DEF IInv, TypeOK, Request
<1>4. /\ req[r].fs \cap objects = {}
      /\ \A f \in req[r].fs : row[f] # "none"
  BY <1>1 DEF ErasesOwn, Deleting, IInv, DeletesOwned
<1>5. /\ \A f \in req[r].fs : row'[f] = "gone"
      /\ \A f \in Files \ req[r].fs : row'[f] = row[f]
  BY <1>1, <1>3
<1>6. req'[r].pc \notin Storing /\ req'[r].pc \notin Deleting
  BY <1>2 DEF Storing, Deleting
<1>7. \A q \in Reqs : req[q].pc \in Storing => req[q].fs \cap req[r].fs = {}
  BY <1>4 DEF StoresOwn
<1>8. StoresOwn'
  BY <1>1, <1>2, <1>3, <1>5, <1>6, <1>7 DEF StoresOwn
<1>9. ErasesOwn'
  BY <1>1, <1>2, <1>6 DEF ErasesOwn
<1>10. RowsKept'
  BY <1>1, <1>2, <1>5 DEF RowsKept, Exists
<1>11. ObjectsKept'
  <2>1. \A q \in Reqs : req[q].pc \in Storing => q # r
    BY <1>1 DEF Storing
  <2> QED
    BY <1>1, <1>2, <1>4, <1>5, <2>1 DEF ObjectsKept, Exists, IInv, TypeOK
<1> QED
  BY <1>8, <1>9, <1>10, <1>11

LEMMA PairContinue ==
    ASSUME IInv, TypeOK', PairInv, NEW r \in Reqs, Continue(r),
           Faults \subseteq {"put", "stmt"}
    PROVE  PairInv'
<1> USE DEF At, db, Exists, IInv
<1>1. \A kind \in {"putLost", "del", "commit", "ackLost", "crash"} : ~Fault(kind)
  BY DEF Fault
<1>2. req[r] \in Request /\ req[r].fs \in SUBSET Files
  BY DEF TypeOK, Request
<1>3. ASSUME NEW f \in Files, PutObject(r, f) PROVE PairInv'
  BY <1>3, PairPut
<1>4. ASSUME NEW f \in Files, PutFails(r, f) PROVE PairInv'
  <2>1. /\ req[r].pc = "put" /\ req'[r].pc = "cleanup"
        /\ req'[r].fs = req[r].fs /\ req'[r].done = req[r].done
        /\ \A q \in Reqs \ {r} : req'[q] = req[q]
        /\ UNCHANGED <<row, objects>>
    BY <1>1, <1>4 DEF PutFails, Goto, TypeOK, Request
  <2> QED
    BY <2>1, KeepsPairs DEF PairInv, StoresOwn, Storing, Deleting
<1>5. ASSUME NEW f \in Files, CleanupObject(r, f) PROVE PairInv'
  BY <1>1, <1>5, PairCleanup
<1>6. ASSUME NEW f \in Files, DeleteObject(r, f) PROVE PairInv'
  BY <1>6, PairDelete
<1>7. CASE GetUserStorage(r)
  <2>1. /\ req[r].pc = "begin" /\ req'[r].pc \in {"cleanup", "insert"}
        /\ req'[r].fs = req[r].fs /\ req'[r].done = req[r].done
        /\ \A q \in Reqs \ {r} : req'[q] = req[q]
        /\ UNCHANGED <<row, objects>>
    BY <1>7 DEF GetUserStorage, Goto, TypeOK, Request
  <2> QED
    BY <2>1, KeepsPairs DEF PairInv, StoresOwn, Storing, Deleting
<1>8. CASE CommitUpload(r)
  BY <1>8, PairInserted
<1>9. CASE UploadTxFails(r) \/ SourceGone(r)
  <2>1. /\ req[r].pc \in {"begin", "insert"} /\ req'[r].pc = "cleanup"
        /\ req'[r].fs = req[r].fs /\ req'[r].done = req[r].done
        /\ \A q \in Reqs \ {r} : req'[q] = req[q]
        /\ UNCHANGED <<row, objects>>
    BY <1>9 DEF UploadTxFails, SourceGone, Goto, TypeOK, Request
  <2> QED
    BY <2>1, KeepsPairs DEF PairInv, StoresOwn, Storing, Deleting
<1>10. CASE CleanupEnd(r)
  <2>1. /\ req[r].pc = "cleanup" /\ req[r].done = {} /\ req'[r].pc = "idle"
        /\ \A q \in Reqs \ {r} : req'[q] = req[q]
        /\ UNCHANGED <<row, objects>>
    BY <1>10 DEF CleanupEnd, Return, Idle, TypeOK
  <2> QED
    BY <2>1, KeepsPairs DEF Storing, Deleting
<1>11. CASE SoftDeleteFile(r) \/ RestoreFile(r)
  <2>1. /\ req[r].pc \in {"trash", "restore"} /\ req'[r].pc \in {"countDown", "countUp"}
        /\ \A q \in Reqs \ {r} : req'[q] = req[q]
    BY <1>11 DEF SoftDeleteFile, RestoreFile, Goto, TypeOK, Request
  <2>2. /\ objects' = objects
        /\ \A f \in Files : /\ Exists(f)' <=> Exists(f)
                            /\ row'[f] = "none" <=> row[f] = "none"
    BY <1>11 DEF SoftDeleteFile, RestoreFile
  <2> QED
    BY <2>1, <2>2, KeepsPairs DEF Storing, Deleting
<1>12. CASE IncrementFilesCount(r) \/ SetActiveByFileIDs(r) \/ StatementFails(r)
  <2>1. /\ req[r].pc \in {"trash", "restore", "countDown", "countUp", "linksOff", "linksOn"}
        /\ req'[r].pc \in {"linksOff", "linksOn", "idle"}
        /\ \A q \in Reqs \ {r} : req'[q] = req[q]
    BY <1>12 DEF IncrementFilesCount, SetActiveByFileIDs, StatementFails, Goto, Return,
       Idle, TypeOK, Request
  <2>2. UNCHANGED <<row, objects>>
    BY <1>12 DEF IncrementFilesCount, SetActiveByFileIDs, StatementFails
  <2> QED
    BY <2>1, <2>2, KeepsPairs DEF Storing, Deleting
<1>13. CASE DeleteRows(r)
  <2>1. /\ req[r].pc = "delTx" /\ req'[r].pc = "delObject"
        /\ req'[r].fs = req[r].fs /\ req'[r].done = req[r].done
        /\ \A q \in Reqs \ {r} : req'[q] = req[q]
        /\ UNCHANGED <<row, objects>>
    BY <1>13 DEF DeleteRows, Goto, TypeOK, Request
  <2> QED
    BY <2>1, KeepsPairs DEF PairInv, ErasesOwn, Storing, Deleting
<1>14. CASE CommitDelete(r)
  BY <1>14, PairErased
<1>15. CASE DeleteFails(r)
  <2>1. /\ req[r].pc = "delTx" /\ req'[r].pc = "idle"
        /\ \A q \in Reqs \ {r} : req'[q] = req[q]
        /\ UNCHANGED <<row, objects>>
    BY <1>1, <1>15 DEF DeleteFails, Return, Idle, TypeOK
  <2> QED
    BY <2>1, KeepsPairs DEF Storing, Deleting
<1>16. ~CommitUploadAckLost(r)
  BY <1>1 DEF CommitUploadAckLost
<1> QED
  BY <1>3, <1>4, <1>5, <1>6, <1>7, <1>8, <1>9, <1>10, <1>11, <1>12, <1>13, <1>14,
     <1>15, <1>16 DEF Continue, Proceed, Fails

\* Steps of no request, which touch neither rows nor objects.
LEMMA PairOther ==
    ASSUME TypeOK, PairInv, objects' = objects, req' = req,
           \A f \in Files : /\ Exists(f)' <=> Exists(f)
                            /\ row'[f] = "none" <=> row[f] = "none"
    PROVE  PairInv'
  BY DEF TypeOK, Request, PairInv, StoresOwn, ErasesOwn, RowsKept, ObjectsKept

LEMMA PairNext ==
    ASSUME Faults \subseteq {"put", "stmt"}, IInv, TypeOK', PairInv, [Next]_vars
    PROVE  PairInv'
<1>1. TypeOK
  BY DEF IInv
<1>2. ASSUME NEW r \in Reqs, Start(r) PROVE PairInv'
  BY <1>1, <1>2, PairStart
<1>3. ASSUME NEW r \in Reqs, Continue(r) PROVE PairInv'
  BY <1>3, PairContinue
<1>4. ASSUME NEW f \in Files, NEW d \in Dirs, MoveFile(f, d) PROVE PairInv'
  BY <1>1, <1>4, PairOther DEF MoveFile, Exists
<1>5. ASSUME NEW f \in Files, CreateLink(f) PROVE PairInv'
  BY <1>1, <1>5, PairOther DEF CreateLink, Exists
<1>6. ~Crash
  BY DEF Crash, Fault
<1>7. CASE UNCHANGED vars
  BY <1>1, <1>7, PairOther DEF vars, Exists
<1> QED
  BY <1>2, <1>3, <1>4, <1>5, <1>6, <1>7 DEF Next

-----------------------------------------------------------------------------
(* One request at a time, and nothing fails: what it owes.                 *)

Trashing  == {"trash", "countDown", "linksOff"}
Restoring == {"restore", "countUp", "linksOn"}

OneRequest ==
    \A r, q \in Reqs : req[r].pc # "idle" /\ req[q].pc # "idle" => r = q

\* The rows are as the request has read them, or has written them since.
AsRead ==
    \A r \in Reqs :
        /\ req[r].pc \in Trashing \cup Restoring =>
               \E f \in Files : req[r].fs = {f} /\ dir[f] = req[r].dir
        /\ req[r].pc \in {"trash", "countUp", "linksOn"} =>
               \A f \in req[r].fs : row[f] = "alive"
        /\ req[r].pc \in {"restore", "countDown", "linksOff"} =>
               \A f \in req[r].fs : row[f] = "trashed"
        /\ req[r].pc \in Deleting =>
               \/ /\ req[r].live
                  /\ \E f \in Files :
                        req[r].fs = {f} /\ dir[f] = req[r].dir /\ row[f] = "alive"
               \/ ~req[r].live /\ \A f \in req[r].fs : row[f] = "trashed"

\* What files_count of d is ahead by, when q has changed a row and not yet the count.
Owed(q, d) ==
    IF d \notin Above[q.dir] THEN 0
    ELSE CASE q.pc = "countDown" -> 1 [] q.pc = "countUp" -> -1 [] OTHER -> 0

CountsOwed ==
    /\ (\A r \in Reqs : req[r].pc = "idle") =>
           \A d \in Dirs : filesCount[d] = Cardinality(Under(d))
    /\ \A r \in Reqs : req[r].pc # "idle" =>
           \A d \in Dirs : filesCount[d] = Cardinality(Under(d)) + Owed(req[r], d)

\* The links of a file whose row has changed are changed by the request that changed it.
LinksOwed ==
    \A f \in Files :
        /\ row[f] \in {"none", "gone"} => link[f] = "none"
        /\ row[f] = "alive" /\ link[f] = "off" =>
               \E r \in Reqs : req[r].pc \in {"countUp", "linksOn"} /\ f \in req[r].fs
        /\ row[f] = "trashed" /\ link[f] = "on" =>
               \E r \in Reqs : req[r].pc \in {"countDown", "linksOff"} /\ f \in req[r].fs

AloneInv == OneRequest /\ AsRead /\ CountsOwed /\ LinksOwed /\ UsedIsBytes

LEMMA UnderFinite ==
    ASSUME NEW d \in Dirs
    PROVE  IsFiniteSet(Under(d)) /\ Cardinality(Under(d)) \in Nat
<1>1. Under(d) \in SUBSET Files
  BY DEF Under
<1> QED
  BY <1>1, ConstantsOK, FS_Subset, FS_CardinalityType

LEMMA AloneInit == Init => AloneInv
<1> SUFFICES ASSUME Init PROVE AloneInv
  OBVIOUS
<1>1. OneRequest /\ AsRead /\ LinksOwed
  BY DEF Init, Idle, OneRequest, AsRead, LinksOwed, Trashing, Restoring, Deleting
<1>2. CountsOwed
  <2>1. \A d \in Dirs : Under(d) = {}
    BY DEF Init, Under
  <2> QED
    BY <2>1, FS_EmptySet DEF Init, Idle, CountsOwed
<1>3. UsedIsBytes
  <2>1. \A u \in Users : Content(RowsOf(u)) = {}
    BY DEF Init, RowsOf, Exists, Content
  <2> QED
    BY <2>1, FS_EmptySet DEF Init, UsedIsBytes, Bytes
<1> QED
  BY <1>1, <1>2, <1>3 DEF AloneInv

\* While a request is in progress there is no other, before and after its steps.
LEMMA OthersIdle ==
    ASSUME OneRequest, NEW r \in Reqs, req[r].pc # "idle"
    PROVE  \A q \in Reqs \ {r} : req[q].pc = "idle"
  BY DEF OneRequest

\* A step of the one request that leaves the database alone, on its way to no
\* other count or link.
LEMMA AloneKeeps ==
    ASSUME TypeOK, AloneInv, NEW r \in Reqs, UNCHANGED db,
           \A q \in Reqs \ {r} : req[q].pc = "idle" /\ req'[q] = req[q],
           req[r].pc  \notin {"countDown", "countUp", "linksOff", "linksOn"},
           req'[r].pc \notin {"countDown", "countUp", "linksOff", "linksOn"},
           req'[r].pc \in {"trash", "restore"} =>
               /\ \E f \in Files : req'[r].fs = {f} /\ dir[f] = req'[r].dir
               /\ \A f \in req'[r].fs : row[f] = IF req'[r].pc = "trash" THEN "alive" ELSE "trashed",
           req'[r].pc \in Deleting =>
               \/ /\ req'[r].live
                  /\ \E f \in Files :
                        req'[r].fs = {f} /\ dir[f] = req'[r].dir /\ row[f] = "alive"
               \/ ~req'[r].live /\ \A f \in req'[r].fs : row[f] = "trashed"
    PROVE  AloneInv'
<1> USE DEF AloneInv, db
<1>1. OneRequest'
  BY DEF OneRequest
<1>2. AsRead'
  BY DEF AsRead, Trashing, Restoring, Deleting
<1>3. CountsOwed'
  <2>1. \A d \in Dirs : Owed(req[r], d) = 0 /\ Owed(req'[r], d) = 0
    BY DEF Owed
  <2>2. \A d \in Dirs : Cardinality(Under(d)) \in Nat
    BY UnderFinite
  <2>3. \A d \in Dirs : filesCount[d] = Cardinality(Under(d))
    BY <2>1, <2>2 DEF CountsOwed
  <2>4. \A d \in Dirs : filesCount'[d] = Cardinality(Under(d)')
    BY <2>3 DEF Under
  <2>5. \A d \in Dirs : Owed(req[r], d)' = 0
    BY <2>1 DEF Owed
  <2> QED
    BY <2>2, <2>3, <2>4, <2>5 DEF CountsOwed, Under
<1>4. LinksOwed'
  BY DEF LinksOwed
<1>5. UsedIsBytes'
  <2>1. \A u \in Users : RowsOf(u)' = RowsOf(u)
    BY DEF RowsOf, Exists
  <2> QED
    BY <2>1 DEF UsedIsBytes, Bytes, Content
<1> QED
  BY <1>1, <1>2, <1>3, <1>4, <1>5

LEMMA AloneStart ==
    ASSUME TypeOK, AloneInv, alone, NEW r \in Reqs, Start(r)
    PROVE  AloneInv'
<1> USE DEF At
<1>1. \A q \in Reqs : req[q].pc = "idle"
  BY DEF Start, Quiet, Idle
<1>2. ASSUME NEW d \in Dirs, NEW fs \in SUBSET Files, Upload(r, d, fs) PROVE AloneInv'
  <2>1. /\ req'[r].pc = "put"
        /\ \A q \in Reqs \ {r} : req'[q] = req[q]
    BY <1>2 DEF Upload, TypeOK, Idle
  <2> QED
    BY <1>1, <1>2, <2>1, AloneKeeps DEF Upload, Deleting
<1>3. ASSUME NEW s \in Files, NEW f \in Files, ConvertAndSave(r, s, f) PROVE AloneInv'
  <2>1. /\ req'[r].pc = "put"
        /\ \A q \in Reqs \ {r} : req'[q] = req[q]
    BY <1>3 DEF ConvertAndSave, TypeOK, Idle
  <2> QED
    BY <1>1, <1>3, <2>1, AloneKeeps DEF ConvertAndSave, Deleting
<1>4. ASSUME NEW f \in Files, SoftDelete(r, f) PROVE AloneInv'
  <2>1. /\ req'[r].pc = "trash" /\ req'[r].fs = {f} /\ req'[r].dir = dir[f]
        /\ \A q \in Reqs \ {r} : req'[q] = req[q]
    BY <1>4 DEF SoftDelete, TypeOK, Idle
  <2> QED
    BY <1>1, <1>4, <2>1, AloneKeeps DEF SoftDelete, Deleting
<1>5. ASSUME NEW f \in Files, Restore(r, f) PROVE AloneInv'
  <2>1. /\ req'[r].pc = "restore" /\ req'[r].fs = {f} /\ req'[r].dir = dir[f]
        /\ \A q \in Reqs \ {r} : req'[q] = req[q]
    BY <1>5 DEF Restore, TypeOK, Idle
  <2> QED
    BY <1>1, <1>5, <2>1, AloneKeeps DEF Restore, Deleting
<1>6. ASSUME NEW f \in Files, PermanentDelete(r, f) PROVE AloneInv'
  <2>1. /\ req'[r].pc = "delTx" /\ req'[r].fs = {f} /\ req'[r].dir = dir[f]
        /\ req'[r].live = (row[f] = "alive")
        /\ \A q \in Reqs \ {r} : req'[q] = req[q]
    BY <1>6 DEF PermanentDelete, TypeOK, Idle
  <2>2. row[f] \in {"alive", "trashed"} /\ UNCHANGED db
    BY <1>6 DEF PermanentDelete, Exists
  <2>3. \/ /\ req'[r].live
           /\ \E x \in Files :
                 req'[r].fs = {x} /\ dir[x] = req'[r].dir /\ row[x] = "alive"
        \/ ~req'[r].live /\ \A x \in req'[r].fs : row[x] = "trashed"
    BY <2>1, <2>2
  <2> QED
    BY <1>1, <2>1, <2>2, <2>3, AloneKeeps
<1>7. ASSUME NEW u \in Users, NEW fs \in SUBSET Files, ClearTrash(r, u, fs) PROVE AloneInv'
  <2>1. /\ req'[r].pc = "delTx" /\ req'[r].fs = fs /\ ~req'[r].live
        /\ \A q \in Reqs \ {r} : req'[q] = req[q]
    BY <1>7 DEF ClearTrash, TypeOK, Idle
  <2>2. UNCHANGED db /\ \A f \in fs : row[f] = "trashed"
    BY <1>7 DEF ClearTrash
  <2> QED
    BY <1>1, <2>1, <2>2, AloneKeeps
<1> QED
  BY <1>2, <1>3, <1>4, <1>5, <1>6, <1>7 DEF Start

\* The rows of an upload appear with their count and their bytes.
LEMMA AloneUploaded ==
    ASSUME IInv, TypeOK', AloneInv, NEW r \in Reqs, CommitUpload(r)
    PROVE  AloneInv'
<1> USE DEF AloneInv
<1> DEFINE fs == req[r].fs
           u  == req[r].user
<1>1. /\ req[r].pc = "insert" /\ link' = link
      /\ row' = [f \in Files |-> IF f \in fs THEN "alive" ELSE row[f]]
      /\ dir' = [f \in Files |-> IF f \in fs THEN req[r].dir ELSE dir[f]]
      /\ used' = [used EXCEPT ![u] = @ + Bytes(fs)]
      /\ filesCount' = Adjusted(req[r].dir, Cardinality(fs))
  BY DEF CommitUpload, Inserted, At
<1>2. fs \in SUBSET Files /\ u \in Users /\ req[r].dir \in Dirs
  BY <1>1 DEF IInv, TypeOK, Request, UploadsFresh, Uploading
<1>3. \A f \in fs : row[f] = "none" /\ Owner[f] = u
  BY <1>1 DEF IInv, UploadsFresh, Uploading
<1>4. req'[r].pc = "idle" /\ \A q \in Reqs \ {r} : req[q].pc = "idle" /\ req'[q] = req[q]
  BY <1>1, OthersIdle DEF CommitUpload, Return, Idle, IInv, TypeOK
<1>5. /\ \A f \in fs : row'[f] = "alive" /\ dir'[f] = req[r].dir
      /\ \A f \in Files \ fs : row'[f] = row[f] /\ dir'[f] = dir[f]
  BY <1>1, <1>2
<1> HIDE DEF fs, u
<1>6. OneRequest' /\ AsRead'
  BY <1>4 DEF OneRequest, AsRead, Trashing, Restoring, Deleting
<1>7. CountsOwed'
  <2> SUFFICES ASSUME NEW d \in Dirs
               PROVE  filesCount'[d] = Cardinality(Under(d)')
    BY <1>4 DEF CountsOwed
  <2>1. filesCount[d] = Cardinality(Under(d)) /\ filesCount[d] \in Int
    <3>1. Owed(req[r], d) = 0
      BY <1>1 DEF Owed
    <3>2. filesCount[d] = Cardinality(Under(d)) + Owed(req[r], d)
      BY <1>1 DEF CountsOwed
    <3>3. Cardinality(Under(d)) \in Nat /\ filesCount[d] \in Int
      BY UnderFinite DEF IInv, TypeOK
    <3> QED
      BY <3>1, <3>2, <3>3
  <2>2. IsFiniteSet(Under(d)) /\ Cardinality(Under(d)) \in Nat
    BY UnderFinite
  <2>3. IsFiniteSet(fs) /\ Cardinality(fs) \in Nat
    BY <1>2, ConstantsOK, FS_Subset, FS_CardinalityType
  <2>4. CASE d \in Above[req[r].dir]
    <3>1. Under(d)' = Under(d) \cup fs /\ Under(d) \cap fs = {}
      BY <1>2, <1>3, <1>5, <2>4 DEF Under
    <3>2. Cardinality(Under(d) \cap fs) = 0
      BY <3>1, FS_EmptySet
    <3>3. Cardinality(Under(d) \cup fs) = Cardinality(Under(d)) + Cardinality(fs)
                                            - Cardinality(Under(d) \cap fs)
      BY <2>2, <2>3, FS_Union
    <3>4. filesCount'[d] = filesCount[d] + Cardinality(fs)
      BY <1>1, <2>4 DEF Adjusted, fs
    <3> QED
      BY <2>1, <2>2, <2>3, <3>1, <3>2, <3>3, <3>4
  <2>5. CASE d \notin Above[req[r].dir]
    <3>1. Under(d)' = Under(d)
      BY <1>2, <1>3, <1>5, <2>5 DEF Under
    <3>2. filesCount'[d] = filesCount[d]
      BY <1>1, <2>5 DEF Adjusted
    <3> QED
      BY <2>1, <3>1, <3>2
  <2> QED
    BY <2>4, <2>5
<1>8. LinksOwed'
  BY <1>1, <1>3, <1>4, <1>5 DEF LinksOwed
<1>9. UsedIsBytes'
  <2> SUFFICES ASSUME NEW v \in Users
               PROVE  used'[v] = Bytes(RowsOf(v)')
    BY DEF UsedIsBytes, Bytes, Content
  <2>1. used[v] = Bytes(RowsOf(v)) /\ used \in [Users -> Int] /\ RowsOf(v) \in SUBSET Files
    BY DEF UsedIsBytes, IInv, TypeOK, RowsOf
  <2>2. CASE v = u
    <3>1. RowsOf(v)' = RowsOf(v) \cup fs /\ RowsOf(v) \cap fs = {}
      BY <1>2, <1>3, <1>5, <2>2 DEF RowsOf, Exists
    <3>2. Bytes(RowsOf(v) \cup fs) = Bytes(RowsOf(v)) + Bytes(fs)
      BY <1>2, <2>1, <3>1, BytesUnion
    <3> QED
      BY <1>1, <1>2, <2>1, <2>2, <3>1, <3>2
  <2>3. CASE v # u
    <3>1. RowsOf(v)' = RowsOf(v)
      BY <1>2, <1>3, <1>5, <2>3 DEF RowsOf, Exists
    <3> QED
      BY <1>1, <2>1, <2>3, <3>1
  <2> QED
    BY <2>2, <2>3
<1> QED
  BY <1>6, <1>7, <1>8, <1>9

\* The rows of a deletion go with their links and their bytes, and a live one with its count.
LEMMA AloneDeleted ==
    ASSUME IInv, TypeOK', AloneInv, NEW r \in Reqs, CommitDelete(r)
    PROVE  AloneInv'
<1> USE DEF AloneInv
<1> DEFINE fs == req[r].fs
           u  == req[r].user
<1>1. /\ req[r].pc = "delCommit" /\ dir' = dir
      /\ row'  = [f \in Files |-> IF f \in fs THEN "gone" ELSE row[f]]
      /\ link' = [f \in Files |-> IF f \in fs THEN "none" ELSE link[f]]
      /\ used' = [used EXCEPT ![u] = @ - Bytes(fs)]
      /\ filesCount' = IF req[r].live THEN Adjusted(req[r].dir, -1) ELSE filesCount
  BY DEF CommitDelete, At
<1>2. /\ fs \in SUBSET Files /\ u \in Users
      /\ \A f \in fs : Owner[f] = u
  BY <1>1 DEF IInv, TypeOK, Request, DeletesOwned, Deleting
<1>3. \/ /\ req[r].live
         /\ \E f \in Files : fs = {f} /\ dir[f] = req[r].dir /\ row[f] = "alive"
      \/ ~req[r].live /\ \A f \in fs : row[f] = "trashed"
  BY <1>1 DEF AsRead, Deleting
<1>4. req'[r].pc = "idle" /\ \A q \in Reqs \ {r} : req[q].pc = "idle" /\ req'[q] = req[q]
  BY <1>1, OthersIdle DEF CommitDelete, Return, Idle, IInv, TypeOK
<1>5. /\ \A f \in fs : row'[f] = "gone" /\ link'[f] = "none"
      /\ \A f \in Files \ fs : row'[f] = row[f] /\ link'[f] = link[f]
  BY <1>1, <1>2
<1> HIDE DEF fs, u
<1>6. OneRequest' /\ AsRead'
  BY <1>4 DEF OneRequest, AsRead, Trashing, Restoring, Deleting
<1>7. CountsOwed'
  <2> SUFFICES ASSUME NEW d \in Dirs
               PROVE  filesCount'[d] = Cardinality(Under(d)')
    BY <1>4 DEF CountsOwed
  <2>1. filesCount[d] = Cardinality(Under(d))
    <3>1. Owed(req[r], d) = 0
      BY <1>1 DEF Owed
    <3>2. filesCount[d] = Cardinality(Under(d)) + Owed(req[r], d)
      BY <1>1 DEF CountsOwed
    <3>3. Cardinality(Under(d)) \in Nat
      BY UnderFinite
    <3> QED
      BY <3>1, <3>2, <3>3
  <2>2. IsFiniteSet(Under(d)) /\ Cardinality(Under(d)) \in Nat
    BY UnderFinite
  <2>3. CASE req[r].live /\ d \in Above[req[r].dir]
    <3>1. PICK f \in Files : fs = {f} /\ dir[f] = req[r].dir /\ row[f] = "alive"
      BY <1>3, <2>3
    <3>2. f \in Under(d) /\ Under(d)' = Under(d) \ {f}
      BY <1>1, <1>5, <2>3, <3>1 DEF Under
    <3>3. Cardinality(Under(d) \ {f}) = Cardinality(Under(d)) - 1
      BY <2>2, <3>2, FS_RemoveElement
    <3>4. filesCount'[d] = filesCount[d] - 1
      BY <1>1, <2>1, <2>2, <2>3 DEF Adjusted
    <3> QED
      BY <2>1, <3>2, <3>3, <3>4
  <2>4. CASE req[r].live /\ d \notin Above[req[r].dir]
    <3>1. PICK f \in Files : fs = {f} /\ dir[f] = req[r].dir /\ row[f] = "alive"
      BY <1>3, <2>4
    <3>2. Under(d)' = Under(d)
      BY <1>1, <1>5, <2>4, <3>1 DEF Under
    <3>3. filesCount'[d] = filesCount[d]
      BY <1>1, <2>4 DEF Adjusted
    <3> QED
      BY <2>1, <3>2, <3>3
  <2>5. CASE ~req[r].live
    <3>1. Under(d)' = Under(d)
      BY <1>1, <1>2, <1>3, <1>5, <2>5 DEF Under
    <3>2. filesCount'[d] = filesCount[d]
      BY <1>1, <2>5
    <3> QED
      BY <2>1, <3>1, <3>2
  <2> QED
    BY <2>3, <2>4, <2>5
<1>8. LinksOwed'
  <2>1. \A q \in Reqs : req[q].pc \notin {"countUp", "linksOn", "countDown", "linksOff"}
    BY <1>1, <1>4
  <2> QED
    BY <1>5, <2>1 DEF LinksOwed
<1>9. UsedIsBytes'
  <2> SUFFICES ASSUME NEW v \in Users
               PROVE  used'[v] = Bytes(RowsOf(v)')
    BY DEF UsedIsBytes, Bytes, Content
  <2>1. used[v] = Bytes(RowsOf(v)) /\ used \in [Users -> Int] /\ RowsOf(v) \in SUBSET Files
    BY DEF UsedIsBytes, IInv, TypeOK, RowsOf
  <2>2. CASE v = u
    <3>1. fs \subseteq RowsOf(v) /\ RowsOf(v)' = RowsOf(v) \ fs
      BY <1>2, <1>3, <1>5, <2>2 DEF RowsOf, Exists
    <3>2. RowsOf(v) = (RowsOf(v) \ fs) \cup fs /\ (RowsOf(v) \ fs) \cap fs = {}
      BY <3>1
    <3>3. Bytes(RowsOf(v)) = Bytes(RowsOf(v) \ fs) + Bytes(fs)
      BY <1>2, <2>1, <3>2, BytesUnion
    <3>4. Bytes(fs) \in Nat /\ Bytes(RowsOf(v) \ fs) \in Nat
      BY <1>2, <2>1, ContentFinite
    <3> QED
      BY <1>1, <1>2, <2>1, <2>2, <3>1, <3>3, <3>4
  <2>3. CASE v # u
    <3>1. RowsOf(v)' = RowsOf(v)
      BY <1>2, <1>5, <2>3 DEF RowsOf, Exists
    <3> QED
      BY <1>1, <2>1, <2>3, <3>1
  <2> QED
    BY <2>2, <2>3
<1> QED
  BY <1>6, <1>7, <1>8, <1>9

\* A row goes to the trash or comes back: its count and its link are owed.
LEMMA AloneRowMoved ==
    ASSUME IInv, TypeOK', AloneInv, NEW r \in Reqs,
           SoftDeleteFile(r) \/ RestoreFile(r)
    PROVE  AloneInv'
<1> USE DEF AloneInv
<1>1. /\ UNCHANGED <<dir, link, used, filesCount>>
      /\ \/ /\ req[r].pc = "trash" /\ req'[r].pc = "countDown"
            /\ row' = [f \in Files |-> IF f \in req[r].fs /\ row[f] = "alive"
                                       THEN "trashed" ELSE row[f]]
         \/ /\ req[r].pc = "restore" /\ req'[r].pc = "countUp"
            /\ row' = [f \in Files |-> IF f \in req[r].fs /\ row[f] = "trashed"
                                       THEN "alive" ELSE row[f]]
  BY DEF SoftDeleteFile, RestoreFile, At, Goto, IInv, TypeOK, Request
<1>2. /\ req'[r].fs = req[r].fs /\ req'[r].dir = req[r].dir
      /\ \A q \in Reqs \ {r} : req[q].pc = "idle" /\ req'[q] = req[q]
  BY <1>1, OthersIdle DEF SoftDeleteFile, RestoreFile, Goto, IInv, TypeOK, Request
<1>3. PICK f \in Files : req[r].fs = {f} /\ dir[f] = req[r].dir
  BY <1>1 DEF AsRead, Trashing, Restoring
<1>4. /\ req[r].pc = "trash"   => row[f] = "alive"   /\ row'[f] = "trashed"
      /\ req[r].pc = "restore" => row[f] = "trashed" /\ row'[f] = "alive"
      /\ \A x \in Files \ {f} : row'[x] = row[x]
  BY <1>1, <1>3 DEF AsRead
<1>5. OneRequest' /\ AsRead'
  BY <1>1, <1>2, <1>3, <1>4 DEF OneRequest, AsRead, Trashing, Restoring, Deleting
<1>6. CountsOwed'
  <2> SUFFICES ASSUME NEW d \in Dirs
               PROVE  filesCount[d] = Cardinality(Under(d)') + Owed(req'[r], d)
    BY <1>1, <1>2 DEF CountsOwed, Owed
  <2>1. IsFiniteSet(Under(d)) /\ Cardinality(Under(d)) \in Nat
    BY UnderFinite
  <2>2. filesCount[d] = Cardinality(Under(d))
    <3>1. Owed(req[r], d) = 0
      BY <1>1 DEF Owed
    <3>2. filesCount[d] = Cardinality(Under(d)) + Owed(req[r], d)
      BY <1>1 DEF CountsOwed
    <3> QED
      BY <2>1, <3>1, <3>2
  <2>3. CASE d \notin Above[dir[f]]
    <3>1. Under(d)' = Under(d)
      BY <1>1, <1>4, <2>3 DEF Under
    <3>2. Owed(req'[r], d) = 0
      BY <1>2, <1>3, <2>3 DEF Owed
    <3> QED
      BY <2>1, <2>2, <3>1, <3>2
  <2>4. CASE d \in Above[dir[f]] /\ req[r].pc = "trash"
    <3>1. f \in Under(d) /\ Under(d)' = Under(d) \ {f}
      BY <1>1, <1>4, <2>4 DEF Under
    <3>2. Cardinality(Under(d) \ {f}) = Cardinality(Under(d)) - 1
      BY <2>1, <3>1, FS_RemoveElement
    <3>3. Owed(req'[r], d) = 1
      BY <1>1, <1>2, <1>3, <2>4 DEF Owed
    <3> QED
      BY <2>1, <2>2, <3>1, <3>2, <3>3
  <2>5. CASE d \in Above[dir[f]] /\ req[r].pc = "restore"
    <3>1. f \notin Under(d) /\ Under(d)' = Under(d) \cup {f}
      BY <1>1, <1>4, <2>5 DEF Under
    <3>2. Cardinality(Under(d) \cup {f}) = Cardinality(Under(d)) + 1
      BY <2>1, <3>1, FS_AddElement
    <3>3. Owed(req'[r], d) = -1
      BY <1>1, <1>2, <1>3, <2>5 DEF Owed
    <3> QED
      BY <2>1, <2>2, <3>1, <3>2, <3>3
  <2> QED
    BY <1>1, <2>3, <2>4, <2>5
<1>7. LinksOwed'
  BY <1>1, <1>2, <1>3, <1>4 DEF LinksOwed, IInv, TypeOK, LinkStates
<1>8. UsedIsBytes'
  <2>1. \A u \in Users : RowsOf(u)' = RowsOf(u)
    BY <1>1, <1>4 DEF RowsOf, Exists
  <2> QED
    BY <1>1, <2>1 DEF UsedIsBytes, Bytes, Content
<1> QED
  BY <1>5, <1>6, <1>7, <1>8

\* The count that is owed is paid.
LEMMA AloneCounted ==
    ASSUME IInv, TypeOK', AloneInv, NEW r \in Reqs, IncrementFilesCount(r)
    PROVE  AloneInv'
<1> USE DEF AloneInv
<1>1. /\ UNCHANGED <<row, dir, link, used>>
      /\ \/ /\ req[r].pc = "countDown" /\ req'[r].pc = "linksOff"
            /\ filesCount' = Adjusted(req[r].dir, -1)
         \/ /\ req[r].pc = "countUp" /\ req'[r].pc = "linksOn"
            /\ filesCount' = Adjusted(req[r].dir, 1)
  BY DEF IncrementFilesCount, At, Goto, IInv, TypeOK, Request
<1>2. /\ req'[r].fs = req[r].fs /\ req'[r].dir = req[r].dir
      /\ \A q \in Reqs \ {r} : req[q].pc = "idle" /\ req'[q] = req[q]
  BY <1>1, OthersIdle DEF IncrementFilesCount, Goto, IInv, TypeOK, Request
<1>3. OneRequest' /\ AsRead'
  BY <1>1, <1>2 DEF OneRequest, AsRead, Trashing, Restoring, Deleting
<1>4. CountsOwed'
  <2> SUFFICES ASSUME NEW d \in Dirs
               PROVE  filesCount'[d] = Cardinality(Under(d)) + Owed(req'[r], d)
    BY <1>1, <1>2 DEF CountsOwed, Owed, Under
  <2>1. Cardinality(Under(d)) \in Nat /\ filesCount[d] \in Int
    BY UnderFinite DEF IInv, TypeOK
  <2>2. filesCount[d] = Cardinality(Under(d)) + Owed(req[r], d)
    BY <1>1 DEF CountsOwed
  <2>3. Owed(req'[r], d) = 0
    BY <1>1 DEF Owed
  <2>4. filesCount'[d] = filesCount[d] - Owed(req[r], d)
    BY <1>1, <2>1 DEF Owed, Adjusted
  <2>5. Owed(req[r], d) \in Int
    BY DEF Owed
  <2> QED
    BY <2>1, <2>2, <2>3, <2>4, <2>5
<1>5. LinksOwed'
  BY <1>1, <1>2 DEF LinksOwed
<1>6. UsedIsBytes'
  <2>1. \A u \in Users : RowsOf(u)' = RowsOf(u)
    BY <1>1 DEF RowsOf, Exists
  <2> QED
    BY <1>1, <2>1 DEF UsedIsBytes, Bytes, Content
<1> QED
  BY <1>3, <1>4, <1>5, <1>6

\* A step that changes links only.
LEMMA AloneLinked ==
    ASSUME TypeOK, AloneInv, UNCHANGED <<row, dir, used, filesCount>>,
           OneRequest', AsRead', LinksOwed',
           \A r \in Reqs : req'[r] = req[r] \/
               (req'[r].pc = "idle" /\ \A d \in Dirs : Owed(req[r], d) = 0)
    PROVE  AloneInv'
<1> USE DEF AloneInv
<1>1. CountsOwed'
  <2>1. \A d \in Dirs : Cardinality(Under(d)) \in Nat
    BY UnderFinite
  <2>2. \A d \in Dirs : Under(d)' = Under(d)
    BY DEF Under
  <2>3. ASSUME NEW r \in Reqs, req'[r].pc # "idle", NEW d \in Dirs
        PROVE  filesCount[d] = Cardinality(Under(d)) + Owed(req[r], d) /\ req'[r] = req[r]
    BY <2>3 DEF CountsOwed
  <2>4. ASSUME \A r \in Reqs : req'[r].pc = "idle", NEW d \in Dirs
        PROVE  filesCount[d] = Cardinality(Under(d))
    <3>1. CASE \A r \in Reqs : req[r].pc = "idle"
      BY <3>1 DEF CountsOwed
    <3>2. ASSUME NEW r \in Reqs, req[r].pc # "idle" PROVE filesCount[d] = Cardinality(Under(d))
      <4>1. Owed(req[r], d) = 0
        BY <2>4, <3>2
      <4>2. filesCount[d] = Cardinality(Under(d)) + Owed(req[r], d)
        BY <3>2 DEF CountsOwed
      <4> QED
        BY <2>1, <4>1, <4>2
    <3> QED
      BY <3>1, <3>2
  <2> QED
    BY <2>2, <2>3, <2>4 DEF CountsOwed, Owed
<1>2. UsedIsBytes'
  <2>1. \A u \in Users : RowsOf(u)' = RowsOf(u)
    BY DEF RowsOf, Exists
  <2> QED
    BY <2>1 DEF UsedIsBytes, Bytes, Content
<1> QED
  BY <1>1, <1>2

\* The links that are owed are set.
LEMMA AloneLinksSet ==
    ASSUME IInv, TypeOK', AloneInv, NEW r \in Reqs, SetActiveByFileIDs(r)
    PROVE  AloneInv'
<1> USE DEF AloneInv
<1>1. /\ UNCHANGED <<row, dir, used, filesCount>>
      /\ req[r].pc \in {"linksOff", "linksOn"} /\ req'[r].pc = "idle"
      /\ \A q \in Reqs \ {r} : req'[q] = req[q]
  BY DEF SetActiveByFileIDs, At, Return, Idle, IInv, TypeOK
<1>2. \A q \in Reqs \ {r} : req[q].pc = "idle"
  BY <1>1, OthersIdle
<1>3. OneRequest' /\ AsRead'
  BY <1>1, <1>2 DEF OneRequest, AsRead, Trashing, Restoring, Deleting
<1>4. PICK f \in Files : req[r].fs = {f}
  BY <1>1 DEF AsRead, Trashing, Restoring
<1>5. /\ req[r].pc = "linksOff" => row[f] = "trashed"
      /\ req[r].pc = "linksOn"  => row[f] = "alive"
  BY <1>4 DEF AsRead
<1>6. /\ link'[f] = IF link[f] = "none" THEN "none"
                    ELSE IF req[r].pc = "linksOff" THEN "off" ELSE "on"
      /\ \A x \in Files \ {f} : link'[x] = link[x]
  BY <1>4 DEF SetActiveByFileIDs, At
<1>7. LinksOwed'
  BY <1>1, <1>2, <1>4, <1>5, <1>6 DEF LinksOwed
<1>8. \A d \in Dirs : Owed(req[r], d) = 0
  BY <1>1 DEF Owed
<1> QED
  BY <1>1, <1>3, <1>7, <1>8, AloneLinked DEF IInv

LEMMA AloneContinue ==
    ASSUME IInv, TypeOK', AloneInv, alone, NEW r \in Reqs, Continue(r)
    PROVE  AloneInv'
<1> USE DEF At
<1>1. \A kind \in FaultKinds : ~Fault(kind)
  BY DEF Fault
<1>2. TypeOK /\ OneRequest
  BY DEF IInv, AloneInv
<1>3. ASSUME req[r].pc # "idle" PROVE \A q \in Reqs \ {r} : req[q].pc = "idle"
  BY <1>2, <1>3, OthersIdle
<1>4. ASSUME NEW f \in Files, PutObject(r, f) PROVE AloneInv'
  <2> DEFINE done == req[r].done \cup {f}
             pc   == IF done = req[r].fs THEN "begin" ELSE "put"
  <2>1. req' = [req EXCEPT ![r] = [req[r] EXCEPT !.done = done, !.pc = pc]]
    BY <1>4 DEF PutObject
  <2>2. req[r].pc = "put" /\ UNCHANGED db /\ pc \in {"put", "begin"}
    BY <1>4 DEF PutObject
  <2>3. req'[r].pc = pc /\ \A q \in Reqs \ {r} : req'[q] = req[q]
    <3> HIDE DEF done, pc
    <3> QED
      BY <1>2, <2>1 DEF TypeOK, Request
  <2> HIDE DEF done, pc
  <2> QED
    BY <1>2, <1>3, <2>2, <2>3, AloneKeeps DEF Deleting
<1>5. ASSUME NEW f \in Files, CleanupObject(r, f) PROVE AloneInv'
  <2>1. /\ req[r].pc = "cleanup" /\ req'[r].pc = "cleanup" /\ UNCHANGED db
        /\ \A q \in Reqs \ {r} : req'[q] = req[q]
    BY <1>2, <1>5 DEF CleanupObject, TypeOK, Request
  <2> QED
    BY <1>2, <1>3, <2>1, AloneKeeps DEF Deleting
<1>6. ASSUME NEW f \in Files, DeleteObject(r, f) PROVE AloneInv'
  <2> DEFINE left == req[r].done \ {f}
             pc   == IF left = {} THEN "delCommit" ELSE "delObject"
  <2>1. req' = [req EXCEPT ![r] = [req[r] EXCEPT !.done = left, !.pc = pc]]
    BY <1>6 DEF DeleteObject
  <2>2. req[r].pc = "delObject" /\ UNCHANGED db /\ pc \in {"delObject", "delCommit"}
    BY <1>6 DEF DeleteObject
  <2> HIDE DEF left, pc
  <2>3. /\ req'[r].pc = pc /\ req'[r].fs = req[r].fs
        /\ req'[r].dir = req[r].dir /\ req'[r].live = req[r].live
        /\ \A q \in Reqs \ {r} : req'[q] = req[q]
    BY <1>2, <2>1 DEF TypeOK, Request
  <2> QED
    BY <1>2, <1>3, <2>2, <2>3, AloneKeeps DEF AloneInv, AsRead, Deleting
<1>7. CASE GetUserStorage(r)
  <2>1. /\ req[r].pc = "begin" /\ req'[r].pc \in {"cleanup", "insert"} /\ UNCHANGED db
        /\ \A q \in Reqs \ {r} : req'[q] = req[q]
    BY <1>2, <1>7 DEF GetUserStorage, Goto, TypeOK, Request
  <2> QED
    BY <1>2, <1>3, <2>1, AloneKeeps DEF Deleting
<1>8. CASE CommitUpload(r)
  BY <1>8, AloneUploaded
<1>9. CASE SourceGone(r)
  <2>1. /\ req[r].pc = "insert" /\ req'[r].pc = "cleanup" /\ UNCHANGED db
        /\ \A q \in Reqs \ {r} : req'[q] = req[q]
    BY <1>2, <1>9 DEF SourceGone, Goto, TypeOK, Request
  <2> QED
    BY <1>2, <1>3, <2>1, AloneKeeps DEF Deleting
<1>10. CASE CleanupEnd(r)
  <2>1. /\ req[r].pc = "cleanup" /\ req'[r].pc = "idle" /\ UNCHANGED db
        /\ \A q \in Reqs \ {r} : req'[q] = req[q]
    BY <1>2, <1>10 DEF CleanupEnd, Return, Idle, TypeOK
  <2> QED
    BY <1>2, <1>3, <2>1, AloneKeeps DEF Deleting
<1>11. CASE SoftDeleteFile(r) \/ RestoreFile(r)
  BY <1>11, AloneRowMoved
<1>12. CASE IncrementFilesCount(r)
  BY <1>12, AloneCounted
<1>13. CASE SetActiveByFileIDs(r)
  BY <1>13, AloneLinksSet
<1>14. CASE DeleteRows(r)
  <2>1. /\ req[r].pc = "delTx" /\ req'[r].pc = "delObject" /\ UNCHANGED db
        /\ req'[r].fs = req[r].fs
        /\ req'[r].dir = req[r].dir /\ req'[r].live = req[r].live
        /\ \A q \in Reqs \ {r} : req'[q] = req[q]
    BY <1>2, <1>14 DEF DeleteRows, Goto, TypeOK, Request
  <2> QED
    BY <1>2, <1>3, <2>1, AloneKeeps DEF AloneInv, AsRead, Deleting
<1>15. CASE CommitDelete(r)
  BY <1>15, AloneDeleted
<1>16. ~Fails(r)
  BY <1>1 DEF FaultKinds, Fails, PutFails, CommitUploadAckLost, UploadTxFails, StatementFails,
     DeleteFails
<1> QED
  BY <1>4, <1>5, <1>6, <1>7, <1>8, <1>9, <1>10, <1>11, <1>12, <1>13, <1>14, <1>15, <1>16
     DEF Continue, Proceed

LEMMA AloneNext ==
    ASSUME ~Moves, IInv, TypeOK', alone, AloneInv, [Next]_vars
    PROVE  AloneInv'
<1>1. TypeOK
  BY DEF IInv
<1>2. ASSUME NEW r \in Reqs, Start(r) PROVE AloneInv'
  BY <1>1, <1>2, AloneStart
<1>3. ASSUME NEW r \in Reqs, Continue(r) PROVE AloneInv'
  BY <1>3, AloneContinue
<1>4. ASSUME NEW f \in Files, NEW d \in Dirs, MoveFile(f, d) PROVE FALSE
  BY <1>4 DEF MoveFile
<1>5. ASSUME NEW f \in Files, CreateLink(f) PROVE AloneInv'
  <2>1. /\ row[f] = "alive" /\ link' = [link EXCEPT ![f] = "on"]
        /\ UNCHANGED <<row, dir, used, filesCount, req>>
    BY <1>5 DEF CreateLink
  <2>2. OneRequest' /\ AsRead'
    BY <2>1 DEF AloneInv, OneRequest, AsRead
  <2>3. LinksOwed'
    BY <1>1, <2>1 DEF AloneInv, LinksOwed, TypeOK
  <2> QED
    BY <1>1, <2>1, <2>2, <2>3, AloneLinked
<1>6. ~Crash
  BY DEF Crash, Fault
<1>7. CASE UNCHANGED vars
  <2>1. UNCHANGED <<row, dir, link, used, filesCount, req>>
    BY <1>7 DEF vars
  <2>2. OneRequest' /\ AsRead' /\ LinksOwed'
    BY <2>1 DEF AloneInv, OneRequest, AsRead, LinksOwed
  <2> QED
    BY <1>1, <2>1, <2>2, AloneLinked
<1> QED
  BY <1>2, <1>3, <1>4, <1>5, <1>6, <1>7 DEF Next

-----------------------------------------------------------------------------
(* The theorems.                                                           *)

\* Every variable keeps its type in every run of the handlers of files and trash.
THEOREM TypeCorrect == Spec => []TypeOK
<1>1. IInv => TypeOK
  BY DEF IInv
<1> QED
  BY <1>1, Invariance, PTL

\* However many uploads, conversions and deletions run at once, and whatever
\* fails, storage_used does not pass storage_quota.
THEOREM QuotaCorrect == Spec => []QuotaHeld
<1>1. IInv => QuotaHeld
  BY DEF IInv
<1> QED
  BY <1>1, Invariance, PTL

\* storage_used never counts a byte that no row of the user has: it may only be
\* too small (racing deletions refund twice), never too large.
THEOREM UsedNeverOvercharges == Spec => []UsedNotAboveBytes
<1>1. IInv => UsedNotAboveBytes
  BY DEF IInv
<1> QED
  BY <1>1, Invariance, PTL

\* The handlers of files and trash implement the ledger: every step charges one
\* account within its quota, refunds one account, or leaves storage_used alone.
THEOREM ImplementsLedger == Spec => LedgerSpec
<1>1. Init => Ledger!Init
  BY DEF Init, Ledger!Init
<1>2. IInv /\ TypeOK' /\ QuotaHeld' /\ [Next]_vars => [Ledger!Next]_used
  <2> SUFFICES ASSUME IInv, TypeOK', QuotaHeld', [Next]_vars, used' # used
               PROVE  Ledger!Next
    OBVIOUS
  <2>1. PICK r \in Reqs : CommitUpload(r) \/ CommitUploadAckLost(r) \/ CommitDelete(r)
    <3>1. ASSUME NEW r \in Reqs, Start(r) PROVE used' = used
      BY <3>1 DEF Start, Upload, ConvertAndSave, SoftDelete, Restore, PermanentDelete,
                  ClearTrash, db
    <3>2. ASSUME NEW r \in Reqs, Continue(r),
                 ~CommitUpload(r), ~CommitUploadAckLost(r), ~CommitDelete(r)
          PROVE  used' = used
      BY <3>2 DEF Continue, Proceed, Fails, PutObject, PutFails, CleanupObject, DeleteObject,
                  GetUserStorage, UploadTxFails, SourceGone, CleanupEnd, SoftDeleteFile, RestoreFile,
                  IncrementFilesCount, SetActiveByFileIDs, StatementFails, DeleteRows,
                  DeleteFails, db
    <3>3. ASSUME NEW f \in Files, NEW d \in Dirs, MoveFile(f, d) PROVE used' = used
      BY <3>3 DEF MoveFile
    <3>4. ASSUME NEW f \in Files, CreateLink(f) PROVE used' = used
      BY <3>4 DEF CreateLink
    <3>5. Crash => used' = used
      BY DEF Crash, db
    <3>6. UNCHANGED vars => used' = used
      BY DEF vars
    <3> QED
      BY <3>1, <3>2, <3>3, <3>4, <3>5, <3>6 DEF Next
  <2> DEFINE u == req[r].user
             n == Bytes(req[r].fs)
  <2>2. u \in Users /\ n \in Nat
    BY <2>1, ContentFinite DEF CommitUpload, CommitUploadAckLost, CommitDelete, At, IInv,
       UploadsFresh, DeletesOwned, Uploading, Deleting, TypeOK, Request
  <2>3. used \in [Users -> Int] /\ used' \in [Users -> Int]
    BY DEF IInv, TypeOK
  <2>4. CASE CommitUpload(r) \/ CommitUploadAckLost(r)
    <3>1. used' = [used EXCEPT ![u] = @ + n]
      BY <2>4 DEF CommitUpload, CommitUploadAckLost, Inserted
    <3>2. used'[u] <= Quota[u]
      BY <2>2 DEF QuotaHeld
    <3> HIDE DEF u, n
    <3>3. used[u] <= used'[u] /\ \A v \in Users \ {u} : used'[v] = used[v]
      BY <2>2, <2>3, <3>1
    <3> QED
      BY <2>2, <2>3, <3>2, <3>3 DEF Ledger!Next, Ledger!Charge, Ledger!Only
  <2>5. CASE CommitDelete(r)
    <3>1. used' = [used EXCEPT ![u] = @ - n]
      BY <2>5 DEF CommitDelete
    <3> HIDE DEF u, n
    <3>2. used'[u] <= used[u] /\ \A v \in Users \ {u} : used'[v] = used[v]
      BY <2>2, <2>3, <3>1
    <3> QED
      BY <2>2, <2>3, <3>2 DEF Ledger!Next, Ledger!Refund, Ledger!Only
  <2> QED
    BY <2>1, <2>4, <2>5
<1>3. IInv => QuotaHeld /\ TypeOK
  BY DEF IInv
<1> QED
  BY <1>1, <1>2, <1>3, Invariance, PTL DEF Spec, LedgerSpec, Ledger!Spec

\* Where only a put or a statement can fail, however the requests interleave, no
\* row is without its object and no object without its row once they are over.
THEOREM RowsPairedHolds ==
    ASSUME Faults \subseteq {"put", "stmt"}
    PROVE  Spec => []RowsPaired
<1>1. Init => PairInv
  BY PairInit
<1>2. IInv /\ IInv' /\ PairInv /\ [Next]_vars => PairInv'
  BY PairNext DEF IInv
<1>3. PairInv => RowsPaired
  <2> SUFFICES ASSUME PairInv PROVE RowHasObject /\ NoOrphanObjects
    BY DEF RowsPaired
  <2>1. RowHasObject
    BY DEF PairInv, RowsKept, RowHasObject, At
  <2>2. NoOrphanObjects
    BY DEF PairInv, ObjectsKept, NoOrphanObjects, Quiet, Idle, Storing
  <2> QED
    BY <2>1, <2>2
<1> QED
  BY <1>1, <1>2, <1>3, Invariance, PTL DEF Spec

\* With one request at a time and no failure, and as long as no file is moved, the
\* counters are exact and links follow their files, for any files, directories and sizes.
THEOREM ExactAloneHolds == Spec => []ExactAlone
<1>1. CASE Moves
  <2>1. TypeOK => ExactAlone
    BY <1>1 DEF ExactAlone
  <2> QED
    BY <2>1, TypeCorrect, PTL
<1>2. CASE ~Moves
  <2> DEFINE Inv == alone => AloneInv
  <2>1. Init => Inv
    BY AloneInit
  <2>2. IInv /\ IInv' /\ Inv /\ [Next]_vars => Inv'
    <3>1. [Next]_vars => alone' = alone
      BY DEF Next, vars
    <3> QED
      BY <1>2, <3>1, AloneNext DEF IInv
  <2>3. Inv => ExactAlone
    <3> SUFFICES ASSUME AloneInv PROVE UsedIsBytes /\ FilesCountExact /\ LinksFollowTrash
      BY DEF ExactAlone
    <3>1. Quiet => \A r \in Reqs : req[r].pc = "idle"
      BY DEF Quiet, Idle
    <3>2. UsedIsBytes
      BY DEF AloneInv
    <3>3. FilesCountExact
      BY <3>1 DEF AloneInv, CountsOwed, FilesCountExact
    <3>4. LinksFollowTrash
      BY <3>1 DEF AloneInv, LinksOwed, LinksFollowTrash
    <3> QED
      BY <3>2, <3>3, <3>4
  <2> HIDE DEF Inv
  <2> QED
    BY <2>1, <2>2, <2>3, Invariance, PTL DEF Spec
<1> QED
  BY <1>1, <1>2
=============================================================================
