---------------------------- MODULE MCFileObjects ----------------------------
(* An instance of FileStore for TLC in which files are moved as well, and    *)
(* statements and uploads to the bucket fail, but nothing is lost half way.  *)
EXTENDS FileStore

CONSTANTS u1, root, sub, f1, f2, r1, r2

MCSizes == [f \in Files |-> 2]
MCOwner == [f \in Files |-> u1]
MCQuota == [u \in Users |-> 5]
MCAbove == [d \in Dirs |-> {root, d}]

\* No crash, no commit whose answer is lost; and nothing has a link.  Requests overlap.
MCInit == Init /\ ~alone

MCNext ==
    /\ \/ \E r \in Reqs : \/ Start(r) \/ Proceed(r)
                          \/ UploadTxFails(r) \/ StatementFails(r) \/ DeleteFails(r)
       \/ \E r \in Reqs, f \in Files : PutFails(r, f)
       \/ \E f \in Files, d \in Dirs : MoveFile(f, d)
    /\ UNCHANGED alone

MCSpec == MCInit /\ [][MCNext]_vars
=============================================================================
