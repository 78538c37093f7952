------------------------------ MODULE MCPages ------------------------------
(* Small instances for TLC of the pages of a directory, of a share link and  *)
(* of a file, and of the dialog with the links: a behaviour is of one of     *)
(* them, and of one kind of user.                                           *)
EXTENDS Pages

CONSTANTS a, b, i1, i2, i3, r1, r2, d1, d2, x1, x2, x3, f1, f2

MCOrder    == [i \in Items |-> CASE i = i1 -> 1 [] i = i2 -> 2 [] OTHER -> 3]
MCParent   == [f \in {d1, d2} |-> IF f = d1 THEN Top ELSE d1]
MCFolderOf == [x \in Docs |-> IF x = x3 THEN d1 ELSE Top]
MCDocRank  == [x \in Docs |-> IF x = x1 THEN 1 ELSE IF x = x2 THEN 2 ELSE 3]

VARIABLES which, scene

extra == <<which, scene>>
rest1 == <<extra, viewVars, fileVars, shareVars>>
rest2 == <<extra, vars, fileVars, shareVars>>
rest3 == <<extra, vars, viewVars, shareVars>>
rest4 == <<extra, vars, viewVars, fileVars>>
every == <<extra, vars, viewVars, fileVars, shareVars>>

-----------------------------------------------------------------------------
\* The directory: a user who waits for answers and has one toast at a time; one who
\* goes to and fro while lists load; one who deletes, moves and clicks toasts.
Started == {r \in Reqs : Free(r) /\ req'[r].pc # "idle"}

\* Toasts, and requests that may leave one.
Toasts == Cardinality(offers)
          + Cardinality({r \in Reqs : ~Free(r) /\ req[r].kind \in {"delete", "drop", "modal"}})

DirectoryNext ==
    /\ Next
    /\ CASE scene = "waits"  -> Toasts' <= 1
         [] scene = "races"  -> /\ UNCHANGED <<serverVars, offers, modal>>
                                /\ \A r \in Started : req'[r].kind \in {"load", "rename"}
         [] scene = "toasts" -> /\ UNCHANGED <<url, more, modal>>
                                /\ Toasts' <= 2
                                /\ \A r \in Started : req'[r].kind \in {"delete", "drop", "back", "restore"}

\* The file: who does not wait does not rename or convert.
FileViewNext == FileNext /\ (~viewerWaits => ~convertOpen' /\ op'.pc # "rename")

\* The dialog: one deletion at a time; who does not wait has one link and undoes nothing.
Asked == {k \in Calls : call[k].pc = "idle" /\ call'[k].pc = "sent"}

DialogNext ==
    /\ ShareNext
    /\ \A k \in Asked :
          /\ call'[k].kind = "delete" => undoable = {} /\ \A j \in Calls : call[j].kind # "delete"
          /\ call'[k].kind = "create" => call'[k].link.forever = (made = 1)
          /\ call'[k].kind = "undo"   => sharerWaits
    /\ ~sharerWaits => made' <= 1 /\ (undoable' = {} => undoable = {})

-----------------------------------------------------------------------------
Other(q, p) == which # q => p

MCInit ==
    /\ Init /\ ViewInit /\ FileInit /\ ShareInit
    /\ which \in {"directory", "share", "file", "dialog"}
    /\ scene \in {"waits", "races", "toasts"} /\ patient = (scene = "waits")
    /\ req[r1].pc = "list" /\ get[r1].pc # "idle"
    /\ scene # "waits" => canWrite /\ url = a /\ place \in [Items -> {a}]
    /\ Other("directory", scene = "toasts" /\ place = [i \in Items |-> a] /\ trash = {})
    /\ Other("share", view = "file" /\ ~secret /\ guestWaits)
    /\ Other("file", viewerWaits)
    /\ Other("dialog", made = 0 /\ kept /\ sharerWaits)

MCNext ==
    \/ which = "directory" /\ DirectoryNext /\ UNCHANGED rest1
    \/ which = "share"     /\ ViewNext      /\ UNCHANGED rest2
    \/ which = "file"      /\ FileViewNext  /\ UNCHANGED rest3
    \/ which = "dialog"    /\ DialogNext    /\ UNCHANGED rest4

MCSpec ==
    /\ MCInit /\ [][MCNext]_every
    /\ \A r \in Reqs  : WF_req(which = "directory" /\ Continue(r))
    /\ \A k \in Gets  : WF_get(which = "share" /\ GetStep(k))
    /\ \A r \in Runs  : WF_run(which = "file" /\ RunStep(r))
    /\ WF_op(which = "file" /\ OpStep)
    /\ \A k \in Calls : WF_call(which = "dialog" /\ CallStep(k))

\* What shows that it is at work, in three groups, each of one flag of each page.
Loading == CASE which = "directory" -> isLoading
             [] which = "share"     -> fetching
             [] which = "file"      -> viewerWaits /\ id # NoFile /\ fileLoading
             [] which = "dialog"    -> open /\ listing
Working == CASE which = "directory" -> undoing
             [] which = "share"     -> guestWaits /\ navigating
             [] which = "file"      -> id # NoFile /\ deleting
             [] which = "dialog"    -> open /\ creating
Saving  == CASE which = "file"      -> id # NoFile /\ converting
             [] which = "dialog"    -> open /\ saving
             [] OTHER               -> FALSE

\* What shows that it is at work comes to an end; for the spinners of the file and of a
\* folder of a shared directory this is for a user who waits.
PagesEnd ==
    /\ Loading ~> ~Loading
    /\ Working ~> ~Working
    /\ Saving  ~> ~Saving
=============================================================================
