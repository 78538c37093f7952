------------------------------ MODULE FileView ------------------------------
(***************************************************************************)
(* FileViewPage, the page of one file: the effect that loads what it shows *)
(* in a chain of four requests, and the rename, deletion and conversion    *)
(* that are under way when the address changes.  The effect guards most of *)
(* what it sets by isMounted; its clean-up clears that flag.               *)
(***************************************************************************)
EXTENDS Naturals

CONSTANTS
    Files, NoFile,
    Foreign,     \* the files of other owners
    Viewable,    \* determinePreviewType finds a type
    Problematic, \* isProblematicForIframe
    Runs         \* bound: runs of the effect that are not over

ASSUME FileViewAssumption ==
    NoFile \notin Files /\ Foreign \subseteq Files /\ Viewable \subseteq Files
    /\ Problematic \subseteq Files

VARIABLES
    names,                                     \* the server: whether a file has a new name
    viewerWaits,                               \* the user waits for answers
    id,                                        \* of the address; NoFile on any other page
    file, shownName, owner, fileUrl, directory,    \* the files that these are about
    fileLoading, fileError, previewType, canPreview, iframeError,
    deleteOpen, deleting, convertOpen, converting,
    run, op

fileVars == <<names, viewerWaits, id, file, shownName, owner, fileUrl, directory, fileLoading,
              fileError, previewType, canPreview, iframeError, deleteOpen, deleting,
              convertOpen, converting, run, op>>
display    == <<file, shownName, owner, fileUrl, directory, previewType>>
status   == <<fileLoading, fileError, canPreview, iframeError>>
dialogs  == <<deleteOpen, deleting, convertOpen, converting>>

NoRun == [pc |-> "idle", of |-> NoFile, mounted |-> FALSE]
NoOp  == [pc |-> "idle", of |-> NoFile, mounted |-> FALSE]

FileTypeOK ==
    /\ names \in [Files -> {"old", "new"}] /\ shownName \in {"old", "new"}
    /\ {id, file, owner, fileUrl, directory, previewType} \subseteq Files \cup {NoFile}
    /\ {viewerWaits, fileLoading, fileError, canPreview, iframeError} \subseteq BOOLEAN
    /\ {deleteOpen, deleting, convertOpen, converting} \subseteq BOOLEAN
    /\ run \in [Runs -> [pc : {"idle", "metadata", "owner", "content", "directory"},
                         of : Files \cup {NoFile}, mounted : BOOLEAN]]
    /\ op \in [pc : {"idle", "rename", "delete", "convert"}, of : Files \cup {NoFile},
               mounted : BOOLEAN]

-----------------------------------------------------------------------------
FileQuiet   == op.pc = "idle" /\ \A r \in Runs : run[r].pc = "idle"
ViewerReady == viewerWaits => FileQuiet
FileOpen    == id # NoFile /\ ~fileLoading /\ ~fileError /\ file # NoFile

\* The clean-up of the effect before, and a new run of it.
Rerun(r, f) ==
    /\ run[r].pc = "idle"
    /\ run' = [q \in Runs |-> IF q = r THEN [pc |-> "metadata", of |-> f, mounted |-> TRUE]
                              ELSE [run[q] EXCEPT !.mounted = FALSE]]
    /\ fileLoading' = TRUE /\ fileError' = FALSE /\ canPreview' = TRUE /\ iframeError' = FALSE
    /\ owner' = NoFile

\* The page is opened: everything is new.
Visit(r, f) ==
    /\ id = NoFile
    /\ id' = f /\ Rerun(r, f)
    /\ file' = NoFile /\ shownName' = "old" /\ fileUrl' = NoFile /\ directory' = NoFile
    /\ previewType' = NoFile
    /\ deleteOpen' = FALSE /\ deleting' = FALSE /\ convertOpen' = FALSE /\ converting' = FALSE
    /\ UNCHANGED <<names, viewerWaits, op>>

\* The history of the browser leads from one file to another: the page stays mounted.
Jump(r, f) ==
    /\ id \notin {NoFile, f} /\ ViewerReady
    /\ id' = f /\ Rerun(r, f)
    /\ UNCHANGED <<names, viewerWaits, file, shownName, fileUrl, directory, previewType, dialogs, op>>

\* The access token is renewed.
Renew(r) ==
    /\ id # NoFile /\ ViewerReady
    /\ Rerun(r, id)
    /\ UNCHANGED <<names, viewerWaits, id, file, shownName, fileUrl, directory, previewType, dialogs, op>>

Unmount == run' = [q \in Runs |-> [run[q] EXCEPT !.mounted = FALSE]]

\* handleGoBack, and every other way out.
Leave ==
    /\ id # NoFile /\ ViewerReady
    /\ id' = NoFile /\ Unmount /\ op' = [op EXCEPT !.mounted = FALSE]
    /\ UNCHANGED <<names, viewerWaits, display, status, dialogs>>

-----------------------------------------------------------------------------
(* loadFileData, one step from await to await.                             *)

To(r, pc) == run' = [run EXCEPT ![r] = IF pc = "idle" THEN NoRun ELSE [@ EXCEPT !.pc = pc]]

\* What follows the owner, with what it sets even after the clean-up.
AfterOwner(r) ==
    LET f == run[r].of IN
    /\ IF id = NoFile THEN UNCHANGED <<previewType, canPreview>>
       ELSE previewType' = f /\ canPreview' = (f \in Viewable /\ f \notin Problematic)
    /\ IF f \in Problematic
       THEN To(r, "idle") /\ fileLoading' = (fileLoading /\ ~run[r].mounted)
       ELSE To(r, IF f \in Viewable THEN "content" ELSE "directory") /\ UNCHANGED fileLoading

\* Mutant: the clean-up of the effect is not heeded.
MetadataOfAny(r) ==
    /\ run[r].pc = "metadata"
    /\ file' = run[r].of /\ shownName' = names[run[r].of]
    /\ IF run[r].of \in Foreign
       THEN To(r, "owner") /\ UNCHANGED <<previewType, canPreview, fileLoading>>
       ELSE AfterOwner(r)
    /\ UNCHANGED <<names, viewerWaits, id, owner, fileUrl, directory, fileError, iframeError, dialogs, op>>

Metadata(r) ==
    /\ run[r].pc = "metadata"
    /\ IF ~run[r].mounted
       THEN To(r, "idle") /\ UNCHANGED <<file, shownName, previewType, canPreview, fileLoading>>
       ELSE /\ file' = run[r].of /\ shownName' = names[run[r].of]
            /\ IF run[r].of \in Foreign
               THEN To(r, "owner") /\ UNCHANGED <<previewType, canPreview, fileLoading>>
               ELSE AfterOwner(r)
    /\ UNCHANGED <<names, viewerWaits, id, owner, fileUrl, directory, fileError, iframeError, dialogs, op>>

MetadataFails(r) ==
    /\ run[r].pc = "metadata"
    /\ fileError' = (fileError \/ run[r].mounted) /\ fileLoading' = (fileLoading /\ ~run[r].mounted)
    /\ To(r, "idle")
    /\ UNCHANGED <<names, viewerWaits, id, display, canPreview, iframeError, dialogs, op>>

\* The name of the owner, or none if that fails.
OwnerComes(r) ==
    /\ run[r].pc = "owner"
    /\ owner' \in IF run[r].mounted THEN {run[r].of, owner} ELSE {owner}
    /\ AfterOwner(r)
    /\ UNCHANGED <<names, viewerWaits, id, file, shownName, fileUrl, directory, fileError, iframeError,
                   dialogs, op>>

ContentComes(r) ==
    /\ run[r].pc = "content"
    /\ fileUrl' \in IF run[r].mounted THEN {run[r].of, fileUrl} ELSE {fileUrl}
    /\ To(r, "directory")
    /\ UNCHANGED <<names, viewerWaits, id, file, shownName, owner, directory, previewType, status, dialogs, op>>

DirectoryComes(r) ==
    /\ run[r].pc = "directory"
    /\ directory' \in IF run[r].mounted THEN {run[r].of, directory} ELSE {directory}
    /\ fileLoading' = (fileLoading /\ ~run[r].mounted)
    /\ To(r, "idle")
    /\ UNCHANGED <<names, viewerWaits, id, file, shownName, owner, fileUrl, previewType, fileError,
                   canPreview, iframeError, dialogs, op>>

\* onError of the element that shows the content.
PreviewBreaks ==
    /\ FileOpen /\ canPreview /\ fileUrl # NoFile
    /\ canPreview' = FALSE /\ iframeError' = TRUE
    /\ UNCHANGED <<names, viewerWaits, id, display, fileLoading, fileError, dialogs, run, op>>

-----------------------------------------------------------------------------
(* The operations.  Each acts on the file that was shown when it began.    *)

Start(pc) == op.pc = "idle" /\ op' = [pc |-> pc, of |-> file, mounted |-> TRUE]

Rename ==
    /\ FileOpen /\ ViewerReady /\ Start("rename")
    /\ UNCHANGED <<names, viewerWaits, id, display, status, dialogs, run>>

\* setFile(prev => ...) renames whatever is shown by now.
Renamed ==
    /\ op.pc = "rename"
    /\ names' = [names EXCEPT ![op.of] = "new"]
    /\ shownName' = IF op.mounted /\ file # NoFile THEN "new" ELSE shownName
    /\ op' = NoOp
    /\ UNCHANGED <<viewerWaits, id, file, owner, fileUrl, directory, previewType, status, dialogs, run>>

\* The dialog of the deletion and of the conversion: both stay open while they work.
Ask ==
    /\ FileOpen /\ ViewerReady
    /\ \/ ~deleteOpen /\ deleteOpen' = TRUE /\ UNCHANGED convertOpen
       \/ ~convertOpen /\ convertOpen' = TRUE /\ UNCHANGED deleteOpen
    /\ UNCHANGED <<names, viewerWaits, id, display, status, deleting, converting, run, op>>

Cancel ==
    /\ FileOpen /\ ViewerReady
    /\ \/ deleteOpen /\ ~deleting /\ deleteOpen' = FALSE /\ UNCHANGED convertOpen
       \/ convertOpen /\ ~converting /\ convertOpen' = FALSE /\ UNCHANGED deleteOpen
    /\ UNCHANGED <<names, viewerWaits, id, display, status, deleting, converting, run, op>>

DeleteFile ==
    /\ FileOpen /\ deleteOpen /\ ~deleting /\ ViewerReady
    /\ op.pc = "idle" /\ op' = [pc |-> "delete", of |-> id, mounted |-> TRUE]
    /\ deleting' = TRUE
    /\ UNCHANGED <<names, viewerWaits, id, display, status, deleteOpen, convertOpen, converting, run>>

Convert ==
    /\ FileOpen /\ convertOpen /\ ~converting /\ ViewerReady /\ Start("convert")
    /\ converting' = TRUE
    /\ UNCHANGED <<names, viewerWaits, id, display, status, deleteOpen, deleting, convertOpen, run>>

\* navigate(), to the directory or to the dashboard, from wherever the user is.
FileDeleted ==
    /\ op.pc = "delete"
    /\ id' = NoFile /\ Unmount /\ op' = NoOp
    /\ IF op.mounted THEN deleteOpen' = FALSE /\ deleting' = FALSE
                     ELSE UNCHANGED <<deleteOpen, deleting>>
    /\ UNCHANGED <<names, viewerWaits, display, status, convertOpen, converting>>

Converted ==
    /\ op.pc = "convert"
    /\ IF op.mounted THEN convertOpen' = FALSE /\ converting' = FALSE
                     ELSE UNCHANGED <<convertOpen, converting>>
    /\ op' = NoOp
    /\ UNCHANGED <<names, viewerWaits, id, display, status, deleteOpen, deleting, run>>

OpFails ==
    /\ op.pc # "idle"
    /\ deleting'   = (deleting   /\ ~(op.mounted /\ op.pc = "delete"))
    /\ converting' = (converting /\ ~(op.mounted /\ op.pc = "convert"))
    /\ op' = NoOp
    /\ UNCHANGED <<names, viewerWaits, id, display, status, deleteOpen, convertOpen, run>>

-----------------------------------------------------------------------------
FileInit ==
    /\ names = [f \in Files |-> "old"] /\ viewerWaits \in BOOLEAN /\ id = NoFile
    /\ file = NoFile /\ shownName = "old" /\ owner = NoFile /\ fileUrl = NoFile /\ directory = NoFile
    /\ fileLoading = FALSE /\ fileError = FALSE /\ previewType = NoFile /\ canPreview = TRUE
    /\ iframeError = FALSE
    /\ deleteOpen = FALSE /\ deleting = FALSE /\ convertOpen = FALSE /\ converting = FALSE
    /\ run = [r \in Runs |-> NoRun] /\ op = NoOp

RunStep(r) ==
    Metadata(r) \/ MetadataFails(r) \/ OwnerComes(r) \/ ContentComes(r) \/ DirectoryComes(r)
OpStep == Renamed \/ FileDeleted \/ Converted \/ OpFails

FileNext ==
    \/ \E r \in Runs :
          \/ RunStep(r) \/ Renew(r)
          \/ \E f \in Files : Visit(r, f) \/ Jump(r, f)
    \/ OpStep \/ Leave \/ PreviewBreaks \/ Rename \/ Ask \/ Cancel \/ DeleteFile \/ Convert

FileSpec ==
    /\ FileInit /\ [][FileNext]_fileVars
    /\ \A r \in Runs : WF_fileVars(RunStep(r))
    /\ WF_fileVars(OpStep)

-----------------------------------------------------------------------------
\* Whatever the user does meanwhile, a page that shows a file shows that of the address,
\* and the owner's name is that of its owner.
FileFollowsAddress ==
    FileOpen =>
        /\ file = id
        /\ owner \in {NoFile, file} /\ (owner # NoFile => owner \in Foreign)
        /\ viewerWaits /\ FileQuiet =>
              /\ previewType = file /\ shownName = names[file]
              /\ canPreview = (file \in Viewable \ Problematic /\ ~iframeError)
=============================================================================
