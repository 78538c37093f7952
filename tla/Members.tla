------------------------------ MODULE Members ------------------------------
(***************************************************************************)
(* Who may use a shared directory, as the front end shows and changes it:  *)
(* SharedSettingsPage with its members, roles and invitations, Folder-     *)
(* SettingsPage, which only renames and deletes, and UserSearch, which     *)
(* looks for people while they are typed and invites them.  The server's   *)
(* side of it is Sharing.                                                  *)
(***************************************************************************)
CONSTANTS
    People, Nobody,   \* but the creator of the directory, whom nobody changes
    Roles, NoRole,    \* NoRole: no member
    Works             \* bound: requests under way

ASSUME MembersAssumption == Nobody \notin People /\ NoRole \notin Roles

VARIABLES
    role, invited, dirName, trashed,    \* the server
    mayManage,                          \* the server: the user is an admin of it
    shared,                             \* which of the two pages of settings
    gentle,                             \* the user leaves alone what is being changed
    settingsOpen, settingsLoading, settingsError, canManage,
    members, shownDirName, pendingUser, inviting, deletingDir,
    query, typing, results, dropDown,   \* UserSearch: typing is its timer
    invitee, loadingDirs, canPick, asking, success,
    work

membersVars == <<role, invited, dirName, trashed, mayManage, shared, gentle, settingsOpen, settingsLoading,
                 settingsError, canManage, members, shownDirName, pendingUser, inviting, deletingDir,
                 query, typing, results, dropDown, invitee, loadingDirs, canPick, asking, success, work>>
directoryVars == <<role, invited, dirName, trashed>>
given         == <<mayManage, shared, gentle>>
settingsVars  == <<settingsOpen, settingsLoading, settingsError, canManage, members, shownDirName,
                   pendingUser, inviting, deletingDir>>
searchVars    == <<query, typing, results, dropDown>>
inviteVars    == <<invitee, loadingDirs, canPick, asking, success>>

OfSettings == {"load", "members", "role", "remove", "invite", "rename", "trash"}
OfSearch   == {"search", "dirs", "ask"}
NoWork     == [kind |-> "none", who |-> Nobody, from |-> NoRole, to |-> NoRole, mounted |-> FALSE]

MembersTypeOK ==
    /\ role \in [People -> Roles \cup {NoRole}] /\ members \in [People -> Roles \cup {NoRole}]
    /\ invited \subseteq People /\ {dirName, shownDirName} \subseteq {"old", "new"}
    /\ {trashed, mayManage, shared, gentle, settingsOpen, settingsLoading, settingsError,
        canManage, inviting, deletingDir, typing, dropDown, loadingDirs, canPick, asking, success} \subseteq BOOLEAN
    /\ {pendingUser, query, results, invitee} \subseteq People \cup {Nobody}
    /\ work \in [Works -> [kind : OfSettings \cup OfSearch \cup {"none"}, who : People \cup {Nobody},
                           from : Roles \cup {NoRole}, to : Roles \cup {NoRole}, mounted : BOOLEAN]]

-----------------------------------------------------------------------------
Doing(kinds)  == \E w \in Works : work[w].kind \in kinds
\* For a user who is gentle: nothing that an operation needs is under way.
Undisturbed(kinds) == gentle => ~Doing(kinds)
Shown         == settingsOpen /\ ~settingsLoading /\ ~settingsError

Starts(w, kind, p, from, to) ==
    /\ work[w].kind = "none"
    /\ work' = [work EXCEPT ![w] = [kind |-> kind, who |-> p, from |-> from, to |-> to, mounted |-> TRUE]]
Requests(w, kind, p) == Starts(w, kind, p, NoRole, NoRole)
Ends(w) == work' = [work EXCEPT ![w] = NoWork]

Forgotten == [w \in Works |-> IF work[w].kind \in OfSettings THEN [work[w] EXCEPT !.mounted = FALSE]
                                                              ELSE work[w]]

-----------------------------------------------------------------------------
(* The pages of settings.                                                  *)

OpenSettings(w) ==
    /\ ~settingsOpen /\ ~trashed /\ Undisturbed(OfSettings)
    /\ settingsOpen' = TRUE /\ settingsLoading' = TRUE /\ settingsError' = FALSE
    /\ canManage' = FALSE /\ members' = [p \in People |-> NoRole] /\ shownDirName' = dirName
    /\ pendingUser' = Nobody /\ inviting' = FALSE /\ deletingDir' = FALSE
    /\ Requests(w, "load", Nobody)
    /\ UNCHANGED <<directoryVars, given, searchVars, inviteVars>>

\* The access token is renewed.
TokenRenewed(w) ==
    /\ settingsOpen /\ Undisturbed(OfSettings)
    /\ settingsLoading' = TRUE /\ settingsError' = FALSE
    /\ Requests(w, "load", Nobody)
    /\ UNCHANGED <<directoryVars, given, settingsOpen, canManage, members, shownDirName, pendingUser,
                   inviting, deletingDir, searchVars, inviteVars>>

LeaveSettings ==
    /\ settingsOpen /\ Undisturbed(OfSettings)
    /\ settingsOpen' = FALSE /\ work' = Forgotten
    /\ UNCHANGED <<directoryVars, given, settingsLoading, settingsError, canManage, members, shownDirName,
                   pendingUser, inviting, deletingDir, searchVars, inviteVars>>

\* The directory and what the user may do with it; then, of a shared one, its members.
DirectoryArrives(w) ==
    /\ work[w].kind = "load"
    /\ IF ~work[w].mounted THEN Ends(w) /\ UNCHANGED settingsVars
       ELSE IF trashed
       THEN /\ settingsError' = TRUE /\ settingsLoading' = FALSE /\ Ends(w)
            /\ UNCHANGED <<settingsOpen, canManage, members, shownDirName, pendingUser, inviting, deletingDir>>
       ELSE /\ shownDirName' = dirName /\ canManage' = mayManage
            /\ settingsLoading' = (settingsLoading /\ shared)
            /\ IF shared THEN work' = [work EXCEPT ![w].kind = "members"] ELSE Ends(w)
            /\ UNCHANGED <<settingsOpen, settingsError, members, pendingUser, inviting, deletingDir>>
    /\ UNCHANGED <<directoryVars, given, searchVars, inviteVars>>

MembersArrive(w) ==
    /\ work[w].kind = "members"
    /\ IF work[w].mounted THEN members' = role /\ settingsLoading' = FALSE
                          ELSE UNCHANGED <<members, settingsLoading>>
    /\ Ends(w)
    /\ UNCHANGED <<directoryVars, given, settingsOpen, settingsError, canManage, shownDirName, pendingUser,
                   inviting, deletingDir, searchVars, inviteVars>>

LoadingFails(w) ==
    /\ work[w].kind \in {"load", "members"}
    /\ settingsError' = (settingsError \/ work[w].mounted)
    /\ settingsLoading' = (settingsLoading /\ ~work[w].mounted)
    /\ Ends(w)
    /\ UNCHANGED <<directoryVars, given, settingsOpen, canManage, members, shownDirName, pendingUser,
                   inviting, deletingDir, searchVars, inviteVars>>

\* The row of a member is disabled while it is the pending one, which is the last one
\* that was changed; whoever is gentle does not change it twice anyway.
Editable(p) ==
    /\ Shown /\ shared /\ canManage /\ members[p] # NoRole /\ pendingUser # p
    /\ gentle => \A w \in Works : work[w].who # p

\* handleChangeRole, with its optimistic update.
ChangeRole(w, p, to) ==
    /\ Editable(p) /\ to # members[p]
    /\ Starts(w, "role", p, members[p], to)
    /\ members' = [members EXCEPT ![p] = to] /\ pendingUser' = p
    /\ UNCHANGED <<directoryVars, given, settingsOpen, settingsLoading, settingsError, canManage,
                   shownDirName, inviting, deletingDir, searchVars, inviteVars>>

RemoveMember(w, p) ==
    /\ Editable(p)
    /\ Requests(w, "remove", p)
    /\ pendingUser' = p
    /\ UNCHANGED <<directoryVars, given, settingsOpen, settingsLoading, settingsError, canManage, members,
                   shownDirName, inviting, deletingDir, searchVars, inviteVars>>

\* The answer to either; finally nobody is pending, whoever it is by now.
MemberChanged(w) ==
    LET c == work[w] IN
    /\ c.kind \in {"role", "remove"} /\ role[c.who] # NoRole
    /\ role' = [role EXCEPT ![c.who] = c.to]
    /\ members' = IF c.kind = "remove" /\ c.mounted THEN [members EXCEPT ![c.who] = NoRole] ELSE members
    /\ pendingUser' = IF c.mounted THEN Nobody ELSE pendingUser
    /\ Ends(w)
    /\ UNCHANGED <<invited, dirName, trashed, given, settingsOpen, settingsLoading, settingsError, canManage,
                   shownDirName, inviting, deletingDir, searchVars, inviteVars>>

\* Mutant: the optimistic role stays.
ChangeRefusedKeeps(w) ==
    LET c == work[w] IN
    /\ c.kind \in {"role", "remove"}
    /\ UNCHANGED members
    /\ pendingUser' = IF c.mounted THEN Nobody ELSE pendingUser
    /\ Ends(w)
    /\ UNCHANGED <<directoryVars, given, settingsOpen, settingsLoading, settingsError, canManage,
                   shownDirName, inviting, deletingDir, searchVars, inviteVars>>

\* The role before is put back, if the member is still in the list.
ChangeRefused(w) ==
    LET c == work[w] IN
    /\ c.kind \in {"role", "remove"}
    /\ members' = IF c.kind = "role" /\ c.mounted /\ members[c.who] # NoRole
                  THEN [members EXCEPT ![c.who] = c.from] ELSE members
    /\ pendingUser' = IF c.mounted THEN Nobody ELSE pendingUser
    /\ Ends(w)
    /\ UNCHANGED <<directoryVars, given, settingsOpen, settingsLoading, settingsError, canManage,
                   shownDirName, inviting, deletingDir, searchVars, inviteVars>>

\* handleInvite, which the Enter key calls again, handleRenameDirectory and
\* handleDeleteDirectory.
Manage(w, kind, p) ==
    /\ Shown /\ canManage /\ Undisturbed({kind})
    /\ kind \in {"invite", "rename", "trash"}
    /\ kind = "invite" => shared
    /\ kind # "invite" => p = Nobody
    /\ kind = "trash"  => ~deletingDir
    /\ Requests(w, kind, p)
    /\ inviting' = (inviting \/ kind = "invite") /\ deletingDir' = (deletingDir \/ kind = "trash")
    /\ UNCHANGED <<directoryVars, given, settingsOpen, settingsLoading, settingsError, canManage, members,
                   shownDirName, pendingUser, searchVars, inviteVars>>

\* A deletion leads away from the page, and from whatever page the user is on.
Managed(w) ==
    LET c == work[w] IN
    /\ c.kind \in {"invite", "rename", "trash"}
    /\ invited' = IF c.kind = "invite" THEN invited \cup {c.who} ELSE invited
    /\ dirName' = IF c.kind = "rename" THEN "new" ELSE dirName
    /\ trashed' = (trashed \/ c.kind = "trash")
    /\ inviting' = (inviting /\ ~(c.mounted /\ c.kind = "invite"))
    /\ shownDirName' = IF c.mounted /\ c.kind = "rename" THEN "new" ELSE shownDirName
    /\ IF c.kind = "trash"
       THEN settingsOpen' = FALSE /\ work' = [Forgotten EXCEPT ![w] = NoWork]
       ELSE UNCHANGED settingsOpen /\ Ends(w)
    /\ UNCHANGED <<role, given, settingsLoading, settingsError, canManage, members, pendingUser,
                   deletingDir, searchVars, inviteVars>>

ManagingFails(w) ==
    LET c == work[w] IN
    /\ c.kind \in {"invite", "rename", "trash"}
    /\ inviting' = (inviting /\ ~(c.mounted /\ c.kind = "invite"))
    /\ deletingDir' = (deletingDir /\ ~(c.mounted /\ c.kind = "trash"))
    /\ Ends(w)
    /\ UNCHANGED <<directoryVars, given, settingsOpen, settingsLoading, settingsError, canManage, members,
                   shownDirName, pendingUser, searchVars, inviteVars>>

-----------------------------------------------------------------------------
(* UserSearch.  A query stands for the one person that it finds; Nobody is *)
(* one that is too short.                                                  *)

TypeQuery(q) ==
    /\ q # query /\ Undisturbed(OfSearch)
    /\ query' = q /\ typing' = (q # Nobody) /\ dropDown' = TRUE
    /\ results' = IF q = Nobody THEN Nobody ELSE results
    /\ UNCHANGED <<directoryVars, given, settingsVars, inviteVars, work>>

\* The effect of another access token: the timer starts again.
SearchAgain ==
    /\ query # Nobody /\ Undisturbed(OfSearch)
    /\ typing' = TRUE
    /\ UNCHANGED <<directoryVars, given, settingsVars, query, results, dropDown, inviteVars, work>>

ClickOutside ==
    /\ dropDown /\ dropDown' = FALSE
    /\ UNCHANGED <<directoryVars, given, settingsVars, query, typing, results, inviteVars, work>>

\* The timer of the last key.
Search(w) ==
    /\ typing /\ Requests(w, "search", query)
    /\ typing' = FALSE
    /\ UNCHANGED <<directoryVars, given, settingsVars, query, results, dropDown, inviteVars>>

\* Whatever the query is by now.
SearchEnds(w) ==
    /\ work[w].kind = "search"
    /\ results' \in {work[w].who, Nobody}
    /\ Ends(w)
    /\ UNCHANGED <<directoryVars, given, settingsVars, query, typing, dropDown, inviteVars>>

OpenInvite(w, p) ==
    /\ dropDown /\ query # Nobody /\ results = p /\ invitee = Nobody /\ Undisturbed(OfSearch)
    /\ dropDown' = FALSE
    /\ invitee' = p /\ success' = FALSE /\ loadingDirs' = TRUE
    /\ Requests(w, "dirs", Nobody)
    /\ UNCHANGED <<directoryVars, given, settingsVars, query, typing, results, canPick, asking>>

CloseInvite ==
    /\ invitee # Nobody /\ Undisturbed(OfSearch)
    /\ invitee' = Nobody
    /\ UNCHANGED <<directoryVars, given, settingsVars, searchVars, loadingDirs, canPick, asking, success, work>>

DirsEnd(w) ==
    /\ work[w].kind = "dirs"
    /\ canPick' \in BOOLEAN /\ loadingDirs' = FALSE
    /\ Ends(w)
    /\ UNCHANGED <<directoryVars, given, settingsVars, searchVars, invitee, asking, success>>

SendInvite(w) ==
    /\ invitee # Nobody /\ canPick /\ ~loadingDirs /\ ~asking /\ ~success
    /\ Requests(w, "ask", invitee)
    /\ asking' = TRUE
    /\ UNCHANGED <<directoryVars, given, settingsVars, searchVars, invitee, loadingDirs, canPick, success>>

\* "The invitation was sent", whoever the dialog is for by now.
InviteSent(w) ==
    /\ work[w].kind = "ask" /\ role[work[w].who] = NoRole
    /\ invited' = invited \cup {work[w].who}
    /\ success' = TRUE /\ asking' = FALSE
    /\ Ends(w)
    /\ UNCHANGED <<role, dirName, trashed, given, settingsVars, searchVars, invitee, loadingDirs, canPick>>

InviteFails(w) ==
    /\ work[w].kind = "ask"
    /\ asking' = FALSE
    /\ Ends(w)
    /\ UNCHANGED <<directoryVars, given, settingsVars, searchVars, invitee, loadingDirs, canPick, success>>

-----------------------------------------------------------------------------
MembersInit ==
    /\ role \in [People -> Roles \cup {NoRole}] /\ invited = {} /\ dirName = "old" /\ trashed = FALSE
    /\ mayManage \in BOOLEAN /\ shared \in BOOLEAN /\ gentle \in BOOLEAN
    /\ settingsOpen = FALSE /\ settingsLoading = FALSE /\ settingsError = FALSE /\ canManage = FALSE
    /\ members = [p \in People |-> NoRole] /\ shownDirName = "old" /\ pendingUser = Nobody
    /\ inviting = FALSE /\ deletingDir = FALSE
    /\ query = Nobody /\ typing = FALSE /\ results = Nobody /\ dropDown = FALSE
    /\ invitee = Nobody /\ loadingDirs = FALSE /\ canPick = FALSE /\ asking = FALSE /\ success = FALSE
    /\ work = [w \in Works |-> NoWork]

WorkStep(w) ==
    \/ DirectoryArrives(w) \/ MembersArrive(w) \/ LoadingFails(w)
    \/ MemberChanged(w) \/ ChangeRefused(w) \/ Managed(w) \/ ManagingFails(w)
    \/ SearchEnds(w) \/ DirsEnd(w) \/ InviteSent(w) \/ InviteFails(w)

SettingsBegin(w) ==
    \/ OpenSettings(w) \/ TokenRenewed(w)
    \/ \E p \in People : RemoveMember(w, p) \/ \E to \in Roles : ChangeRole(w, p, to)
    \/ \E p \in People : Manage(w, "invite", p)
    \/ \E k \in {"rename", "trash"} : Manage(w, k, Nobody)

SearchBegin(w) ==
    Search(w) \/ SendInvite(w) \/ \E p \in People : OpenInvite(w, p)

MembersNext ==
    \/ \E w \in Works : WorkStep(w) \/ SettingsBegin(w) \/ SearchBegin(w)
    \/ LeaveSettings \/ CloseInvite \/ SearchAgain \/ ClickOutside
    \/ \E q \in People \cup {Nobody} : TypeQuery(q)

MembersSpec ==
    MembersInit /\ [][MembersNext]_membersVars /\ \A w \in Works : WF_membersVars(WorkStep(w))

-----------------------------------------------------------------------------
\* For a user who is gentle, but may change several members at once: every member that
\* nothing is under way for is shown with the role the server knows of, refused changes
\* included; the name is the server's; what the search has found is what was typed; and
\* who is said to be invited has been invited.
MembersFollowServer ==
    gentle =>
        /\ Shown /\ shared =>
              \A p \in People : members[p] = role[p] \/ \E w \in Works : work[w].who = p
        /\ Shown /\ ~Doing({"rename"}) => shownDirName = dirName
        /\ ~Doing({"search"}) /\ ~typing => results \in {query, Nobody}
        /\ success => invitee \in invited \cup {Nobody}

\* Every spinner goes away, and no row of a member stays disabled.
MembersBusy == \/ settingsOpen /\ (settingsLoading \/ pendingUser # Nobody)
               \/ loadingDirs \/ asking
MembersEnd  == MembersBusy ~> ~MembersBusy
=============================================================================
