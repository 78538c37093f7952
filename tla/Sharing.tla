-------------------------------- MODULE Sharing --------------------------------
(***************************************************************************)
(* internal/sharing and internal/access: the members of one shared         *)
(* directory, their roles, and the invitations to it.                      *)
(*                                                                         *)
(* A handler asks access.Can first and acts later, each statement for      *)
(* itself; a transaction is one step, at its commit.  No directory inside  *)
(* of the shared one is shared itself.                                     *)
(***************************************************************************)
EXTENDS Naturals

CONSTANTS
    Users, Invs, Reqs,
    Owner,       \* who shared the directory
    Answerers,   \* the requests that may change or delete invitations
    Inviters,    \* the requests that may create them
    None

ASSUME ConstantsOK ==
    /\ Owner \in Users
    /\ Answerers \subseteq Reqs /\ Inviters \subseteq Reqs
    /\ None \notin Users \cup Invs

VARIABLES
    shared,   \* BOOLEAN: the row of shared_directories
    user,     \* SUBSET Users: the accounts
    role,     \* [Users -> Roles \cup {"none"}]: shared_directory_members
    inv,      \* [Invs -> Invitation \cup {NoInv}]: directory_invitations
    req       \* [Reqs -> Request]

rows == <<shared, user, role, inv>>
vars == <<shared, user, role, inv, req>>

Roles    == {"viewer", "editor", "admin"}
Statuses == {"pending", "accepted", "declined", "revoked"}

\* CreateInvitation gives every invitation the role viewer.
Invitation == [to : Users, by : Users, status : Statuses]
NoInv      == [to |-> None, by |-> None, status |-> "revoked"]

Request ==
    [ pc : {"idle", "isMember", "createInvitation", "accept", "decline", "revoke",
            "changeRole", "removeMember"},
      by : Users \cup {None},            \* claims.UserID
      u  : Users \cup {None},            \* the user it is about
      i  : Invs \cup {None},
      to : Roles \cup {"none"} ]         \* the role to give

Idle == [pc |-> "idle", by |-> None, u |-> None, i |-> None, to |-> "none"]

At(r, pc) == req[r].pc = pc
Return(r) == req' = [req EXCEPT ![r] = Idle]
IsInv(i)  == inv[i] # NoInv
Pending(i, u) == IsInv(i) /\ inv[i].to = u /\ inv[i].status = "pending"
IsMember(u)   == role[u] # "none"

\* gen_random_uuid()
Fresh(i) == ~IsInv(i) /\ \A r \in Reqs : req[r].i # i

\* The matrix of roles and actions.
RoleCan(ro, action) ==
    CASE ro = "admin"  -> TRUE
      [] ro = "editor" -> action \in {"view", "download", "upload", "createFolder"}
      [] ro = "viewer" -> action \in {"view", "download"}
      [] OTHER         -> FALSE

\* Checker.Can: the owner may do anything.
Can(u, action) == shared /\ (u = Owner \/ RoleCan(role[u], action))

\* CreateShared has made the owner a member.
Init ==
    /\ shared = TRUE
    /\ user = Users
    /\ role = [u \in Users |-> IF u = Owner THEN "admin" ELSE "none"]
    /\ inv = [i \in Invs |-> NoInv]
    /\ req = [r \in Reqs |-> Idle]

-----------------------------------------------------------------------------
(* Invite.                                                                 *)

Invite(r, by, u) ==
    /\ At(r, "idle") /\ r \in Inviters
    /\ Can(by, "invite")
    /\ u \in user
    /\ req' = [req EXCEPT ![r] = [Idle EXCEPT !.pc = "isMember", !.by = by, !.u = u]]
    /\ UNCHANGED rows

InviteNonMember(r) ==
    /\ At(r, "isMember")
    /\ req' = [req EXCEPT ![r] = IF IsMember(req[r].u) THEN Idle
                                 ELSE [@ EXCEPT !.pc = "createInvitation"]]
    /\ UNCHANGED rows

\* Mutant: no index on the pending invitations.
CreateInvitationTwice(r, i) ==
    LET new == [to |-> req[r].u, by |-> req[r].by, status |-> "pending"] IN
    /\ At(r, "createInvitation") /\ Fresh(i)
    /\ inv' = IF shared /\ {new.to, new.by} \subseteq user
              THEN [inv EXCEPT ![i] = new] ELSE inv
    /\ Return(r)
    /\ UNCHANGED <<shared, user, role>>

\* INSERT: refused by a foreign key, or by the index on pending invitations.
CreateInvitation(r, i) ==
    LET new == [to |-> req[r].u, by |-> req[r].by, status |-> "pending"] IN
    /\ At(r, "createInvitation") /\ Fresh(i)
    /\ inv' = IF /\ shared /\ {new.to, new.by} \subseteq user
                 /\ \A j \in Invs : ~Pending(j, new.to)
              THEN [inv EXCEPT ![i] = new] ELSE inv
    /\ Return(r)
    /\ UNCHANGED <<shared, user, role>>

-----------------------------------------------------------------------------
(* AcceptInvitation, DeclineInvitation, RemoveInvitation.                  *)

AcceptInvitation(r, i) ==
    /\ At(r, "idle") /\ r \in Answerers
    /\ IsInv(i) /\ inv[i].status = "pending"
    /\ req' = [req EXCEPT ![r] = [Idle EXCEPT !.pc = "accept", !.by = inv[i].to,
                                              !.u = inv[i].to, !.i = i]]
    /\ UNCHANGED rows

DeclineInvitation(r, i) ==
    /\ At(r, "idle") /\ r \in Answerers
    /\ IsInv(i) /\ inv[i].status = "pending"
    /\ req' = [req EXCEPT ![r] = [Idle EXCEPT !.pc = "decline", !.by = inv[i].to, !.i = i]]
    /\ UNCHANGED rows

\* Whatever its status is.
RemoveInvitation(r, by, i) ==
    /\ At(r, "idle") /\ r \in Answerers
    /\ IsInv(i) /\ Can(by, "invite")
    /\ req' = [req EXCEPT ![r] = [Idle EXCEPT !.pc = "revoke", !.by = by, !.i = i]]
    /\ UNCHANGED rows

\* UPDATE ... WHERE id = $1: whatever its status is by now.
WithStatus(i, status) == IF IsInv(i) THEN [inv EXCEPT ![i].status = status] ELSE inv

\* AddMember, UpdateInvitationStatus and the commit.
CommitAccept(r) ==
    LET u == req[r].u IN
    /\ At(r, "accept")
    /\ IF shared /\ u \in user /\ ~IsMember(u)
       THEN /\ role' = [role EXCEPT ![u] = "viewer"]
            /\ inv' = WithStatus(req[r].i, "accepted")
       ELSE UNCHANGED <<role, inv>>
    /\ Return(r)
    /\ UNCHANGED <<shared, user>>

UpdateInvitationStatus(r) ==
    /\ \/ At(r, "decline") /\ inv' = WithStatus(req[r].i, "declined")
       \/ At(r, "revoke")  /\ inv' = WithStatus(req[r].i, "revoked")
    /\ Return(r)
    /\ UNCHANGED <<shared, user, role>>

-----------------------------------------------------------------------------
(* ChangeRole, RemoveMember.  FindMember only tells apart 404 and 200.     *)

ChangeRole(r, by, u, to) ==
    /\ At(r, "idle") /\ Can(by, "changeRole")
    /\ req' = [req EXCEPT ![r] = [Idle EXCEPT !.pc = "changeRole", !.by = by, !.u = u, !.to = to]]
    /\ UNCHANGED rows

\* Mutant: the role is inserted if the member is gone.
UpdateMemberRoleUpserts(r) ==
    LET u == req[r].u IN
    /\ At(r, "changeRole")
    /\ role' = IF shared /\ u \in user THEN [role EXCEPT ![u] = req[r].to] ELSE role
    /\ Return(r)
    /\ UNCHANGED <<shared, user, inv>>

\* UPDATE ... WHERE user_id = $2: nothing if the member is gone by now.
UpdateMemberRole(r) ==
    LET u == req[r].u IN
    /\ At(r, "changeRole")
    /\ role' = IF IsMember(u) THEN [role EXCEPT ![u] = req[r].to] ELSE role
    /\ Return(r)
    /\ UNCHANGED <<shared, user, inv>>

\* Mutant: the owner can be removed.
RemoveAnyMember(r, by, u) ==
    /\ At(r, "idle") /\ Can(by, "removeMember")
    /\ req' = [req EXCEPT ![r] = [Idle EXCEPT !.pc = "removeMember", !.by = by, !.u = u]]
    /\ UNCHANGED rows

RemoveMember(r, by, u) ==
    /\ At(r, "idle") /\ Can(by, "removeMember")
    /\ u # Owner
    /\ req' = [req EXCEPT ![r] = [Idle EXCEPT !.pc = "removeMember", !.by = by, !.u = u]]
    /\ UNCHANGED rows

DeleteMember(r) ==
    /\ At(r, "removeMember")
    /\ role' = [role EXCEPT ![req[r].u] = "none"]
    /\ Return(r)
    /\ UNCHANGED <<shared, user, inv>>

-----------------------------------------------------------------------------
(* The deletions of other packages, with ON DELETE CASCADE.                *)

\* PermanentDelete of the directory, or of one above it.
PurgeDirectory(r) ==
    /\ At(r, "idle") /\ shared
    /\ shared' = FALSE
    /\ role' = [u \in Users |-> "none"]
    /\ inv' = [i \in Invs |-> NoInv]
    /\ UNCHANGED <<user, req>>

\* DeleteAccount: an invitation goes with who sent it and with who got it.
DeleteUserAndRelatedData(r, u) ==
    LET all == u = Owner IN
    /\ At(r, "idle") /\ r \in Answerers /\ u \in user
    /\ user' = user \ {u}
    /\ shared' = (shared /\ ~all)
    /\ role' = [v \in Users |-> IF all \/ v = u THEN "none" ELSE role[v]]
    /\ inv' = [i \in Invs |-> IF all \/ u \in {inv[i].to, inv[i].by} THEN NoInv ELSE inv[i]]
    /\ UNCHANGED req

-----------------------------------------------------------------------------
Start(r) ==
    \/ \E by, u \in Users : Invite(r, by, u) \/ RemoveMember(r, by, u)
    \/ \E by, u \in Users, to \in Roles : ChangeRole(r, by, u, to)
    \/ \E i \in Invs : AcceptInvitation(r, i) \/ DeclineInvitation(r, i)
    \/ \E by \in Users, i \in Invs : RemoveInvitation(r, by, i)
    \/ \E u \in Users : DeleteUserAndRelatedData(r, u)
    \/ PurgeDirectory(r)

Proceed(r) ==
    \/ InviteNonMember(r)
    \/ \E i \in Invs : CreateInvitation(r, i)
    \/ CommitAccept(r) \/ UpdateInvitationStatus(r)
    \/ UpdateMemberRole(r) \/ DeleteMember(r)

Next == \E r \in Reqs : Start(r) \/ Proceed(r)

Spec == Init /\ [][Next]_vars

-----------------------------------------------------------------------------
(* Properties.                                                             *)

\* Types, the foreign keys of members and invitations, and the index: one
\* pending invitation a user.
TypeOK ==
    /\ shared \in BOOLEAN
    /\ user \subseteq Users
    /\ role \in [Users -> Roles \cup {"none"}]
    /\ inv \in [Invs -> Invitation \cup {NoInv}]
    /\ req \in [Reqs -> Request]
    /\ \A u \in Users : IsMember(u) => shared /\ u \in user
    /\ \A i \in Invs : IsInv(i) => shared /\ {inv[i].to, inv[i].by} \subseteq user
    /\ \A i, j \in Invs, u \in Users : Pending(i, u) /\ Pending(j, u) => i = j

\* The owner stays a member as long as the directory is shared, whatever the
\* admins do to each other: RemoveMember refuses the owner.
OwnerStays == shared => IsMember(Owner)

\* Nobody becomes a member but by accepting an invitation that is pending, and
\* that invitation is used up: a role that is changed while its member is
\* removed does not bring the member back.
JoinsByPending ==
    [][\A u \in Users : ~IsMember(u) /\ role'[u] # "none" =>
         \E i \in Invs : Pending(i, u) /\ inv'[i] = [inv[i] EXCEPT !.status = "accepted"]]_vars

\* A member has no pending invitation: Invite looks for the member first, and
\* accepting answers the only one that can be pending.
MembersNotInvited == \A u \in Users, i \in Invs : IsMember(u) => ~Pending(i, u)

\* Both: whatever is answered, changed and removed, members are what they were.
MembersStand == OwnerStays /\ MembersNotInvited
================================================================================
