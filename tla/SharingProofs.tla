----------------------------- MODULE SharingProofs -----------------------------
(***************************************************************************)
(* For any users, invitations and requests: types, foreign keys and the    *)
(* owner's membership.  If one request at a time answers or deletes        *)
(* invitations, nobody joins without a pending one; if the same request is *)
(* the only one that invites, no member is invited.                        *)
(***************************************************************************)
EXTENDS Sharing, TLAPS

\* What a request q that r is serving holds at each step.
ArgsOf(r, q) ==
    /\ q.pc \in {"isMember", "createInvitation"} =>
           q.by \in Users /\ q.u \in Users /\ r \in Inviters
    /\ q.pc \in {"accept", "decline", "revoke"} => q.i \in Invs /\ r \in Answerers
    /\ q.pc = "accept" => q.u \in Users
    /\ q.pc = "changeRole" => q.u \in Users /\ q.to \in Roles
    /\ q.pc = "removeMember" => q.u \in Users \ {Owner}

Args == \A r \in Reqs : ArgsOf(r, req[r])

IInv == TypeOK /\ Args /\ OwnerStays

\* The part of TypeOK that is about the rows.
RowsOK ==
    /\ shared \in BOOLEAN
    /\ user \subseteq Users
    /\ role \in [Users -> Roles \cup {"none"}]
    /\ inv \in [Invs -> Invitation \cup {NoInv}]
    /\ \A u \in Users : IsMember(u) => shared /\ u \in user
    /\ \A i \in Invs : IsInv(i) => shared /\ {inv[i].to, inv[i].by} \subseteq user
    /\ \A i, j \in Invs, u \in Users : Pending(i, u) /\ Pending(j, u) => i = j

\* The invitation that is being accepted is still pending.
AcceptsPending ==
    \A r \in Reqs : At(r, "accept") /\ shared => Pending(req[r].i, req[r].u)

\* The user who is being invited is still no member.
InvitesStranger == \A r \in Reqs : At(r, "createInvitation") => ~IsMember(req[r].u)

OneAnswerer == \A q, r \in Answerers : q = r
OneActor    == \A q, r \in Answerers \cup Inviters : q = r

-----------------------------------------------------------------------------
LEMMA IdleTyped == Idle \in Request /\ \A r \in Reqs : ArgsOf(r, Idle)
  BY DEF Idle, Request, ArgsOf

LEMMA NoInvIsNone == NoInv \notin Invitation
  BY ConstantsOK DEF NoInv, Invitation

LEMMA InitOK == Init => IInv /\ AcceptsPending /\ InvitesStranger /\ MembersNotInvited
<1> SUFFICES ASSUME Init
             PROVE  IInv /\ AcceptsPending /\ InvitesStranger /\ MembersNotInvited
  OBVIOUS
<1>1. \A i \in Invs : ~IsInv(i)
  BY DEF Init, IsInv
<1>2. \A r \in Reqs : req[r] = Idle
  BY DEF Init
<1>3. TypeOK
  BY <1>1, <1>2, IdleTyped, ConstantsOK DEF Init, TypeOK, IsMember, Pending, Roles
<1>4. Args /\ AcceptsPending /\ InvitesStranger
  BY <1>2, IdleTyped DEF Args, AcceptsPending, InvitesStranger, At, Idle
<1>5. OwnerStays /\ MembersNotInvited
  BY <1>1, ConstantsOK DEF Init, OwnerStays, MembersNotInvited, IsMember, Pending
<1> QED BY <1>3, <1>4, <1>5 DEF IInv

\* A step of the request r that leaves the rows as they are.
LEMMA ReqOnly ==
    ASSUME IInv, NEW r \in Reqs, NEW new \in Request, ArgsOf(r, new),
           req' = [req EXCEPT ![r] = new], UNCHANGED rows
    PROVE  IInv'
<1>1. RowsOK' /\ OwnerStays'
  BY DEF IInv, TypeOK, OwnerStays, rows, RowsOK, IsMember, IsInv, Pending
<1>2. (req \in [Reqs -> Request])' /\ Args'
  BY DEF IInv, TypeOK, Args
<1> QED BY <1>1, <1>2 DEF IInv, TypeOK, RowsOK

\* A step that ends the request r.
LEMMA ReqEnds ==
    ASSUME IInv, NEW r \in Reqs, Return(r), RowsOK', OwnerStays'
    PROVE  IInv'
<1>1. (req \in [Reqs -> Request])' /\ Args'
  BY IdleTyped DEF IInv, TypeOK, Args, Return
<1> QED BY <1>1 DEF IInv, TypeOK, RowsOK

\* A change of the status of an invitation that does not make it pending.
LEMMA StatusKept ==
    ASSUME IInv, NEW i \in Invs, NEW status \in Statuses, status # "pending",
           inv' = WithStatus(i, status)
    PROVE  /\ inv' \in [Invs -> Invitation \cup {NoInv}]
           /\ \A j \in Invs : IsInv(j)' => IsInv(j) /\ inv'[j].to = inv[j].to /\ inv'[j].by = inv[j].by
           /\ \A j \in Invs, u \in Users : Pending(j, u)' => Pending(j, u) /\ j # i
<1>1. CASE ~IsInv(i)
  BY <1>1 DEF IInv, TypeOK, WithStatus, IsInv, Pending
<1>2. CASE IsInv(i)
  <2>1. inv[i] \in Invitation /\ inv' = [inv EXCEPT ![i].status = status]
    BY <1>2 DEF IInv, TypeOK, IsInv, WithStatus
  <2>2. /\ inv'[i] = [inv[i] EXCEPT !.status = status]
        /\ \A j \in Invs \ {i} : inv'[j] = inv[j]
    BY <2>1 DEF IInv, TypeOK
  <2>3. inv'[i] \in Invitation /\ inv'[i].to = inv[i].to /\ inv'[i].by = inv[i].by
        /\ inv'[i].status = status
    BY <2>1, <2>2 DEF Invitation
  <2>4. inv' \in [Invs -> Invitation \cup {NoInv}]
    BY <2>1, <2>2, <2>3 DEF IInv, TypeOK
  <2>5. \A j \in Invs : IsInv(j)' => IsInv(j) /\ inv'[j].to = inv[j].to /\ inv'[j].by = inv[j].by
    BY <1>2, <2>2, <2>3 DEF IsInv
  <2>6. \A j \in Invs, u \in Users : Pending(j, u)' => Pending(j, u) /\ j # i
    BY <2>2, <2>3, <2>5 DEF Pending
  <2> QED BY <2>4, <2>5, <2>6
<1> QED BY <1>1, <1>2

\* A role is only given to one who had one, and none is taken.
LEMMA RoleStep ==
    ASSUME IInv, NEW u \in Users, NEW to \in Roles \cup {"none"},
           IsMember(u) \/ (shared /\ u \in user),
           to = "none" => u # Owner,
           role' = [role EXCEPT ![u] = to],
           UNCHANGED <<shared, user, inv>>
    PROVE  RowsOK' /\ OwnerStays'
<1>1. role' \in [Users -> Roles \cup {"none"}]
  BY DEF IInv, TypeOK
<1>2. \A v \in Users : IsMember(v)' => shared' /\ v \in user'
  BY DEF IInv, TypeOK, IsMember
<1>3. OwnerStays'
  BY ConstantsOK DEF IInv, TypeOK, OwnerStays, IsMember, Roles
<1> QED BY <1>1, <1>2, <1>3 DEF IInv, TypeOK, RowsOK, IsInv, Pending

-----------------------------------------------------------------------------
(* Every step keeps IInv.                                                  *)

LEMMA StartsKeep == ASSUME IInv, NEW r \in Reqs, Start(r) PROVE IInv'
<1>1. ASSUME NEW by \in Users, NEW u \in Users, Invite(r, by, u) PROVE IInv'
  <2> DEFINE new == [Idle EXCEPT !.pc = "isMember", !.by = by, !.u = u]
  <2>1. new \in Request /\ ArgsOf(r, new)
    BY <1>1 DEF Invite, Idle, Request, ArgsOf
  <2> QED BY <1>1, <2>1, ReqOnly DEF Invite
<1>2. ASSUME NEW by \in Users, NEW u \in Users, RemoveMember(r, by, u) PROVE IInv'
  <2> DEFINE new == [Idle EXCEPT !.pc = "removeMember", !.by = by, !.u = u]
  <2>1. new \in Request /\ ArgsOf(r, new)
    BY <1>2 DEF RemoveMember, Idle, Request, ArgsOf
  <2> QED BY <1>2, <2>1, ReqOnly DEF RemoveMember
<1>3. ASSUME NEW by \in Users, NEW u \in Users, NEW to \in Roles, ChangeRole(r, by, u, to)
      PROVE  IInv'
  <2> DEFINE new == [Idle EXCEPT !.pc = "changeRole", !.by = by, !.u = u, !.to = to]
  <2>1. new \in Request /\ ArgsOf(r, new)
    BY <1>3 DEF ChangeRole, Idle, Request, ArgsOf
  <2> QED BY <1>3, <2>1, ReqOnly DEF ChangeRole
<1>4. ASSUME NEW i \in Invs, AcceptInvitation(r, i) \/ DeclineInvitation(r, i) PROVE IInv'
  <2> DEFINE new(pc, u) == [Idle EXCEPT !.pc = pc, !.by = inv[i].to, !.u = u, !.i = i]
             new2 == [Idle EXCEPT !.pc = "decline", !.by = inv[i].to, !.i = i]
  <2>1. inv[i].to \in Users
    BY <1>4 DEF IInv, TypeOK, AcceptInvitation, DeclineInvitation, IsInv, Invitation
  <2>2. CASE AcceptInvitation(r, i)
    <3>1. new("accept", inv[i].to) \in Request /\ ArgsOf(r, new("accept", inv[i].to))
      BY <2>1, <2>2 DEF AcceptInvitation, Idle, Request, ArgsOf
    <3>2. req' = [req EXCEPT ![r] = new("accept", inv[i].to)] /\ UNCHANGED rows
      BY <2>2 DEF AcceptInvitation
    <3> HIDE DEF new
    <3> QED BY <3>1, <3>2, ReqOnly
  <2>3. CASE DeclineInvitation(r, i)
    <3>1. new2 \in Request /\ ArgsOf(r, new2)
      BY <2>1, <2>3 DEF DeclineInvitation, Idle, Request, ArgsOf
    <3>2. req' = [req EXCEPT ![r] = new2] /\ UNCHANGED rows
      BY <2>3 DEF DeclineInvitation
    <3> HIDE DEF new2
    <3> QED BY <3>1, <3>2, ReqOnly
  <2> QED BY <1>4, <2>2, <2>3
<1>5. ASSUME NEW by \in Users, NEW i \in Invs, RemoveInvitation(r, by, i) PROVE IInv'
  <2> DEFINE new == [Idle EXCEPT !.pc = "revoke", !.by = by, !.i = i]
  <2>1. new \in Request /\ ArgsOf(r, new)
    BY <1>5 DEF RemoveInvitation, Idle, Request, ArgsOf
  <2> QED BY <1>5, <2>1, ReqOnly DEF RemoveInvitation
<1>6. ASSUME NEW u \in Users, DeleteUserAndRelatedData(r, u) PROVE IInv'
  <2> USE <1>6 DEF DeleteUserAndRelatedData
  <2>1. /\ shared' \in BOOLEAN /\ user' \subseteq Users
        /\ role' \in [Users -> Roles \cup {"none"}]
        /\ inv' \in [Invs -> Invitation \cup {NoInv}]
    BY DEF IInv, TypeOK
  <2>2. \A v \in Users : IsMember(v)' => shared' /\ v \in user'
    BY DEF IInv, TypeOK, IsMember
  <2>3. \A i \in Invs : IsInv(i)' => inv'[i] = inv[i] /\ IsInv(i) /\ u # Owner
                                     /\ u \notin {inv[i].to, inv[i].by}
    BY DEF IsInv
  <2>4. \A i \in Invs : IsInv(i)' => shared' /\ {inv'[i].to, inv'[i].by} \subseteq user'
    BY <2>3 DEF IInv, TypeOK
  <2>5. \A i, j \in Invs, v \in Users : Pending(i, v)' /\ Pending(j, v)' => i = j
    BY <2>3 DEF IInv, TypeOK, Pending
  <2>6. OwnerStays'
    BY ConstantsOK DEF IInv, OwnerStays, IsMember
  <2>7. (req \in [Reqs -> Request])' /\ Args'
    BY DEF IInv, TypeOK, Args
  <2> QED BY <2>1, <2>2, <2>4, <2>5, <2>6, <2>7 DEF IInv, TypeOK
<1>7. CASE PurgeDirectory(r)
  <2>1. \A i \in Invs : ~IsInv(i)'
    BY <1>7 DEF PurgeDirectory, IsInv
  <2>2. RowsOK' /\ OwnerStays'
    BY <1>7, <2>1 DEF PurgeDirectory, IInv, TypeOK, RowsOK, OwnerStays, IsMember, Pending
  <2>3. (req \in [Reqs -> Request])' /\ Args'
    BY <1>7 DEF PurgeDirectory, IInv, TypeOK, Args
  <2> QED BY <2>2, <2>3 DEF IInv, TypeOK, RowsOK
<1> QED BY <1>1, <1>2, <1>3, <1>4, <1>5, <1>6, <1>7 DEF Start

LEMMA ProceedsKeep == ASSUME IInv, NEW r \in Reqs, Proceed(r) PROVE IInv'
<1> USE DEF ArgsOf
<1>1. CASE InviteNonMember(r)
  <2> DEFINE new == IF IsMember(req[r].u) THEN Idle
                    ELSE [req[r] EXCEPT !.pc = "createInvitation"]
  <2>1. req[r] \in Request /\ ArgsOf(r, req[r]) /\ At(r, "isMember")
    BY <1>1 DEF IInv, TypeOK, Args, InviteNonMember
  <2>2. new \in Request /\ ArgsOf(r, new)
    BY <2>1, IdleTyped DEF Request, At
  <2>3. req' = [req EXCEPT ![r] = new] /\ UNCHANGED rows
    BY <1>1, <2>1 DEF InviteNonMember, IInv, TypeOK
  <2> HIDE DEF new
  <2> QED BY <2>2, <2>3, ReqOnly
<1>2. ASSUME NEW i \in Invs, CreateInvitation(r, i) PROVE IInv'
  <2> DEFINE new == [to |-> req[r].u, by |-> req[r].by, status |-> "pending"]
  <2>1. new \in Invitation /\ ~IsInv(i)
    BY <1>2 DEF IInv, Args, At, CreateInvitation, Fresh, Invitation, Statuses
  <2>2. CASE inv' = inv
    <3>1. RowsOK' /\ OwnerStays'
      BY <1>2, <2>2 DEF CreateInvitation, IInv, TypeOK, OwnerStays, RowsOK, IsMember, IsInv, Pending
    <3> QED BY <1>2, <3>1, ReqEnds DEF CreateInvitation
  <2>3. CASE /\ shared /\ {new.to, new.by} \subseteq user
             /\ \A j \in Invs : ~Pending(j, new.to)
             /\ inv' = [inv EXCEPT ![i] = new]
    <3>1. inv' \in [Invs -> Invitation \cup {NoInv}] /\ inv'[i] = new
          /\ \A j \in Invs \ {i} : inv'[j] = inv[j]
      BY <2>1, <2>3 DEF IInv, TypeOK
    <3>2. \A j \in Invs : IsInv(j)' => shared' /\ {inv'[j].to, inv'[j].by} \subseteq user'
      BY <1>2, <2>3, <3>1 DEF IInv, TypeOK, IsInv, CreateInvitation
    <3>3. \A j, k \in Invs, u \in Users : Pending(j, u)' /\ Pending(k, u)' => j = k
      BY <2>3, <3>1 DEF IInv, TypeOK, IsInv, Pending
    <3>4. RowsOK' /\ OwnerStays'
      BY <1>2, <3>1, <3>2, <3>3 DEF CreateInvitation, IInv, TypeOK, OwnerStays, RowsOK, IsMember
    <3> QED BY <1>2, <3>4, ReqEnds DEF CreateInvitation
  <2> QED BY <1>2, <2>2, <2>3 DEF CreateInvitation
<1>3. CASE CommitAccept(r)
  <2> DEFINE u == req[r].u
  <2>1. u \in Users /\ req[r].i \in Invs
    BY <1>3 DEF IInv, Args, At, CommitAccept
  <2>2. CASE ~(shared /\ u \in user /\ ~IsMember(u))
    <3>1. RowsOK' /\ OwnerStays'
      BY <1>3, <2>2 DEF CommitAccept, IInv, TypeOK, OwnerStays, RowsOK, IsMember, IsInv, Pending
    <3> QED BY <1>3, <3>1, ReqEnds DEF CommitAccept
  <2>3. CASE shared /\ u \in user /\ ~IsMember(u)
    <3>1. /\ role' = [role EXCEPT ![u] = "viewer"] /\ inv' = WithStatus(req[r].i, "accepted")
          /\ UNCHANGED <<shared, user>>
      BY <1>3, <2>3 DEF CommitAccept
    <3>2. /\ inv' \in [Invs -> Invitation \cup {NoInv}]
          /\ \A j \in Invs : IsInv(j)' => IsInv(j) /\ inv'[j].to = inv[j].to /\ inv'[j].by = inv[j].by
          /\ \A j \in Invs, v \in Users : Pending(j, v)' => Pending(j, v)
      BY <2>1, <3>1, StatusKept DEF Statuses
    <3>3. role' \in [Users -> Roles \cup {"none"}] /\ \A v \in Users : IsMember(v)' => IsMember(v) \/ v = u
      BY <2>1, <3>1 DEF IInv, TypeOK, IsMember, Roles
    <3>4. RowsOK'
      BY <2>3, <3>1, <3>2, <3>3 DEF IInv, TypeOK, RowsOK
    <3>5. OwnerStays'
      BY <2>1, <3>1, ConstantsOK DEF IInv, TypeOK, OwnerStays, IsMember
    <3> QED BY <1>3, <3>4, <3>5, ReqEnds DEF CommitAccept
  <2> QED BY <2>2, <2>3
<1>4. CASE UpdateInvitationStatus(r)
  <2>1. req[r].i \in Invs
    BY <1>4 DEF IInv, Args, At, UpdateInvitationStatus
  <2>2. PICK status \in Statuses : status # "pending" /\ inv' = WithStatus(req[r].i, status)
    BY <1>4 DEF UpdateInvitationStatus, Statuses
  <2>3. /\ inv' \in [Invs -> Invitation \cup {NoInv}]
        /\ \A j \in Invs : IsInv(j)' => IsInv(j) /\ inv'[j].to = inv[j].to /\ inv'[j].by = inv[j].by
        /\ \A j \in Invs, v \in Users : Pending(j, v)' => Pending(j, v)
    BY <2>1, <2>2, StatusKept
  <2>4. RowsOK' /\ OwnerStays'
    BY <1>4, <2>3 DEF UpdateInvitationStatus, IInv, TypeOK, RowsOK, OwnerStays, IsMember
  <2> QED BY <1>4, <2>4, ReqEnds DEF UpdateInvitationStatus
<1>5. CASE UpdateMemberRole(r)
  <2>1. req[r].u \in Users /\ req[r].to \in Roles
    BY <1>5 DEF IInv, Args, At, UpdateMemberRole
  <2>2. CASE IsMember(req[r].u)
    <3>1. RowsOK' /\ OwnerStays'
      BY <1>5, <2>1, <2>2, RoleStep DEF UpdateMemberRole, Roles
    <3> QED BY <1>5, <3>1, ReqEnds DEF UpdateMemberRole
  <2>3. CASE ~IsMember(req[r].u)
    <3>1. RowsOK' /\ OwnerStays'
      BY <1>5, <2>3 DEF UpdateMemberRole, IInv, TypeOK, OwnerStays, RowsOK, IsMember, IsInv, Pending
    <3> QED BY <1>5, <3>1, ReqEnds DEF UpdateMemberRole
  <2> QED BY <2>2, <2>3
<1>6. CASE DeleteMember(r)
  <2>1. req[r].u \in Users \ {Owner}
    BY <1>6 DEF IInv, Args, At, DeleteMember
  <2>2. role' \in [Users -> Roles \cup {"none"}] /\ role'[Owner] = role[Owner]
        /\ \A v \in Users : IsMember(v)' => IsMember(v)
    BY <1>6, <2>1, ConstantsOK DEF DeleteMember, IInv, TypeOK, IsMember
  <2>3. RowsOK' /\ OwnerStays'
    BY <1>6, <2>2 DEF DeleteMember, IInv, TypeOK, OwnerStays, RowsOK, IsMember, IsInv, Pending
  <2> QED BY <1>6, <2>3, ReqEnds DEF DeleteMember
<1> QED BY <1>1, <1>2, <1>3, <1>4, <1>5, <1>6 DEF Proceed

LEMMA StepKeeps == IInv /\ [Next]_vars => IInv'
<1> SUFFICES ASSUME IInv, [Next]_vars PROVE IInv'
  OBVIOUS
<1>1. CASE UNCHANGED vars
  <2>1. RowsOK' /\ OwnerStays' /\ (req \in [Reqs -> Request])' /\ Args'
    BY <1>1 DEF vars, IInv, TypeOK, OwnerStays, RowsOK, Args, IsMember, IsInv, Pending
  <2> QED BY <2>1 DEF IInv, TypeOK, RowsOK
<1>2. CASE Next
  BY <1>2, StartsKeep, ProceedsKeep DEF Next
<1> QED BY <1>1, <1>2

LEMMA InvariantHolds == Spec => []IInv
<1>1. Init => IInv
  BY InitOK
<1> QED BY <1>1, StepKeeps, PTL DEF Spec

\* Types, foreign keys and one pending invitation a user (migration 001).
THEOREM TypeCorrect == Spec => []TypeOK
<1>1. IInv => TypeOK
  BY DEF IInv
<1> QED BY <1>1, InvariantHolds, PTL

\* The owner is a member as long as the directory is shared (RemoveMember).
THEOREM OwnerRemains == Spec => []OwnerStays
<1>1. IInv => OwnerStays
  BY DEF IInv
<1> QED BY <1>1, InvariantHolds, PTL

-----------------------------------------------------------------------------
(* Joining: one request at a time answers or deletes invitations.          *)

Joins == \A u \in Users : ~IsMember(u) /\ role'[u] # "none" =>
             \E i \in Invs : Pending(i, u) /\ inv'[i] = [inv[i] EXCEPT !.status = "accepted"]

\* Another request has no part in what an acceptance q relies on.
LEMMA OthersKeepPending ==
    ASSUME IInv, NEW q \in Reqs, Pending(req[q].i, req[q].u), req[q].i \in Invs,
           NEW r \in Reqs, r # q, r \notin Answerers, Start(r) \/ Proceed(r), shared'
    PROVE  Pending(req[q].i, req[q].u)'
<1>0. ASSUME NEW new, req' = [req EXCEPT ![r] = new], UNCHANGED inv
      PROVE  Pending(req[q].i, req[q].u)'
  BY <1>0 DEF IInv, TypeOK, Pending, IsInv
<1>1. CASE Start(r)
  <2>1. ~ \E u \in Users : DeleteUserAndRelatedData(r, u)
    BY DEF DeleteUserAndRelatedData
  <2>2. ~ PurgeDirectory(r)
    BY DEF PurgeDirectory
  <2>3. ~ \E i \in Invs : AcceptInvitation(r, i) \/ DeclineInvitation(r, i)
    BY DEF AcceptInvitation, DeclineInvitation
  <2>4. ~ \E by \in Users, i \in Invs : RemoveInvitation(r, by, i)
    BY DEF RemoveInvitation
  <2>5. ASSUME NEW by \in Users, NEW u \in Users, Invite(r, by, u) \/ RemoveMember(r, by, u)
        PROVE  Pending(req[q].i, req[q].u)'
    BY <1>0, <2>5 DEF Invite, RemoveMember, rows
  <2>6. ASSUME NEW by \in Users, NEW u \in Users, NEW to \in Roles, ChangeRole(r, by, u, to)
        PROVE  Pending(req[q].i, req[q].u)'
    BY <1>0, <2>6 DEF ChangeRole, rows
  <2> QED BY <1>1, <2>1, <2>2, <2>3, <2>4, <2>5, <2>6 DEF Start
<1>2. CASE Proceed(r)
  <2>1. ~CommitAccept(r) /\ ~UpdateInvitationStatus(r)
    BY DEF CommitAccept, UpdateInvitationStatus, IInv, Args, ArgsOf, At
  <2>2. CASE InviteNonMember(r)
    BY <1>0, <2>2 DEF InviteNonMember, rows
  <2>3. ASSUME NEW i \in Invs, CreateInvitation(r, i) PROVE Pending(req[q].i, req[q].u)'
    <3>1. i # req[q].i
      BY <2>3 DEF CreateInvitation, Fresh
    <3>2. inv'[req[q].i] = inv[req[q].i] /\ req'[q] = req[q]
      BY <2>3, <3>1 DEF CreateInvitation, Return, IInv, TypeOK
    <3> QED BY <3>2 DEF Pending, IsInv
  <2>4. CASE UpdateMemberRole(r) \/ DeleteMember(r)
    BY <1>0, <2>4 DEF UpdateMemberRole, DeleteMember, Return
  <2> QED BY <1>2, <2>1, <2>2, <2>3, <2>4 DEF Proceed
<1> QED BY <1>1, <1>2

LEMMA AcceptsStep ==
    ASSUME OneAnswerer, IInv, AcceptsPending, NEW r \in Reqs, Start(r) \/ Proceed(r)
    PROVE  AcceptsPending'
<1> SUFFICES ASSUME NEW q \in Reqs, At(q, "accept")', shared'
             PROVE  Pending(req[q].i, req[q].u)'
  BY DEF AcceptsPending
<1>1. CASE q # r
  <2>1. req'[q] = req[q] /\ shared
    BY <1>1 DEF Start, Proceed, Invite, RemoveMember, ChangeRole, AcceptInvitation,
         DeclineInvitation, RemoveInvitation, DeleteUserAndRelatedData, PurgeDirectory,
         InviteNonMember, CreateInvitation, CommitAccept, UpdateInvitationStatus,
         UpdateMemberRole, DeleteMember, Return, rows, IInv, TypeOK
  <2>2. At(q, "accept") /\ q \in Answerers /\ req[q].i \in Invs
    BY <2>1 DEF IInv, Args, ArgsOf, At
  <2>3. Pending(req[q].i, req[q].u) /\ r \notin Answerers
    BY <1>1, <2>1, <2>2 DEF AcceptsPending, OneAnswerer
  <2> QED BY <1>1, <2>2, <2>3, OthersKeepPending
<1>2. CASE q = r
  <2>1. CASE Proceed(r)
    <3>1. ~InviteNonMember(r)
      <4> SUFFICES ASSUME InviteNonMember(r) PROVE FALSE
        OBVIOUS
      <4>1. req[r] \in Request
        BY DEF IInv, TypeOK
      <4>2. req'[r] \in {Idle, [req[r] EXCEPT !.pc = "createInvitation"]}
        BY DEF InviteNonMember, IInv, TypeOK
      <4>3. req'[r].pc \in {"idle", "createInvitation"}
        BY <4>1, <4>2 DEF Request, Idle
      <4> QED BY <1>2, <4>3 DEF At
    <3>2. ~ Return(r)
      BY <1>2 DEF Return, At, IInv, TypeOK, Idle
    <3> QED BY <2>1, <3>1, <3>2 DEF Proceed, CreateInvitation, CommitAccept,
              UpdateInvitationStatus, UpdateMemberRole, DeleteMember
  <2>2. CASE Start(r)
    <3>1. req[r].pc = "idle"
      BY <2>2 DEF Start, Invite, RemoveMember, ChangeRole, AcceptInvitation, DeclineInvitation,
           RemoveInvitation, DeleteUserAndRelatedData, PurgeDirectory, At
    <3>2. ~(req' = req)
      BY <1>2, <3>1 DEF At
    <3>3. ~ \E by, u \in Users : Invite(r, by, u) \/ RemoveMember(r, by, u)
      BY <1>2 DEF Invite, RemoveMember, At, IInv, TypeOK, Idle
    <3>4. ~ \E by, u \in Users, to \in Roles : ChangeRole(r, by, u, to)
      BY <1>2 DEF ChangeRole, At, IInv, TypeOK, Idle
    <3>5. ~ \E by \in Users, i \in Invs : RemoveInvitation(r, by, i)
      BY <1>2 DEF RemoveInvitation, At, IInv, TypeOK, Idle
    <3>6. PICK i \in Invs : AcceptInvitation(r, i) \/ DeclineInvitation(r, i)
      BY <2>2, <3>2, <3>3, <3>4, <3>5 DEF Start, DeleteUserAndRelatedData, PurgeDirectory
    <3>7. AcceptInvitation(r, i)
      BY <1>2, <3>6 DEF DeclineInvitation, At, IInv, TypeOK, Idle
    <3>8. req'[r].i = i /\ req'[r].u = inv[i].to /\ inv' = inv
      BY <3>7 DEF AcceptInvitation, IInv, TypeOK, Idle, rows
    <3> QED BY <1>2, <3>7, <3>8 DEF AcceptInvitation, Pending, IsInv
  <2> QED BY <2>1, <2>2
<1> QED BY <1>1, <1>2

\* Only the commit of an acceptance makes somebody a member.
LEMMA JoinIsAccept ==
    ASSUME IInv, NEW r \in Reqs, Start(r) \/ Proceed(r),
           NEW u \in Users, ~IsMember(u), role'[u] # "none"
    PROVE  /\ At(r, "accept") /\ shared /\ u = req[r].u
           /\ req[r].i \in Invs /\ inv' = WithStatus(req[r].i, "accepted")
<1>1. role' # role
  BY DEF IsMember
<1>2. ~Start(r)
  BY <1>1 DEF Start, Invite, RemoveMember, ChangeRole, AcceptInvitation, DeclineInvitation,
       RemoveInvitation, DeleteUserAndRelatedData, PurgeDirectory, rows, IsMember
<1>3. ~InviteNonMember(r) /\ ~UpdateInvitationStatus(r)
      /\ ~ \E i \in Invs : CreateInvitation(r, i)
  BY <1>1 DEF InviteNonMember, UpdateInvitationStatus, CreateInvitation, rows
<1>4. ~DeleteMember(r)
  BY DEF DeleteMember, IInv, TypeOK, IsMember
<1>5. ~UpdateMemberRole(r)
  BY DEF UpdateMemberRole, IInv, TypeOK, IsMember
<1>6. CommitAccept(r)
  BY <1>2, <1>3, <1>4, <1>5 DEF Proceed
<1>7. /\ At(r, "accept") /\ shared /\ role' = [role EXCEPT ![req[r].u] = "viewer"]
      /\ inv' = WithStatus(req[r].i, "accepted")
  BY <1>1, <1>6 DEF CommitAccept
<1> QED BY <1>7 DEF IInv, TypeOK, Args, ArgsOf, At, IsMember

LEMMA JoinsStep ==
    ASSUME IInv, AcceptsPending, NEW r \in Reqs, Start(r) \/ Proceed(r)
    PROVE  Joins
<1> SUFFICES ASSUME NEW u \in Users, ~IsMember(u), role'[u] # "none"
             PROVE  \E i \in Invs : Pending(i, u) /\ inv'[i] = [inv[i] EXCEPT !.status = "accepted"]
  BY DEF Joins
<1>1. /\ At(r, "accept") /\ shared /\ u = req[r].u
      /\ req[r].i \in Invs /\ inv' = WithStatus(req[r].i, "accepted")
  BY JoinIsAccept
<1>2. Pending(req[r].i, u)
  BY <1>1 DEF AcceptsPending
<1>3. inv'[req[r].i] = [inv[req[r].i] EXCEPT !.status = "accepted"]
  BY <1>1, <1>2 DEF WithStatus, Pending, IInv, TypeOK
<1> QED BY <1>1, <1>2, <1>3

\* If one request at a time answers or deletes invitations, nobody becomes a
\* member but by a pending invitation, which is used up (AcceptInvitation).
THEOREM JoinsOnlyByPending == ASSUME OneAnswerer PROVE Spec => JoinsByPending
<1>1. IInv /\ AcceptsPending /\ [Next]_vars => AcceptsPending'
  BY AcceptsStep DEF Next, vars, AcceptsPending, At, Pending, IsInv
<1>2. Init => AcceptsPending
  BY InitOK
<1>3. Spec => []AcceptsPending
  BY <1>1, <1>2, InvariantHolds, PTL DEF Spec
<1>4. IInv /\ AcceptsPending /\ [Next]_vars => [Joins]_vars
  BY JoinsStep DEF Next
<1>5. [Joins]_vars =>
        [\A u \in Users : ~IsMember(u) /\ role'[u] # "none" =>
           \E i \in Invs : Pending(i, u) /\ inv'[i] = [inv[i] EXCEPT !.status = "accepted"]]_vars
  BY DEF Joins
<1> QED BY <1>3, <1>4, <1>5, InvariantHolds, PTL DEF Spec, JoinsByPending

-----------------------------------------------------------------------------
(* Inviting: the same request is the only one that invites.                *)

\* Only CreateInvitation makes an invitation pending, and only that one.
LEMMA PendingIsCreated ==
    ASSUME IInv, NEW r \in Reqs, Start(r) \/ Proceed(r),
           NEW i \in Invs, NEW u \in Users, Pending(i, u)', ~Pending(i, u)
    PROVE  At(r, "createInvitation") /\ u = req[r].u /\ role' = role
<1>1. inv'[i] # inv[i]
  BY DEF Pending, IsInv
<1>2. ~Start(r)
  BY <1>1 DEF Start, Invite, RemoveMember, ChangeRole, AcceptInvitation, DeclineInvitation,
       RemoveInvitation, DeleteUserAndRelatedData, PurgeDirectory, rows, Pending, IsInv
<1>3. ~InviteNonMember(r) /\ ~UpdateMemberRole(r) /\ ~DeleteMember(r)
  BY <1>1 DEF InviteNonMember, UpdateMemberRole, DeleteMember, rows
<1>4. ~CommitAccept(r)
  <2> SUFFICES ASSUME CommitAccept(r) PROVE FALSE
    OBVIOUS
  <2>1. inv' = WithStatus(req[r].i, "accepted") /\ req[r].i \in Invs
    BY <1>1 DEF CommitAccept, IInv, Args, ArgsOf, At
  <2> QED BY <2>1, StatusKept DEF Statuses
<1>5. ~UpdateInvitationStatus(r)
  <2> SUFFICES ASSUME UpdateInvitationStatus(r) PROVE FALSE
    OBVIOUS
  <2>1. req[r].i \in Invs
    BY DEF UpdateInvitationStatus, IInv, Args, ArgsOf, At
  <2>2. PICK status \in Statuses : status # "pending" /\ inv' = WithStatus(req[r].i, status)
    BY DEF UpdateInvitationStatus, Statuses
  <2> QED BY <2>1, <2>2, StatusKept
<1>6. PICK j \in Invs : CreateInvitation(r, j)
  BY <1>2, <1>3, <1>4, <1>5 DEF Proceed
<1>7. inv' = [inv EXCEPT ![j] = [to |-> req[r].u, by |-> req[r].by, status |-> "pending"]]
  BY <1>1, <1>6 DEF CreateInvitation
<1>8. inv'[i].to = req[r].u
  BY <1>1, <1>7 DEF IInv, TypeOK
<1> QED BY <1>6, <1>8 DEF CreateInvitation, Pending

LEMMA StrangerStep ==
    ASSUME OneActor, IInv, InvitesStranger, NEW r \in Reqs, Start(r) \/ Proceed(r)
    PROVE  InvitesStranger'
<1> SUFFICES ASSUME NEW q \in Reqs, At(q, "createInvitation")', IsMember(req[q].u)'
             PROVE  FALSE
  BY DEF InvitesStranger
<1>1. CASE q # r
  <2>1. req'[q] = req[q]
    BY <1>1 DEF Start, Proceed, Invite, RemoveMember, ChangeRole, AcceptInvitation,
         DeclineInvitation, RemoveInvitation, DeleteUserAndRelatedData, PurgeDirectory,
         InviteNonMember, CreateInvitation, CommitAccept, UpdateInvitationStatus,
         UpdateMemberRole, DeleteMember, Return, rows, IInv, TypeOK
  <2>2. At(q, "createInvitation") /\ q \in Inviters /\ req[q].u \in Users
    BY <2>1 DEF IInv, Args, ArgsOf, At
  <2>3. ~IsMember(req[q].u) /\ role'[req[q].u] # "none"
    BY <2>1, <2>2 DEF InvitesStranger, IsMember
  <2>4. At(r, "accept")
    BY <2>2, <2>3, JoinIsAccept
  <2>5. r \in Answerers
    BY <2>4 DEF IInv, Args, ArgsOf, At
  <2> QED BY <1>1, <2>2, <2>5 DEF OneActor
<1>2. CASE q = r
  <2>1. ~Return(r)
    BY <1>2 DEF Return, At, IInv, TypeOK, Idle
  <2>2. ~Start(r)
    <3> SUFFICES ASSUME Start(r) PROVE FALSE
      OBVIOUS
    <3>1. req[r].pc = "idle"
      BY DEF Start, Invite, RemoveMember, ChangeRole, AcceptInvitation, DeclineInvitation,
         RemoveInvitation, DeleteUserAndRelatedData, PurgeDirectory, At
    <3>2. req' # req
      BY <1>2, <3>1 DEF At
    <3>3. ~ \E by, u \in Users : Invite(r, by, u) \/ RemoveMember(r, by, u)
      BY <1>2 DEF Invite, RemoveMember, At, IInv, TypeOK, Idle
    <3>4. ~ \E by, u \in Users, to \in Roles : ChangeRole(r, by, u, to)
      BY <1>2 DEF ChangeRole, At, IInv, TypeOK, Idle
    <3>5. ~ \E i \in Invs : AcceptInvitation(r, i) \/ DeclineInvitation(r, i)
      BY <1>2 DEF AcceptInvitation, DeclineInvitation, At, IInv, TypeOK, Idle
    <3>6. ~ \E by \in Users, i \in Invs : RemoveInvitation(r, by, i)
      BY <1>2 DEF RemoveInvitation, At, IInv, TypeOK, Idle
    <3> QED BY <3>2, <3>3, <3>4, <3>5, <3>6 DEF Start, DeleteUserAndRelatedData, PurgeDirectory
  <2>3. InviteNonMember(r)
    BY <2>1, <2>2 DEF Proceed, CreateInvitation, CommitAccept, UpdateInvitationStatus,
       UpdateMemberRole, DeleteMember
  <2>4. ~IsMember(req[r].u)
    BY <1>2, <2>3 DEF InviteNonMember, At, IInv, TypeOK, Idle
  <2>5. req'[r].u = req[r].u
    BY <2>3, <2>4 DEF InviteNonMember, IInv, TypeOK, Request
  <2> QED BY <1>2, <2>3, <2>4, <2>5 DEF InviteNonMember, IsMember, rows
<1> QED BY <1>1, <1>2

LEMMA NotInvitedStep ==
    ASSUME IInv, AcceptsPending, InvitesStranger, MembersNotInvited,
           NEW r \in Reqs, Start(r) \/ Proceed(r)
    PROVE  MembersNotInvited'
<1> SUFFICES ASSUME NEW u \in Users, NEW i \in Invs, IsMember(u)', Pending(i, u)'
             PROVE  FALSE
  BY DEF MembersNotInvited
<1>1. CASE ~Pending(i, u)
  <2>1. At(r, "createInvitation") /\ u = req[r].u /\ role' = role
    BY <1>1, PendingIsCreated
  <2> QED BY <2>1 DEF InvitesStranger, IsMember
<1>2. CASE Pending(i, u)
  <2>1. ~IsMember(u) /\ role'[u] # "none"
    BY <1>2 DEF MembersNotInvited, IsMember
  <2>2. /\ At(r, "accept") /\ shared /\ u = req[r].u
        /\ req[r].i \in Invs /\ inv' = WithStatus(req[r].i, "accepted")
    BY <2>1, JoinIsAccept
  <2>3. i = req[r].i
    BY <1>2, <2>2 DEF AcceptsPending, IInv, TypeOK
  <2>4. inv'[i].status = "accepted"
    BY <1>2, <2>2, <2>3 DEF WithStatus, Pending, IInv, TypeOK, Invitation, IsInv
  <2> QED BY <2>4 DEF Pending
<1> QED BY <1>1, <1>2

\* If one request at a time invites, answers and deletes invitations, a member
\* never has a pending invitation (Invite, AcceptInvitation).
THEOREM MembersNeverInvited == ASSUME OneActor PROVE Spec => []MembersNotInvited
<1> DEFINE I == AcceptsPending /\ InvitesStranger /\ MembersNotInvited
<1>1. OneAnswerer
  BY DEF OneActor, OneAnswerer
<1>2. ASSUME IInv, I, UNCHANGED vars PROVE I'
  BY <1>2 DEF vars, AcceptsPending, InvitesStranger, MembersNotInvited, At, Pending, IsInv, IsMember
<1>3. ASSUME IInv, I, Next PROVE I'
  BY <1>1, <1>3, AcceptsStep, StrangerStep, NotInvitedStep DEF Next
<1>4. IInv /\ I /\ [Next]_vars => I'
  BY <1>2, <1>3
<1>5. Init => I
  BY InitOK
<1>6. I => MembersNotInvited
  OBVIOUS
<1> QED BY <1>4, <1>5, <1>6, InvariantHolds, PTL DEF Spec

\* So, with one such request, the owner stays and no member is invited.
THEOREM MembersStay == ASSUME OneActor PROVE Spec => []MembersStand
<1>1. OwnerStays /\ MembersNotInvited => MembersStand
  BY DEF MembersStand
<1> QED BY <1>1, OwnerRemains, MembersNeverInvited, PTL
================================================================================
