------------------------------ MODULE ShareLinks ------------------------------
(***************************************************************************)
(* internal/sharelinks, and what files, dirs, trash and users do to its    *)
(* rows: the links, the counter users.share_links_count of the user who    *)
(* made them, and its limit.                                               *)
(*                                                                         *)
(* A transaction's writes are made at its commit; until then the rows it   *)
(* has written or selected FOR UPDATE are locked (Holds...), and whoever   *)
(* needs one of them waits.  is_active is in FileStore and DirTree.        *)
(***************************************************************************)
EXTENDS Integers, FiniteSets

CONSTANTS
    Users,
    Targets,    \* the files and directories that links open
    Links, Reqs,
    Owner,      \* [Targets -> Users]: owner_id
    Quota,      \* share_links_quota
    Ops,        \* the operations that requests may be
    None

Operations == {"create", "update", "delete", "deleteAll", "purge", "account", "fail"}

ASSUME ConstantsOK ==
    /\ Owner \in [Targets -> Users]
    /\ Quota \in Nat
    /\ Ops \subseteq Operations
    /\ None \notin Users \cup Targets \cup Links \cup Reqs
    /\ IsFiniteSet(Links)

VARIABLES
    user,     \* SUBSET Users: the accounts
    target,   \* SUBSET Targets: the rows of files and directories
    link,     \* [Links -> Link \cup {NoLink}]: share_links
    count,    \* [Users -> Nat]: share_links_count
    req       \* [Reqs -> Request]

rows == <<user, target, link, count>>
vars == <<user, target, link, count, req>>

Link == [by : Users, on : Targets, expires : BOOLEAN, password : BOOLEAN]
NoLink == [by |-> None, on |-> None, expires |-> FALSE, password |-> FALSE]
IsLink(l) == link[l] # NoLink
LinksBy(u) == {l \in Links : IsLink(l) /\ link[l].by = u}
LinksOn(t) == {l \in Links : IsLink(l) /\ link[l].on = t}

Pcs == {"idle", "stats", "insert", "update", "delete", "decrement",
        "purge", "lock", "counts", "storage"}

Request ==
    [ pc    : Pcs,
      u     : Users \cup {None},    \* the user it counts for
      t     : Targets \cup {None},
      l     : Links \cup {None},
      old   : Link \cup {NoLink},   \* the link as it was read, with the change
      found : SUBSET Links,         \* the links a DELETE has found
      links : SUBSET Links,         \* the links it has deleted: locked
      users : SUBSET Users,         \* the rows of users it has locked
      due   : [Users -> Nat] ]      \* what is still to be taken from whose count

NoDue == [u \in Users |-> 0]
Idle  == [ pc |-> "idle", u |-> None, t |-> None, l |-> None, old |-> NoLink,
           found |-> {}, links |-> {}, users |-> {}, due |-> NoDue ]

At(r, pc)  == req[r].pc = pc
Return(r)  == req' = [req EXCEPT ![r] = Idle]
May(r, op) == At(r, "idle") /\ op \in Ops

HoldsTarget(q, t) == At(q, "storage") /\ req[q].t = t
UserFree(r, u)    == \A q \in Reqs \ {r} : u \notin req[q].users
LinkFree(r, l)    == \A q \in Reqs \ {r} : l \notin req[q].links
TargetFree(r, t)  == \A q \in Reqs \ {r} : ~HoldsTarget(q, t)

\* gen_random_uuid() and generateToken().
Fresh(l) == ~IsLink(l) /\ \A q \in Reqs : l # req[q].l /\ l \notin req[q].found \cup req[q].links

\* GREATEST(share_links_count - n, 0), for every user of due.
Reduced(due) == [u \in Users |-> IF due[u] = 0 THEN count[u]
                                 ELSE IF count[u] >= due[u] THEN count[u] - due[u] ELSE 0]

Without(ls) == [l \in Links |-> IF l \in ls THEN NoLink ELSE link[l]]

Init ==
    /\ user = Users
    /\ target = Targets
    /\ link = [l \in Links |-> NoLink]
    /\ count = [u \in Users |-> 0]
    /\ req = [r \in Reqs |-> Idle]

-----------------------------------------------------------------------------
(* createLink, after Create or CreateForDirectory found the target.        *)

Create(r, u, t, l) ==
    /\ May(r, "create") /\ Fresh(l)
    /\ u \in user /\ t \in target
    /\ req' = [req EXCEPT ![r] = [Idle EXCEPT !.pc = "stats", !.u = u, !.t = t, !.l = l]]
    /\ UNCHANGED rows

\* Mutant: SELECT without FOR UPDATE.
GetShareLinksStatsUnlocked(r) ==
    LET u == req[r].u IN
    /\ At(r, "stats")
    /\ req' = [req EXCEPT ![r] = IF u \in user /\ count[u] < Quota
                                 THEN [@ EXCEPT !.pc = "insert"] ELSE Idle]
    /\ UNCHANGED rows

\* SELECT share_links_count, share_links_quota ... FOR UPDATE.
GetShareLinksStats(r) ==
    LET u == req[r].u IN
    /\ At(r, "stats") /\ UserFree(r, u)
    /\ req' = [req EXCEPT ![r] = IF u \in user /\ count[u] < Quota
                                 THEN [@ EXCEPT !.pc = "insert", !.users = {u}] ELSE Idle]
    /\ UNCHANGED rows

\* The foreign key waits for a deletion of the target and refuses if it is gone.
InsertLink(r) ==
    LET u == req[r].u
        t == req[r].t
        l == req[r].l IN
    /\ At(r, "insert")
    /\ TargetFree(r, t)
    /\ IF u \in user /\ t \in target
       THEN /\ link' = [link EXCEPT ![l] = [by |-> u, on |-> t, expires |-> FALSE, password |-> FALSE]]
            /\ count' = [count EXCEPT ![u] = @ + 1]
       ELSE UNCHANGED <<link, count>>
    /\ Return(r)
    /\ UNCHANGED <<user, target>>

-----------------------------------------------------------------------------
(* Update: what the request does not name is written as it was read.       *)

Update(r, l) ==
    /\ May(r, "update") /\ IsLink(l)
    /\ \E new \in {[link[l] EXCEPT !.expires = ~@], [link[l] EXCEPT !.password = ~@]} :
         req' = [req EXCEPT ![r] = [Idle EXCEPT !.pc = "update", !.l = l, !.old = new]]
    /\ UNCHANGED rows

UpdateLink(r) ==
    LET l == req[r].l IN
    /\ At(r, "update") /\ LinkFree(r, l)
    /\ link' = IF IsLink(l)
               THEN [link EXCEPT ![l].expires = req[r].old.expires,
                                 ![l].password = req[r].old.password]
               ELSE link
    /\ Return(r)
    /\ UNCHANGED <<user, target, count>>

-----------------------------------------------------------------------------
(* Delete, DeleteAllByUser.                                                *)

Delete(r, l) ==
    /\ May(r, "delete") /\ IsLink(l)
    /\ req' = [req EXCEPT ![r] = [Idle EXCEPT !.pc = "delete", !.l = l, !.u = link[l].by]]
    /\ UNCHANGED rows

\* DELETE waits for another deletion of the row and may then find none.
DeleteLink(r) ==
    LET l == req[r].l IN
    /\ At(r, "delete") /\ LinkFree(r, l)
    /\ req' = [req EXCEPT ![r] = [@ EXCEPT !.pc = "decrement", !.links = {l} \cap LinksBy(req[r].u)]]
    /\ UNCHANGED rows

\* Whether a row was deleted or not, the counter goes down; and the commit.
DecrementShareLinksCount(r) ==
    /\ At(r, "decrement") /\ UserFree(r, req[r].u)
    /\ link' = Without(req[r].links)
    /\ count' = Reduced([NoDue EXCEPT ![req[r].u] = 1])
    /\ Return(r)
    /\ UNCHANGED <<user, target>>

DeleteAllByUser(r, u) ==
    /\ May(r, "deleteAll") /\ u \in user
    /\ req' = [req EXCEPT ![r] = [Idle EXCEPT !.pc = "lock", !.u = u, !.found = LinksBy(u)]]
    /\ UNCHANGED rows

-----------------------------------------------------------------------------
(* PermanentDelete of a file, of a directory, and clearing the trash: all  *)
(* delete the links of the target first.                                   *)

Purge(r, t) ==
    /\ May(r, "purge") /\ t \in target
    /\ req' = [req EXCEPT ![r] = [Idle EXCEPT !.pc = "purge", !.t = t]]
    /\ UNCHANGED rows

\* The snapshot of DELETE FROM share_links WHERE file_id = ANY($1).
DeleteByFileIDs(r) ==
    /\ At(r, "purge")
    /\ req' = [req EXCEPT ![r] = [@ EXCEPT !.pc = "lock", !.found = LinksOn(req[r].t)]]
    /\ UNCHANGED rows

\* It waits for those that others delete, and returns what it deletes itself.
LockFound(r) ==
    LET mine == {l \in req[r].found : IsLink(l)} IN
    /\ At(r, "lock")
    /\ \A l \in req[r].found : LinkFree(r, l)
    /\ req' = [req EXCEPT ![r] = [@ EXCEPT !.pc = "counts", !.found = {}, !.links = mine,
                                  !.due = [u \in Users |-> Cardinality(mine \cap LinksBy(u))]]]
    /\ UNCHANGED rows

\* One UPDATE for each creator, in the order of a Go map: any.
DecrementShareLinksCounts(r, u) ==
    /\ At(r, "counts")
    /\ req[r].due[u] > 0 /\ u \notin req[r].users
    /\ UserFree(r, u)
    /\ req' = [req EXCEPT ![r].users = @ \cup {u}]
    /\ UNCHANGED rows

Counted(r) == At(r, "counts") /\ \A u \in Users : req[r].due[u] > 0 => u \in req[r].users

CommitDeleteAll(r) ==
    /\ Counted(r) /\ req[r].t = None
    /\ link' = Without(req[r].links)
    /\ count' = Reduced(req[r].due)
    /\ Return(r)
    /\ UNCHANGED <<user, target>>

\* Mutant: no ON DELETE CASCADE.
HardDeleteNoCascade(r) ==
    LET t == req[r].t IN
    /\ Counted(r) /\ t # None
    /\ TargetFree(r, t)
    /\ req' = [req EXCEPT ![r].pc = "storage"]
    /\ UNCHANGED rows

\* DELETE FROM files or directories: the links that came since the snapshot go
\* with the row (ON DELETE CASCADE), and nobody counts them.
HardDelete(r) ==
    LET t == req[r].t IN
    /\ Counted(r) /\ t # None
    /\ TargetFree(r, t)
    /\ \A l \in LinksOn(t) : LinkFree(r, l)
    /\ req' = [req EXCEPT ![r] = [@ EXCEPT !.pc = "storage", !.links = req[r].links \cup LinksOn(t)]]
    /\ UNCHANGED rows

\* storage_used of the owner is on the same row of users; and the commit.
AddUserStorageUsed(r) ==
    /\ At(r, "storage")
    /\ UserFree(r, Owner[req[r].t])
    /\ target' = target \ {req[r].t}
    /\ link' = Without(req[r].links)
    /\ count' = Reduced(req[r].due)
    /\ Return(r)
    /\ UNCHANGED user

-----------------------------------------------------------------------------
(* DeleteAccount, one statement: files, directories and links go with the  *)
(* user, and the links of others on them.                                  *)

DeleteUserAndRelatedData(r, u) ==
    LET own  == {t \in target : Owner[t] = u}
        gone == {l \in Links : IsLink(l) /\ (link[l].by = u \/ link[l].on \in own)} IN
    /\ May(r, "account") /\ u \in user
    /\ UserFree(r, u)
    /\ \A t \in own : TargetFree(r, t)
    /\ \A l \in gone : LinkFree(r, l)
    /\ user' = user \ {u}
    /\ target' = target \ own
    /\ link' = Without(gone)
    /\ count' = [count EXCEPT ![u] = 0]
    /\ UNCHANGED req

\* A statement, the object store or the commit fails: ROLLBACK.
Abort(r) ==
    /\ "fail" \in Ops /\ ~At(r, "idle")
    /\ Return(r)
    /\ UNCHANGED rows

\* r waits for a row that q holds.
Waits(r, q) ==
    /\ r # q
    /\ \/ req[r].pc \in {"stats", "decrement"} /\ req[r].u \in req[q].users
       \/ At(r, "insert") /\ HoldsTarget(q, req[r].t)
       \/ req[r].pc \in {"update", "delete"} /\ req[r].l \in req[q].links
       \/ At(r, "lock") /\ req[r].found \cap req[q].links # {}
       \/ At(r, "counts") /\ \E u \in req[q].users \ req[r].users : req[r].due[u] > 0
       \/ Counted(r) /\ req[r].t # None /\ \/ HoldsTarget(q, req[r].t)
                                           \/ LinksOn(req[r].t) \cap req[q].links # {}
       \/ At(r, "storage") /\ Owner[req[r].t] \in req[q].users

\* Mutant: nobody looks for deadlocks.
NoDeadlockVictim(r) == FALSE /\ UNCHANGED vars

\* PostgreSQL ends one of two transactions that wait for each other.
DeadlockVictim(r) ==
    /\ \E q \in Reqs : Waits(r, q) /\ Waits(q, r)
    /\ Return(r)
    /\ UNCHANGED rows

-----------------------------------------------------------------------------
Start(r) ==
    \/ \E u \in Users, t \in Targets, l \in Links : Create(r, u, t, l)
    \/ \E l \in Links : Update(r, l) \/ Delete(r, l)
    \/ \E u \in Users : DeleteAllByUser(r, u) \/ DeleteUserAndRelatedData(r, u)
    \/ \E t \in Targets : Purge(r, t)

Continue(r) ==
    \/ GetShareLinksStats(r) \/ InsertLink(r) \/ UpdateLink(r)
    \/ DeleteLink(r) \/ DecrementShareLinksCount(r)
    \/ DeleteByFileIDs(r) \/ LockFound(r) \/ HardDelete(r) \/ AddUserStorageUsed(r)
    \/ \E u \in Users : DecrementShareLinksCounts(r, u)
    \/ CommitDeleteAll(r) \/ DeadlockVictim(r)

Next == \E r \in Reqs : Start(r) \/ Continue(r) \/ Abort(r)

Spec == Init /\ [][Next]_vars

\* Goroutines are scheduled, and PostgreSQL serves those who wait for a row in
\* order and looks for deadlocks.
FairSpec == Spec /\ \A r \in Reqs : SF_vars(Continue(r))

-----------------------------------------------------------------------------
(* Properties.                                                             *)

Quiet == \A r \in Reqs : req[r] = Idle

\* Types, the foreign keys of a link, and row locks: no two requests hold a row.
TypeOK ==
    /\ user \subseteq Users
    /\ target \subseteq Targets
    /\ link \in [Links -> Link \cup {NoLink}]
    /\ count \in [Users -> Nat]
    /\ req \in [Reqs -> Request]
    /\ \A l \in Links : IsLink(l) => link[l].by \in user /\ link[l].on \in target
    /\ \A q, r \in Reqs : q # r => /\ req[q].users \cap req[r].users = {}
                                   /\ req[q].links \cap req[r].links = {}

\* However requests interleave, share_links_count never exceeds its limit: the
\* check and the increment are under one lock (createLink).
CountWithinQuota == \A u \in Users : count[u] <= Quota

\* While every deletion counts what it deleted, no link is missing from its
\* creator's counter, whatever is deleted by whom at the same time: so the
\* number of links is within the limit as well.
CountCoversLinks == \A u \in Users : Cardinality(LinksBy(u)) <= count[u]

\* Both: the counter is between the number of links and the limit.
CountBetween == CountWithinQuota /\ CountCoversLinks

\* Every request ends, although deletions and creations lock users, links and
\* targets in different orders.
RequestsEnd == \A r \in Reqs : ~At(r, "idle") ~> At(r, "idle")
=============================================================================
