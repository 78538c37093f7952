--------------------------- MODULE ShareLinksProofs ---------------------------
(***************************************************************************)
(* For any users, links, targets and requests: the types, foreign keys and *)
(* row locks; the counter never exceeds its limit; and unless a link is    *)
(* deleted by its id, the counter covers the links there are.              *)
(***************************************************************************)
EXTENDS ShareLinks, FiniteSetTheorems, TLAPS

\* What a request holds at each step, and the id it has generated for a link.
Shape ==
    \A r \in Reqs :
        /\ req[r].pc \in {"stats", "insert"} =>
               /\ req[r].u \in Users /\ req[r].t \in Targets /\ req[r].l \in Links
               /\ ~IsLink(req[r].l)
               /\ \A q \in Reqs : q # r => req[q].l # req[r].l
               /\ \A q \in Reqs : req[r].l \notin req[q].found /\ req[r].l \notin req[q].links
        /\ At(r, "insert") => req[r].u \in req[r].users
        /\ req[r].pc \in {"update", "delete"} => req[r].l \in Links
        /\ req[r].pc \in {"delete", "decrement"} => req[r].u \in Users
        /\ req[r].pc \in {"purge", "storage"} => req[r].t \in Targets
        /\ At(r, "idle") => req[r].links = {}
        /\ \A l \in req[r].links : IsLink(l)

\* Between the deletion of a target and the commit nobody adds a link to it.
NoNewLinks == \A r \in Reqs : At(r, "storage") => LinksOn(req[r].t) \subseteq req[r].links

\* The count that createLink has read under its lock is still below the limit.
RoomLeft == \A r \in Reqs : At(r, "insert") /\ req[r].u \in user => count[req[r].u] < Quota

IInv == TypeOK /\ Shape /\ NoNewLinks /\ RoomLeft /\ CountWithinQuota

\* No request takes more from a counter than it has deleted links.
DueIsDeleted ==
    \A r \in Reqs : \A u \in Users : req[r].due[u] <= Cardinality(req[r].links \cap LinksBy(u))

NoneById == \A r \in Reqs : req[r].pc \notin {"delete", "decrement"}

CInv == NoneById /\ DueIsDeleted /\ CountCoversLinks

-----------------------------------------------------------------------------
LEMMA IdleTyped == Idle \in Request
  BY DEF Idle, Request, Pcs, NoDue, NoLink

LEMMA NoLinkIsNone == NoLink \notin Link
  BY ConstantsOK DEF NoLink, Link

LEMMA ReducedTyped ==
    ASSUME count \in [Users -> Nat], NEW due \in [Users -> Nat]
    PROVE  /\ Reduced(due) \in [Users -> Nat]
           /\ \A u \in Users : Reduced(due)[u] <= count[u]
  BY DEF Reduced

LEMMA InitOK == Init => IInv /\ CInv
<1> SUFFICES ASSUME Init PROVE IInv /\ CInv
  OBVIOUS
<1>1. \A r \in Reqs : req[r] = Idle
  BY DEF Init
<1>2. \A l \in Links : ~IsLink(l)
  BY DEF Init, IsLink
<1>3. TypeOK
  BY <1>1, <1>2, IdleTyped, ConstantsOK DEF Init, TypeOK, Idle
<1>4. Shape /\ NoNewLinks /\ RoomLeft /\ NoneById
  BY <1>1 DEF Shape, NoNewLinks, RoomLeft, NoneById, Idle, At
<1>5. CountWithinQuota
  BY ConstantsOK DEF Init, CountWithinQuota
<1>6. \A u \in Users : LinksBy(u) = {} /\ {} \cap LinksBy(u) = {}
  BY <1>2 DEF LinksBy
<1>7. DueIsDeleted
  BY <1>1, <1>6, FS_EmptySet DEF DueIsDeleted, Idle, NoDue
<1>8. CountCoversLinks
  BY <1>6, FS_EmptySet DEF CountCoversLinks, Init
<1> QED BY <1>3, <1>4, <1>5, <1>7, <1>8 DEF IInv, CInv

\* What r holds as new is nobody else's, and keeps Shape and RoomLeft.
Own(r, new) ==
    /\ \A q \in Reqs \ {r} :
           /\ req[q].users \cap new.users = {}
           /\ req[q].links \cap new.links = {}
           /\ req[q].pc \in {"stats", "insert"} =>
                 new.l # req[q].l /\ req[q].l \notin new.found /\ req[q].l \notin new.links
    /\ new.pc \in {"stats", "insert"} =>
           /\ new.u \in Users /\ new.t \in Targets /\ new.l \in Links
           /\ ~IsLink(new.l)
           /\ \A q \in Reqs \ {r} :
                 req[q].l # new.l /\ new.l \notin req[q].found /\ new.l \notin req[q].links
           /\ new.l \notin new.found /\ new.l \notin new.links
    /\ new.pc = "insert" => new.u \in new.users /\ (new.u \in user => count[new.u] < Quota)
    /\ new.pc \in {"update", "delete"} => new.l \in Links
    /\ new.pc \in {"delete", "decrement"} => new.u \in Users
    /\ new.pc \in {"purge", "storage"} => new.t \in Targets
    /\ new.pc = "storage" => LinksOn(new.t) \subseteq new.links
    /\ new.pc = "idle" => new.links = {}
    /\ \A l \in new.links : IsLink(l)

\* A step that only changes its own request keeps the invariant.
LEMMA OwnStep ==
    ASSUME IInv, UNCHANGED rows, NEW r \in Reqs, NEW new \in Request,
           req' = [req EXCEPT ![r] = new], Own(r, new)
    PROVE  IInv'
<1>0. rows' = rows /\ user' = user /\ target' = target /\ link' = link /\ count' = count
  BY DEF rows
<1>1. req \in [Reqs -> Request] /\ \A q \in Reqs : req'[q] = IF q = r THEN new ELSE req[q]
  BY DEF IInv, TypeOK
<1>2. TypeOK'
  BY <1>0, <1>1 DEF IInv, TypeOK, IsLink, Own
<1>3. Shape'
  <2> SUFFICES ASSUME NEW p \in Reqs
               PROVE  /\ req'[p].pc \in {"stats", "insert"} =>
                           /\ req'[p].u \in Users /\ req'[p].t \in Targets /\ req'[p].l \in Links
                           /\ ~IsLink(req'[p].l)
                           /\ \A q \in Reqs : q # p => req'[q].l # req'[p].l
                           /\ \A q \in Reqs : req'[p].l \notin req'[q].found /\ req'[p].l \notin req'[q].links
                      /\ req'[p].pc = "insert" => req'[p].u \in req'[p].users
                      /\ req'[p].pc \in {"update", "delete"} => req'[p].l \in Links
                      /\ req'[p].pc \in {"delete", "decrement"} => req'[p].u \in Users
                      /\ req'[p].pc \in {"purge", "storage"} => req'[p].t \in Targets
                      /\ req'[p].pc = "idle" => req'[p].links = {}
                      /\ \A l \in req'[p].links : IsLink(l)
    BY <1>0 DEF Shape, At, IsLink
  <2>1. CASE p = r
    BY <1>1, <2>1 DEF Own
  <2>2. CASE p # r
    BY <1>1, <2>2 DEF IInv, Shape, At, Own
  <2> QED BY <2>1, <2>2
<1>4. NoNewLinks'
  BY <1>0, <1>1 DEF IInv, NoNewLinks, LinksOn, IsLink, At, Own
<1>5. RoomLeft' /\ CountWithinQuota'
  BY <1>0, <1>1 DEF IInv, RoomLeft, CountWithinQuota, At, Own
<1> QED BY <1>2, <1>3, <1>4, <1>5 DEF IInv

\* So does a step that returns: a refusal, a rollback.
LEMMA Returns ==
    ASSUME IInv, UNCHANGED rows, NEW r \in Reqs, Return(r)
    PROVE  IInv'
<1>1. /\ Idle \in Request /\ Idle.pc = "idle" /\ Idle.users = {} /\ Idle.links = {}
      /\ Idle.found = {} /\ Idle.l = None
  BY IdleTyped DEF Idle
<1>2. \A q \in Reqs : req[q].pc \in {"stats", "insert"} => req[q].l # None
  BY ConstantsOK DEF IInv, Shape
<1>3. Own(r, Idle)
  BY <1>1, <1>2 DEF Own
<1> QED BY <1>1, <1>3, OwnStep DEF Return

\* A commit that removes the links it has locked, and targets without others.
LEMMA Removes ==
    ASSUME IInv, NEW r \in Reqs, Return(r),
           NEW due \in [Users -> Nat], NEW gone \in SUBSET Targets,
           link' = Without(req[r].links), count' = Reduced(due),
           user' = user, target' = target \ gone,
           \A t \in gone : LinksOn(t) \subseteq req[r].links
    PROVE  IInv'
<1>0. /\ Idle \in Request /\ Idle.pc = "idle" /\ Idle.users = {} /\ Idle.links = {}
      /\ Idle.found = {} /\ Idle.l = None
  BY IdleTyped DEF Idle
<1>1. req \in [Reqs -> Request] /\ \A q \in Reqs : req'[q] = IF q = r THEN Idle ELSE req[q]
  BY DEF IInv, TypeOK, Return
<1>2. \A l \in Links : link'[l] = IF l \in req[r].links THEN NoLink ELSE link[l]
  BY DEF Without
<1>3. \A l \in Links : IsLink(l)' <=> IsLink(l) /\ l \notin req[r].links
  BY <1>2 DEF IsLink
<1>4. \A u \in Users : count'[u] <= count[u]
  BY ReducedTyped DEF IInv, TypeOK
<1>5. TypeOK'
  <2>1. link' \in [Links -> Link \cup {NoLink}]
    BY DEF Without, IInv, TypeOK
  <2>2. count' \in [Users -> Nat]
    BY ReducedTyped DEF IInv, TypeOK
  <2>3. \A l \in Links : IsLink(l)' => link'[l].by \in user' /\ link'[l].on \in target'
    <3> SUFFICES ASSUME NEW l \in Links, IsLink(l)' PROVE link'[l].by \in user' /\ link'[l].on \in target'
      OBVIOUS
    <3>1. IsLink(l) /\ l \notin req[r].links /\ link'[l] = link[l]
      BY <1>2, <1>3
    <3>2. link[l].by \in user /\ link[l].on \in target
      BY <3>1 DEF IInv, TypeOK
    <3>3. link[l].on \notin gone
      BY <3>1 DEF LinksOn
    <3> QED BY <3>1, <3>2, <3>3
  <2>4. \A q, p \in Reqs : q # p => /\ req'[q].users \cap req'[p].users = {}
                                    /\ req'[q].links \cap req'[p].links = {}
    BY <1>0, <1>1 DEF IInv, TypeOK
  <2>5. req' \in [Reqs -> Request] /\ user' \subseteq Users /\ target' \subseteq Targets
    BY <1>0, <1>1 DEF IInv, TypeOK, Return
  <2> QED BY <2>1, <2>2, <2>3, <2>4, <2>5 DEF TypeOK
<1>6. Shape'
  <2>1. \A q \in Reqs \ {r} : \A l \in req[q].links : l \in Links /\ IsLink(l)'
    BY <1>1, <1>3 DEF IInv, TypeOK, Shape, Request
  <2>2. \A q \in Reqs : req[q].pc \in {"stats", "insert"} =>
           req[q].l # None /\ link'[req[q].l] = NoLink
    BY <1>2, ConstantsOK DEF IInv, Shape, IsLink
  <2> QED BY <1>0, <1>1, <2>1, <2>2 DEF IInv, Shape, At, IsLink
<1>7. NoNewLinks'
  BY <1>0, <1>1, <1>2, <1>3 DEF IInv, NoNewLinks, LinksOn, At
<1>8. CountWithinQuota'
  <2> SUFFICES ASSUME NEW u \in Users PROVE count'[u] <= Quota
    BY DEF CountWithinQuota
  <2>1. count'[u] \in Nat /\ count[u] \in Nat /\ Quota \in Nat
    BY <1>5, ConstantsOK DEF IInv, TypeOK
  <2> QED BY <1>4, <2>1 DEF IInv, CountWithinQuota
<1>9. RoomLeft'
  <2> SUFFICES ASSUME NEW q \in Reqs, At(q, "insert")', req'[q].u \in user'
               PROVE  count'[req'[q].u] < Quota
    BY DEF RoomLeft
  <2>1. q # r /\ req'[q] = req[q]
    BY <1>0, <1>1 DEF At
  <2>2. At(q, "insert") /\ req[q].u \in Users /\ count[req[q].u] < Quota
    BY <2>1 DEF IInv, RoomLeft, At, TypeOK
  <2>3. count[req[q].u] \in Nat /\ count'[req[q].u] \in Nat /\ Quota \in Nat
    BY <2>2, ReducedTyped, ConstantsOK DEF IInv, TypeOK
  <2> QED BY <1>4, <2>1, <2>2, <2>3
<1> QED BY <1>5, <1>6, <1>7, <1>8, <1>9 DEF IInv

LEMMA InsertLinkOK ==
    ASSUME IInv, NEW r \in Reqs, InsertLink(r)
    PROVE  IInv'
<1> DEFINE u == req[r].u
           t == req[r].t
           k == req[r].l
           new == [by |-> u, on |-> t, expires |-> FALSE, password |-> FALSE]
<1>0. /\ At(r, "insert") /\ u \in Users /\ t \in Targets /\ k \in Links
      /\ ~IsLink(k) /\ u \in req[r].users
      /\ TargetFree(r, t) /\ Return(r) /\ user' = user /\ target' = target
  BY DEF InsertLink, IInv, Shape, At
<1>1. CASE ~(u \in user /\ t \in target)
  <2>1. UNCHANGED rows
    BY <1>0, <1>1 DEF InsertLink, rows
  <2> QED BY <1>0, <2>1, Returns
<1>2. CASE u \in user /\ t \in target
  <2>0. /\ Idle \in Request /\ Idle.pc = "idle" /\ Idle.users = {} /\ Idle.links = {}
        /\ Idle.found = {} /\ Idle.l = None
    BY IdleTyped DEF Idle
  <2>1. req \in [Reqs -> Request] /\ \A q \in Reqs : req'[q] = IF q = r THEN Idle ELSE req[q]
    BY <1>0 DEF IInv, TypeOK, Return
  <2>2. link' = [link EXCEPT ![k] = new] /\ count' = [count EXCEPT ![u] = @ + 1]
    BY <1>2 DEF InsertLink
  <2>3. new \in Link /\ new # NoLink /\ new.by = u /\ new.on = t
    <3>1. new \in Link
      BY <1>0 DEF Link
    <3>2. new # NoLink
      BY <3>1, NoLinkIsNone
    <3> QED BY <3>1, <3>2
  <2>4. \A l \in Links : link'[l] = IF l = k THEN new ELSE link[l]
    BY <2>2 DEF IInv, TypeOK
  <2>5. \A l \in Links : IsLink(l)' <=> IsLink(l) \/ l = k
    BY <2>3, <2>4 DEF IsLink
  <2>6. TypeOK'
    <3>1. link' \in [Links -> Link \cup {NoLink}] /\ count' \in [Users -> Nat]
      BY <1>0, <2>2, <2>3 DEF IInv, TypeOK
    <3>2. \A l \in Links : IsLink(l)' => link'[l].by \in user' /\ link'[l].on \in target'
      BY <1>0, <1>2, <2>3, <2>4, <2>5 DEF IInv, TypeOK
    <3>3. req' \in [Reqs -> Request] /\ user' \subseteq Users /\ target' \subseteq Targets
      BY <1>0, <2>0, <2>1 DEF IInv, TypeOK, Return
    <3>4. \A q, p \in Reqs : q # p => /\ req'[q].users \cap req'[p].users = {}
                                      /\ req'[q].links \cap req'[p].links = {}
      BY <2>0, <2>1 DEF IInv, TypeOK
    <3> QED BY <3>1, <3>2, <3>3, <3>4 DEF TypeOK
  <2>7. Shape'
    <3>1. \A q \in Reqs : \A l \in req[q].links : l \in Links /\ IsLink(l)'
      BY <2>1, <2>5 DEF IInv, TypeOK, Shape, Request
    <3>2. \A q \in Reqs \ {r} : req[q].pc \in {"stats", "insert"} =>
             req[q].l \in Links /\ req[q].l # None /\ link'[req[q].l] = NoLink
      BY <1>0, <2>4, ConstantsOK DEF IInv, Shape, IsLink
    <3> QED BY <2>0, <2>1, <3>1, <3>2 DEF IInv, Shape, At, IsLink
  <2>8. NoNewLinks'
    <3> SUFFICES ASSUME NEW q \in Reqs, At(q, "storage")', NEW l \in LinksOn(req[q].t)'
                 PROVE  l \in req'[q].links
      BY DEF NoNewLinks
    <3>1. q # r /\ req'[q] = req[q] /\ At(q, "storage")
      BY <2>0, <2>1 DEF At
    <3>2. l \in Links /\ IsLink(l)' /\ link'[l].on = req[q].t
      BY <3>1 DEF LinksOn
    <3>3. l # k
      BY <1>0, <2>3, <2>4, <3>1, <3>2 DEF TargetFree, HoldsTarget
    <3> QED BY <2>4, <2>5, <3>1, <3>2, <3>3 DEF IInv, NoNewLinks, LinksOn
  <2>9. CountWithinQuota'
    <3>1. count[u] < Quota
      BY <1>0, <1>2 DEF IInv, RoomLeft
    <3> QED BY <1>0, <2>2, <3>1, ConstantsOK DEF IInv, CountWithinQuota, TypeOK
  <2>10. RoomLeft'
    <3> SUFFICES ASSUME NEW q \in Reqs, At(q, "insert")', req'[q].u \in user'
                 PROVE  count'[req'[q].u] < Quota
      BY DEF RoomLeft
    <3>1. q # r /\ req'[q] = req[q] /\ At(q, "insert")
      BY <2>0, <2>1 DEF At
    <3>2. req[q].u \in req[q].users /\ req[q].users \cap req[r].users = {}
      BY <3>1 DEF IInv, Shape, TypeOK
    <3>3. req[q].u # u /\ req[q].u \in user
      BY <1>0, <3>1, <3>2
    <3> QED BY <2>2, <3>1, <3>3 DEF IInv, RoomLeft, TypeOK
  <2> QED BY <2>6, <2>7, <2>8, <2>9, <2>10 DEF IInv
<1> QED BY <1>1, <1>2

LEMMA UpdateLinkOK ==
    ASSUME IInv, NEW r \in Reqs, UpdateLink(r)
    PROVE  IInv'
<1> DEFINE k == req[r].l
<1>0. /\ k \in Links /\ Return(r) /\ user' = user /\ target' = target /\ count' = count
      /\ link' \in [Links -> Link \cup {NoLink}]
  <2>1. k \in Links /\ Return(r) /\ user' = user /\ target' = target /\ count' = count
    BY DEF UpdateLink, IInv, Shape, At
  <2>2. CASE ~IsLink(k)
    BY <2>1, <2>2 DEF UpdateLink, IInv, TypeOK
  <2>3. CASE IsLink(k)
    <3>1. link[k] \in Link
      BY <2>1, <2>3 DEF IInv, TypeOK, IsLink
    <3>2. req[r].old.expires \in BOOLEAN /\ req[r].old.password \in BOOLEAN
      <4>1. req[r].old \in Link \/ req[r].old = NoLink
        BY DEF IInv, TypeOK, Request
      <4>2. NoLink.expires = FALSE /\ NoLink.password = FALSE
        BY DEF NoLink
      <4> QED BY <4>1, <4>2 DEF Link
    <3>3. [link[k] EXCEPT !.expires = req[r].old.expires, !.password = req[r].old.password] \in Link
      BY <3>1, <3>2 DEF Link
    <3> QED BY <2>1, <2>3, <3>3 DEF UpdateLink, IInv, TypeOK
  <2> QED BY <2>1, <2>2, <2>3
<1>1. \A l \in Links : /\ IsLink(l)' <=> IsLink(l)
                       /\ IsLink(l) => link'[l].by = link[l].by /\ link'[l].on = link[l].on
  <2> SUFFICES ASSUME NEW l \in Links
               PROVE  /\ IsLink(l)' <=> IsLink(l)
                      /\ IsLink(l) => link'[l].by = link[l].by /\ link'[l].on = link[l].on
    OBVIOUS
  <2>1. CASE l # k \/ ~IsLink(k)
    BY <1>0, <2>1 DEF UpdateLink, IInv, TypeOK, IsLink
  <2>2. CASE l = k /\ IsLink(k)
    <3>1. link[k] \in Link
      BY <1>0, <2>2 DEF IInv, TypeOK, IsLink
    <3>2. link'[k] = [link[k] EXCEPT !.expires = req[r].old.expires, !.password = req[r].old.password]
      BY <1>0, <2>2 DEF UpdateLink, IInv, TypeOK
    <3>3. link'[k].by = link[k].by /\ link'[k].on = link[k].on /\ link[k].by \in Users
      BY <3>1, <3>2 DEF Link
    <3> QED BY <2>2, <3>3, ConstantsOK DEF IsLink, NoLink
  <2> QED BY <2>1, <2>2
<1>2. /\ Idle \in Request /\ Idle.pc = "idle" /\ Idle.users = {} /\ Idle.links = {}
      /\ Idle.found = {} /\ Idle.l = None
  BY IdleTyped DEF Idle
<1>3. req \in [Reqs -> Request] /\ \A q \in Reqs : req'[q] = IF q = r THEN Idle ELSE req[q]
  BY <1>0 DEF IInv, TypeOK, Return
<1>4. TypeOK'
  <2>1. req' \in [Reqs -> Request]
    BY <1>0, <1>2, <1>3 DEF Return
  <2>2. \A l \in Links : IsLink(l)' => link'[l].by \in user' /\ link'[l].on \in target'
    BY <1>0, <1>1 DEF IInv, TypeOK
  <2>3. \A q, p \in Reqs : q # p => /\ req'[q].users \cap req'[p].users = {}
                                    /\ req'[q].links \cap req'[p].links = {}
    BY <1>2, <1>3 DEF IInv, TypeOK
  <2> QED BY <1>0, <2>1, <2>2, <2>3 DEF IInv, TypeOK
<1>5. Shape'
  <2>1. \A q \in Reqs : \A l \in req[q].links : l \in Links /\ IsLink(l)'
    BY <1>1, <1>3 DEF IInv, TypeOK, Shape, Request
  <2>2. \A q \in Reqs : req[q].pc \in {"stats", "insert"} =>
           req[q].l # None /\ link'[req[q].l] = NoLink
    BY <1>1, ConstantsOK DEF IInv, Shape, IsLink
  <2> QED BY <1>2, <1>3, <2>1, <2>2 DEF IInv, Shape, At, IsLink
<1>6. NoNewLinks'
  BY <1>1, <1>2, <1>3 DEF IInv, NoNewLinks, LinksOn, At
<1>7. RoomLeft' /\ CountWithinQuota'
  BY <1>0, <1>2, <1>3 DEF IInv, RoomLeft, CountWithinQuota, At
<1> QED BY <1>4, <1>5, <1>6, <1>7 DEF IInv

LEMMA DeleteUserOK ==
    ASSUME IInv, NEW r \in Reqs, NEW u \in Users, DeleteUserAndRelatedData(r, u)
    PROVE  IInv'
<1> DEFINE own  == {t \in target : Owner[t] = u}
           gone == {l \in Links : IsLink(l) /\ (link[l].by = u \/ link[l].on \in own)}
<1>0. /\ user' = user \ {u} /\ target' = target \ own /\ link' = Without(gone)
      /\ count' = [count EXCEPT ![u] = 0] /\ req' = req
      /\ u \in user /\ At(r, "idle") /\ UserFree(r, u)
      /\ \A l \in gone : LinkFree(r, l)
  BY DEF DeleteUserAndRelatedData, May
<1>1. \A l \in Links : link'[l] = IF l \in gone THEN NoLink ELSE link[l]
  BY <1>0 DEF Without
<1>2. \A l \in Links : IsLink(l)' <=> IsLink(l) /\ l \notin gone
  BY <1>1 DEF IsLink
<1>3. TypeOK'
  <2>1. link' \in [Links -> Link \cup {NoLink}]
    BY <1>0 DEF Without, IInv, TypeOK
  <2>2. \A l \in Links : IsLink(l)' => link'[l].by \in user' /\ link'[l].on \in target'
    <3> SUFFICES ASSUME NEW l \in Links, IsLink(l)' PROVE link'[l].by \in user' /\ link'[l].on \in target'
      OBVIOUS
    <3>1. IsLink(l) /\ l \notin gone /\ link'[l] = link[l]
      BY <1>1, <1>2
    <3>2. link[l].by \in user /\ link[l].on \in target
      BY <3>1 DEF IInv, TypeOK
    <3>3. link[l].by # u /\ link[l].on \notin own
      BY <3>1
    <3> QED BY <1>0, <3>1, <3>2, <3>3
  <2>3. count' \in [Users -> Nat] /\ user' \subseteq Users /\ target' \subseteq Targets
    BY <1>0 DEF IInv, TypeOK
  <2> QED BY <1>0, <2>1, <2>2, <2>3 DEF IInv, TypeOK
<1>4. Shape'
  <2>1. r \in Reqs /\ req[r].pc = "idle"
    BY <1>0 DEF At
  <2>2. \A q \in Reqs \ {r} : \A l \in req[q].links : l \in Links /\ IsLink(l)'
    BY <1>0, <1>2 DEF IInv, TypeOK, Shape, Request, LinkFree
  <2>3. \A l \in req[r].links : l \in Links /\ IsLink(l)'
    BY <2>1 DEF IInv, Shape, At
  <2>4. \A q \in Reqs : req[q].pc \in {"stats", "insert"} => link'[req[q].l] = NoLink
    BY <1>1 DEF IInv, Shape, IsLink
  <2> QED BY <1>0, <2>2, <2>3, <2>4 DEF IInv, Shape, At, IsLink
<1>5. NoNewLinks'
  BY <1>0, <1>1, <1>2 DEF IInv, NoNewLinks, LinksOn, At
<1>6. CountWithinQuota'
  BY <1>0, ConstantsOK DEF IInv, TypeOK, CountWithinQuota
<1>7. RoomLeft'
  BY <1>0 DEF IInv, TypeOK, RoomLeft, At
<1> QED BY <1>3, <1>4, <1>5, <1>6, <1>7 DEF IInv

-----------------------------------------------------------------------------
(* The steps that change only their own request.                           *)

\* What others have found or locked is not an id that a request has generated.
LEMMA StartOK ==
    ASSUME IInv, NEW r \in Reqs, Start(r)
    PROVE  IInv'
<1>0. req[r] \in Request /\ req \in [Reqs -> Request]
  BY DEF IInv, TypeOK
<1>1. ASSUME NEW u \in Users, NEW t \in Targets, NEW l \in Links, Create(r, u, t, l)
      PROVE  IInv'
  <2> DEFINE new == [Idle EXCEPT !.pc = "stats", !.u = u, !.t = t, !.l = l]
  <2>1. /\ new \in Request /\ new.pc = "stats" /\ new.u = u /\ new.t = t /\ new.l = l
        /\ new.found = {} /\ new.links = {} /\ new.users = {}
    BY IdleTyped DEF Idle, Request, Pcs
  <2>2. Fresh(l) /\ req' = [req EXCEPT ![r] = new] /\ UNCHANGED rows
    BY <1>1 DEF Create
  <2> HIDE DEF new
  <2>3. Own(r, new)
    BY <2>1, <2>2 DEF Own, Fresh
  <2> QED BY <2>1, <2>2, <2>3, OwnStep
<1>2. ASSUME NEW l \in Links, Update(r, l)
      PROVE  IInv'
  <2>1. PICK c \in {[link[l] EXCEPT !.expires = ~@], [link[l] EXCEPT !.password = ~@]} :
           req' = [req EXCEPT ![r] = [Idle EXCEPT !.pc = "update", !.l = l, !.old = c]]
    BY <1>2 DEF Update
  <2> DEFINE new == [Idle EXCEPT !.pc = "update", !.l = l, !.old = c]
  <2>2. link[l] \in Link /\ IsLink(l) /\ UNCHANGED rows
    BY <1>2 DEF Update, IInv, TypeOK, IsLink
  <2>3. c \in Link
    BY <2>1, <2>2 DEF Link
  <2>4. /\ new \in Request /\ new.pc = "update" /\ new.l = l
        /\ new.found = {} /\ new.links = {} /\ new.users = {}
    BY <2>3, IdleTyped DEF Idle, Request, Pcs
  <2>5. \A q \in Reqs : req[q].pc \in {"stats", "insert"} => req[q].l # l
    BY <2>2 DEF IInv, Shape
  <2>6. req' = [req EXCEPT ![r] = new]
    BY <2>1
  <2> HIDE DEF new
  <2>7. Own(r, new)
    BY <2>4, <2>5 DEF Own
  <2> QED BY <2>2, <2>4, <2>6, <2>7, OwnStep
<1>3. ASSUME NEW l \in Links, Delete(r, l)
      PROVE  IInv'
  <2> DEFINE new == [Idle EXCEPT !.pc = "delete", !.l = l, !.u = link[l].by]
  <2>1. IsLink(l) /\ UNCHANGED rows /\ req' = [req EXCEPT ![r] = new] /\ link[l].by \in Users
    BY <1>3 DEF Delete, IInv, TypeOK
  <2>2. /\ new \in Request /\ new.pc = "delete" /\ new.l = l /\ new.u \in Users
        /\ new.found = {} /\ new.links = {} /\ new.users = {}
    BY <2>1, IdleTyped DEF Idle, Request, Pcs
  <2>3. \A q \in Reqs : req[q].pc \in {"stats", "insert"} => req[q].l # l
    BY <2>1 DEF IInv, Shape
  <2> HIDE DEF new
  <2>4. Own(r, new)
    BY <2>2, <2>3 DEF Own
  <2> QED BY <2>1, <2>2, <2>4, OwnStep
<1>4. ASSUME NEW u \in Users, DeleteAllByUser(r, u)
      PROVE  IInv'
  <2> DEFINE new == [Idle EXCEPT !.pc = "lock", !.u = u, !.found = LinksBy(u)]
  <2>1. UNCHANGED rows /\ req' = [req EXCEPT ![r] = new]
    BY <1>4 DEF DeleteAllByUser
  <2>2. /\ new \in Request /\ new.pc = "lock" /\ new.l = None
        /\ new.found = LinksBy(u) /\ new.links = {} /\ new.users = {}
    BY IdleTyped DEF Idle, Request, Pcs, LinksBy
  <2>3. \A q \in Reqs : req[q].pc \in {"stats", "insert"} =>
           req[q].l # None /\ req[q].l \notin LinksBy(u)
    BY ConstantsOK DEF IInv, Shape, LinksBy
  <2> HIDE DEF new
  <2>4. Own(r, new)
    BY <2>2, <2>3 DEF Own
  <2> QED BY <2>1, <2>2, <2>4, OwnStep
<1>5. ASSUME NEW t \in Targets, Purge(r, t)
      PROVE  IInv'
  <2> DEFINE new == [Idle EXCEPT !.pc = "purge", !.t = t]
  <2>1. UNCHANGED rows /\ req' = [req EXCEPT ![r] = new]
    BY <1>5 DEF Purge
  <2>2. /\ new \in Request /\ new.pc = "purge" /\ new.l = None /\ new.t = t
        /\ new.found = {} /\ new.links = {} /\ new.users = {}
    BY IdleTyped DEF Idle, Request, Pcs
  <2>3. \A q \in Reqs : req[q].pc \in {"stats", "insert"} => req[q].l # None
    BY ConstantsOK DEF IInv, Shape
  <2> HIDE DEF new
  <2>4. Own(r, new)
    BY <2>2, <2>3 DEF Own
  <2> QED BY <2>1, <2>2, <2>4, OwnStep
<1> QED BY <1>1, <1>2, <1>3, <1>4, <1>5, DeleteUserOK DEF Start

LEMMA StatsOK ==
    ASSUME IInv, NEW r \in Reqs, GetShareLinksStats(r)
    PROVE  IInv'
<1> DEFINE u == req[r].u
           new == [req[r] EXCEPT !.pc = "insert", !.users = {u}]
<1>0. At(r, "stats") /\ UserFree(r, u) /\ UNCHANGED rows /\ u \in Users /\ req[r] \in Request
  BY DEF GetShareLinksStats, IInv, Shape, TypeOK, At
<1>1. CASE ~(u \in user /\ count[u] < Quota)
  <2>1. Return(r)
    BY <1>1 DEF GetShareLinksStats, Return
  <2> QED BY <1>0, <2>1, Returns
<1>2. CASE u \in user /\ count[u] < Quota
  <2>1. req' = [req EXCEPT ![r] = new]
    BY <1>2 DEF GetShareLinksStats, IInv, TypeOK
  <2>2. /\ new \in Request /\ new.pc = "insert" /\ new.u = u /\ new.users = {u} /\ new.l = req[r].l
        /\ new.t = req[r].t /\ new.found = req[r].found /\ new.links = req[r].links
    BY <1>0 DEF Request, Pcs
  <2>3. \A q \in Reqs \ {r} : req[q].users \cap {u} = {}
    BY <1>0 DEF UserFree
  <2> HIDE DEF new
  <2>4. Own(r, new)
    BY <1>0, <1>2, <2>2, <2>3 DEF Own, IInv, Shape, TypeOK, At
  <2> QED BY <1>0, <2>1, <2>2, <2>4, OwnStep
<1> QED BY <1>1, <1>2

LEMMA DeleteLinkOK ==
    ASSUME IInv, NEW r \in Reqs, DeleteLink(r)
    PROVE  IInv'
<1> DEFINE k == {req[r].l} \cap LinksBy(req[r].u)
           new == [req[r] EXCEPT !.pc = "decrement", !.links = k]
<1>0. At(r, "delete") /\ LinkFree(r, req[r].l) /\ UNCHANGED rows /\ req[r] \in Request
  BY DEF DeleteLink, IInv, TypeOK
<1>1. req' = [req EXCEPT ![r] = new]
  BY DEF DeleteLink, IInv, TypeOK
<1>2. k \subseteq Links /\ \A l \in k : IsLink(l) /\ LinkFree(r, l)
  BY <1>0 DEF LinksBy
<1>3. /\ new \in Request /\ new.pc = "decrement" /\ new.u = req[r].u /\ new.l = req[r].l
      /\ new.users = req[r].users /\ new.found = req[r].found /\ new.links = k
  BY <1>0, <1>2 DEF Request, Pcs
<1>4. \A q \in Reqs \ {r} : /\ req[q].links \cap k = {}
                            /\ req[q].pc \in {"stats", "insert"} => req[q].l \notin k
  BY <1>2 DEF LinkFree, IInv, Shape
<1> HIDE DEF new, k
<1>5. Own(r, new)
  BY <1>0, <1>2, <1>3, <1>4 DEF Own, IInv, Shape, TypeOK, At
<1> QED BY <1>0, <1>1, <1>3, <1>5, OwnStep

LEMMA DeleteByFileIDsOK ==
    ASSUME IInv, NEW r \in Reqs, DeleteByFileIDs(r)
    PROVE  IInv'
<1> DEFINE k == LinksOn(req[r].t)
           new == [req[r] EXCEPT !.pc = "lock", !.found = k]
<1>0. At(r, "purge") /\ UNCHANGED rows /\ req[r] \in Request
  BY DEF DeleteByFileIDs, IInv, TypeOK
<1>1. req' = [req EXCEPT ![r] = new]
  BY DEF DeleteByFileIDs, IInv, TypeOK
<1>2. k \subseteq Links /\ \A l \in k : IsLink(l)
  BY DEF LinksOn
<1>3. /\ new \in Request /\ new.pc = "lock" /\ new.l = req[r].l
      /\ new.users = req[r].users /\ new.found = k /\ new.links = req[r].links
  BY <1>0, <1>2 DEF Request, Pcs
<1>4. \A q \in Reqs : req[q].pc \in {"stats", "insert"} => req[q].l \notin k
  BY <1>2 DEF IInv, Shape
<1> HIDE DEF new, k
<1>5. Own(r, new)
  BY <1>0, <1>2, <1>3, <1>4 DEF Own, IInv, Shape, TypeOK, At
<1> QED BY <1>0, <1>1, <1>3, <1>5, OwnStep

LEMMA LockFoundOK ==
    ASSUME IInv, NEW r \in Reqs, LockFound(r)
    PROVE  IInv'
<1> DEFINE mine == {l \in req[r].found : IsLink(l)}
           due  == [u \in Users |-> Cardinality(mine \cap LinksBy(u))]
           new  == [req[r] EXCEPT !.pc = "counts", !.found = {}, !.links = mine, !.due = due]
<1>0. /\ At(r, "lock") /\ UNCHANGED rows /\ req[r] \in Request
      /\ \A l \in req[r].found : LinkFree(r, l)
  BY DEF LockFound, IInv, TypeOK
<1>1. req' = [req EXCEPT ![r] = new]
  BY DEF LockFound, IInv, TypeOK
<1>2. mine \subseteq Links /\ \A l \in mine : IsLink(l) /\ LinkFree(r, l)
  BY <1>0 DEF Request
<1>3. due \in [Users -> Nat]
  <2>1. \A u \in Users : IsFiniteSet(mine \cap LinksBy(u))
    BY <1>2, ConstantsOK, FS_Subset
  <2> QED BY <2>1, FS_CardinalityType
<1> HIDE DEF due
<1>4. /\ new \in Request /\ new.pc = "counts" /\ new.l = req[r].l
      /\ new.users = req[r].users /\ new.found = {} /\ new.links = mine
  BY <1>0, <1>2, <1>3 DEF Request, Pcs
<1>5. \A q \in Reqs \ {r} : /\ req[q].links \cap mine = {}
                            /\ req[q].pc \in {"stats", "insert"} => req[q].l \notin mine
  BY <1>2 DEF LinkFree, IInv, Shape
<1> HIDE DEF new, mine
<1>6. Own(r, new)
  BY <1>0, <1>2, <1>4, <1>5 DEF Own, IInv, Shape, TypeOK, At
<1> QED BY <1>0, <1>1, <1>4, <1>6, OwnStep

LEMMA CountOneOK ==
    ASSUME IInv, NEW r \in Reqs, NEW u \in Users, DecrementShareLinksCounts(r, u)
    PROVE  IInv'
<1> DEFINE k   == req[r].users \cup {u}
           new == [req[r] EXCEPT !.users = k]
<1>0. At(r, "counts") /\ UserFree(r, u) /\ UNCHANGED rows /\ req[r] \in Request
  BY DEF DecrementShareLinksCounts, IInv, TypeOK
<1>1. req' = [req EXCEPT ![r] = new]
  BY DEF DecrementShareLinksCounts, IInv, TypeOK
<1>2. k \subseteq Users
  BY <1>0 DEF Request
<1>3. /\ new \in Request /\ new.pc = "counts" /\ new.l = req[r].l
      /\ new.users = k /\ new.found = req[r].found /\ new.links = req[r].links
  BY <1>0, <1>2 DEF Request, Pcs, At
<1>4. \A q \in Reqs \ {r} : req[q].users \cap k = {}
  BY <1>0 DEF UserFree, IInv, TypeOK
<1> HIDE DEF new, k
<1>5. Own(r, new)
  BY <1>0, <1>3, <1>4 DEF Own, IInv, Shape, TypeOK, At
<1> QED BY <1>0, <1>1, <1>3, <1>5, OwnStep

LEMMA HardDeleteOK ==
    ASSUME IInv, NEW r \in Reqs, HardDelete(r)
    PROVE  IInv'
<1> DEFINE t   == req[r].t
           k   == req[r].links \cup LinksOn(t)
           new == [req[r] EXCEPT !.pc = "storage", !.links = k]
<1>0. /\ At(r, "counts") /\ UNCHANGED rows /\ req[r] \in Request /\ t \in Targets
      /\ \A l \in LinksOn(t) : LinkFree(r, l)
  BY DEF HardDelete, Counted, IInv, TypeOK, Request
<1>1. req' = [req EXCEPT ![r] = new]
  BY DEF HardDelete, IInv, TypeOK
<1>2. /\ k \subseteq Links
      /\ \A l \in k : IsLink(l) /\ LinkFree(r, l)
  BY <1>0 DEF LinksOn, Request, IInv, Shape, TypeOK, LinkFree
<1>3. /\ new \in Request /\ new.pc = "storage" /\ new.l = req[r].l /\ new.t = t
      /\ new.users = req[r].users /\ new.found = req[r].found /\ new.links = k
  BY <1>0, <1>2 DEF Request, Pcs
<1>4. \A q \in Reqs \ {r} : /\ req[q].links \cap k = {}
                            /\ req[q].pc \in {"stats", "insert"} => req[q].l \notin k
  BY <1>2 DEF LinkFree, IInv, Shape
<1>5. LinksOn(t) \subseteq k
  OBVIOUS
<1> HIDE DEF new, k
<1>6. Own(r, new)
  BY <1>0, <1>2, <1>3, <1>4, <1>5 DEF Own, IInv, Shape, TypeOK, At
<1> QED BY <1>0, <1>1, <1>3, <1>6, OwnStep

\* The three commits remove what they have locked.
LEMMA CommitsOK ==
    ASSUME IInv, NEW r \in Reqs,
           DecrementShareLinksCount(r) \/ CommitDeleteAll(r) \/ AddUserStorageUsed(r)
    PROVE  IInv'
<1>1. CASE DecrementShareLinksCount(r)
  <2> DEFINE due == [NoDue EXCEPT ![req[r].u] = 1]
  <2>1. due \in [Users -> Nat] /\ {} \in SUBSET Targets /\ target' = target \ {}
    BY <1>1 DEF NoDue, DecrementShareLinksCount
  <2>2. /\ Return(r) /\ user' = user /\ link' = Without(req[r].links) /\ count' = Reduced(due)
        /\ \A t \in {} : LinksOn(t) \subseteq req[r].links
    BY <1>1 DEF DecrementShareLinksCount
  <2> HIDE DEF due
  <2> QED BY <2>1, <2>2, Removes
<1>2. CASE CommitDeleteAll(r)
  <2>1. req[r].due \in [Users -> Nat] /\ {} \in SUBSET Targets /\ target' = target \ {}
    BY <1>2 DEF CommitDeleteAll, IInv, TypeOK, Request
  <2>2. /\ Return(r) /\ user' = user /\ link' = Without(req[r].links) /\ count' = Reduced(req[r].due)
        /\ \A t \in {} : LinksOn(t) \subseteq req[r].links
    BY <1>2 DEF CommitDeleteAll
  <2> QED BY <2>1, <2>2, Removes
<1>3. CASE AddUserStorageUsed(r)
  <2>1. req[r].due \in [Users -> Nat] /\ {req[r].t} \in SUBSET Targets
    BY <1>3 DEF AddUserStorageUsed, IInv, TypeOK, Request, Shape, At
  <2>2. /\ Return(r) /\ user' = user /\ link' = Without(req[r].links) /\ count' = Reduced(req[r].due)
        /\ target' = target \ {req[r].t}
    BY <1>3 DEF AddUserStorageUsed
  <2>3. \A t \in {req[r].t} : LinksOn(t) \subseteq req[r].links
    BY <1>3 DEF AddUserStorageUsed, IInv, NoNewLinks
  <2> QED BY <2>1, <2>2, <2>3, Removes
<1> QED BY <1>1, <1>2, <1>3

LEMMA StutterOK == ASSUME IInv, UNCHANGED vars PROVE IInv'
  BY DEF IInv, TypeOK, Shape, NoNewLinks, RoomLeft, CountWithinQuota, vars, IsLink, LinksOn, At

LEMMA Inductive == IInv /\ [Next]_vars => IInv'
<1> SUFFICES ASSUME IInv, [Next]_vars PROVE IInv'
  OBVIOUS
<1>1. CASE UNCHANGED vars
  BY <1>1, StutterOK
<1>2. ASSUME NEW r \in Reqs, Start(r) PROVE IInv'
  BY <1>2, StartOK
<1>3. ASSUME NEW r \in Reqs, Abort(r) \/ DeadlockVictim(r) PROVE IInv'
  BY <1>3, Returns DEF Abort, DeadlockVictim
<1>4. ASSUME NEW r \in Reqs, Continue(r) PROVE IInv'
  BY <1>3, <1>4, StatsOK, InsertLinkOK, UpdateLinkOK, DeleteLinkOK, DeleteByFileIDsOK,
     LockFoundOK, CountOneOK, HardDeleteOK, CommitsOK
  DEF Continue
<1> QED BY <1>1, <1>2, <1>3, <1>4 DEF Next

\* Types, foreign keys and row locks, for any number of everything (TypeOK).
THEOREM TypeCorrect == Spec => []TypeOK
<1>1. IInv => TypeOK
  BY DEF IInv
<1> QED BY <1>1, InitOK, Inductive, PTL DEF Spec

\* The counter of links never exceeds its limit, however requests, failures
\* and deadlocks interleave (createLink checks and counts under one lock).
THEOREM LimitHolds == Spec => []CountWithinQuota
<1>1. IInv => CountWithinQuota
  BY DEF IInv
<1> QED BY <1>1, InitOK, Inductive, PTL DEF Spec

-----------------------------------------------------------------------------
(* The counter and the links, when none is deleted by its id.              *)

LEMMA FiniteLinks ==
    ASSUME NEW S \in SUBSET Links
    PROVE  IsFiniteSet(S) /\ Cardinality(S) \in Nat
  BY ConstantsOK, FS_Subset, FS_CardinalityType

\* Only five kinds of step write rows.
LEMMA Kinds ==
    ASSUME NEW r \in Reqs, Start(r) \/ Continue(r) \/ Abort(r)
    PROVE  \/ UNCHANGED rows
           \/ InsertLink(r) \/ UpdateLink(r) \/ DecrementShareLinksCount(r)
           \/ CommitDeleteAll(r) \/ AddUserStorageUsed(r)
           \/ \E u \in Users : DeleteUserAndRelatedData(r, u)
<1>1. ASSUME NEW u \in Users, NEW t \in Targets, NEW l \in Links, Create(r, u, t, l) PROVE UNCHANGED rows
  BY <1>1 DEF Create
<1>2. ASSUME NEW l \in Links, Update(r, l) \/ Delete(r, l) PROVE UNCHANGED rows
  BY <1>2 DEF Update, Delete
<1>3. ASSUME NEW u \in Users, DeleteAllByUser(r, u) \/ DecrementShareLinksCounts(r, u) PROVE UNCHANGED rows
  BY <1>3 DEF DeleteAllByUser, DecrementShareLinksCounts
<1>4. ASSUME NEW t \in Targets, Purge(r, t) PROVE UNCHANGED rows
  BY <1>4 DEF Purge
<1>5. GetShareLinksStats(r) \/ DeleteLink(r) \/ DeleteByFileIDs(r) => UNCHANGED rows
  BY DEF GetShareLinksStats, DeleteLink, DeleteByFileIDs
<1>6. LockFound(r) \/ HardDelete(r) \/ DeadlockVictim(r) \/ Abort(r) => UNCHANGED rows
  BY DEF LockFound, HardDelete, DeadlockVictim, Abort
<1> QED BY <1>1, <1>2, <1>3, <1>4, <1>5, <1>6 DEF Start, Continue

\* No step writes another request's record.
LEMMA OthersKept ==
    ASSUME IInv, NEW r \in Reqs, Start(r) \/ Continue(r) \/ Abort(r)
    PROVE  \A q \in Reqs \ {r} : req'[q] = req[q]
<1>0. req \in [Reqs -> Request]
  BY DEF IInv, TypeOK
<1> DEFINE Kept == \A q \in Reqs \ {r} : req'[q] = req[q]
<1>1. ASSUME NEW u \in Users, NEW t \in Targets, NEW l \in Links, Create(r, u, t, l) PROVE Kept
  BY <1>0, <1>1 DEF Create
<1>2. ASSUME NEW l \in Links, Update(r, l) PROVE Kept
  BY <1>0, <1>2 DEF Update
<1>3. ASSUME NEW l \in Links, Delete(r, l) PROVE Kept
  BY <1>0, <1>3 DEF Delete
<1>4. ASSUME NEW u \in Users, DeleteAllByUser(r, u) \/ DeleteUserAndRelatedData(r, u) PROVE Kept
  BY <1>0, <1>4 DEF DeleteAllByUser, DeleteUserAndRelatedData
<1>5. ASSUME NEW u \in Users, DecrementShareLinksCounts(r, u) PROVE Kept
  BY <1>0, <1>5 DEF DecrementShareLinksCounts
<1>6. ASSUME NEW t \in Targets, Purge(r, t) PROVE Kept
  BY <1>0, <1>6 DEF Purge
<1>7. GetShareLinksStats(r) => Kept
  BY <1>0 DEF GetShareLinksStats
<1>8. DeleteLink(r) \/ DeleteByFileIDs(r) => Kept
  BY <1>0 DEF DeleteLink, DeleteByFileIDs
<1>9. LockFound(r) => Kept
  BY <1>0 DEF LockFound
<1>10. HardDelete(r) => Kept
  BY <1>0 DEF HardDelete
<1>11. DeadlockVictim(r) \/ Abort(r) \/ InsertLink(r) \/ UpdateLink(r) \/ CommitDeleteAll(r)
         \/ AddUserStorageUsed(r) \/ DecrementShareLinksCount(r) => Kept
  BY <1>0 DEF DeadlockVictim, Abort, InsertLink, UpdateLink, CommitDeleteAll, AddUserStorageUsed,
              DecrementShareLinksCount, Return
<1> HIDE DEF Kept
<1>12. Kept
  BY <1>1, <1>2, <1>3, <1>4, <1>5, <1>6, <1>7, <1>8, <1>9, <1>10, <1>11 DEF Start, Continue
<1> QED BY <1>12 DEF Kept

\* A link never changes hands.
LEMMA SameCreator ==
    ASSUME IInv, NEW r \in Reqs, Start(r) \/ Continue(r) \/ Abort(r)
    PROVE  \A l \in Links : IsLink(l) /\ IsLink(l)' => link'[l].by = link[l].by
<1> DEFINE Same == \A l \in Links : IsLink(l) /\ IsLink(l)' => link'[l].by = link[l].by
<1>1. InsertLink(r) => Same
  BY DEF InsertLink, IInv, TypeOK, Shape, At, IsLink
<1>2. ASSUME UpdateLink(r) PROVE Same
  <2>1. link' = link \/ link' = [link EXCEPT ![req[r].l] =
                                    [@ EXCEPT !.expires = req[r].old.expires,
                                              !.password = req[r].old.password]]
    BY <1>2 DEF UpdateLink
  <2> SUFFICES ASSUME NEW l \in Links, IsLink(l) PROVE link'[l].by = link[l].by
    OBVIOUS
  <2>2. link[l] \in Link /\ link \in [Links -> Link \cup {NoLink}]
    BY DEF IInv, TypeOK, IsLink
  <2>3. link'[l] = link[l] \/ link'[l] = [link[l] EXCEPT !.expires = req[r].old.expires,
                                                         !.password = req[r].old.password]
    BY <2>1, <2>2
  <2> QED BY <2>2, <2>3 DEF Link
<1>3. ASSUME NEW ls, link' = Without(ls) PROVE Same
  BY <1>3 DEF Without, IsLink
<1>4. CommitDeleteAll(r) \/ AddUserStorageUsed(r) \/ DecrementShareLinksCount(r) => Same
  <2>1. CommitDeleteAll(r) \/ AddUserStorageUsed(r) \/ DecrementShareLinksCount(r) =>
          link' = Without(req[r].links)
    BY DEF CommitDeleteAll, AddUserStorageUsed, DecrementShareLinksCount
  <2> QED BY <1>3, <2>1
<1>5. ASSUME NEW u \in Users, DeleteUserAndRelatedData(r, u) PROVE Same
  <2>1. PICK ls : link' = Without(ls)
    BY <1>5 DEF DeleteUserAndRelatedData
  <2> QED BY <1>3, <2>1
<1>6. UNCHANGED rows => Same
  BY DEF rows
<1> HIDE DEF Same
<1>7. Same
  BY <1>1, <1>2, <1>4, <1>5, <1>6, Kinds
<1> QED BY <1>7 DEF Same

\* What the others have deleted is still there, and still of the same users.
LEMMA OthersDue ==
    ASSUME IInv, IInv', DueIsDeleted, NEW r \in Reqs, Start(r) \/ Continue(r) \/ Abort(r),
           \A u \in Users : req'[r].due[u] <= Cardinality(req'[r].links \cap LinksBy(u)')
    PROVE  DueIsDeleted'
<1>1. ASSUME NEW q \in Reqs, NEW u \in Users, q # r
      PROVE  req'[q].due[u] <= Cardinality(req'[q].links \cap LinksBy(u)')
  <2>1. req[q].links \subseteq Links /\ req'[q] = req[q]
    BY <1>1, OthersKept DEF IInv, TypeOK, Request
  <2>2. \A l \in req[q].links : IsLink(l) /\ IsLink(l)'
    BY <2>1 DEF IInv, Shape
  <2>3. \A l \in req[q].links : link'[l].by = link[l].by
    BY <2>1, <2>2, SameCreator
  <2>4. req[q].links \cap LinksBy(u)' = req[q].links \cap LinksBy(u)
    BY <2>1, <2>2, <2>3 DEF LinksBy
  <2> QED BY <2>1, <2>4 DEF DueIsDeleted
<1>2. \A q \in Reqs, u \in Users : req'[q].due[u] <= Cardinality(req'[q].links \cap LinksBy(u)')
  BY <1>1
<1> QED BY <1>2 DEF DueIsDeleted

\* A commit that removes the links it has locked and counts at most those.
LEMMA CommitCovers ==
    ASSUME IInv, CInv, NEW r \in Reqs, link' = Without(req[r].links), count' = Reduced(req[r].due)
    PROVE  CountCoversLinks'
<1> SUFFICES ASSUME NEW u \in Users PROVE Cardinality(LinksBy(u)') <= count'[u]
  BY DEF CountCoversLinks
<1> DEFINE mine == req[r].links \cap LinksBy(u)
<1>1. LinksBy(u)' = LinksBy(u) \ mine
  BY DEF LinksBy, IsLink, Without
<1>2. LinksBy(u) \subseteq Links /\ mine \subseteq Links /\ LinksBy(u) \cap mine = mine
  BY DEF LinksBy
<1>3. Cardinality(LinksBy(u) \ mine) = Cardinality(LinksBy(u)) - Cardinality(LinksBy(u) \cap mine)
  BY <1>2, FiniteLinks, FS_Difference
<1>4. Cardinality(LinksBy(u)') = Cardinality(LinksBy(u)) - Cardinality(mine)
  BY <1>1, <1>2, <1>3
<1>5. req[r].due[u] <= Cardinality(mine) /\ Cardinality(LinksBy(u)) <= count[u]
  BY DEF CInv, DueIsDeleted, CountCoversLinks
<1>6. /\ Cardinality(LinksBy(u)) \in Nat /\ Cardinality(mine) \in Nat
      /\ Cardinality(LinksBy(u)') \in Nat
  BY <1>1, <1>2, FiniteLinks
<1>7. count[u] \in Nat /\ req[r].due[u] \in Nat
  BY DEF IInv, TypeOK, Request
<1>8. count'[u] = IF req[r].due[u] = 0 THEN count[u]
                  ELSE IF count[u] >= req[r].due[u] THEN count[u] - req[r].due[u] ELSE 0
  BY DEF Reduced
<1> HIDE DEF mine
<1> QED BY <1>4, <1>5, <1>6, <1>7, <1>8

LEMMA NeverById ==
    ASSUME IInv, IInv', NoneById, "delete" \notin Ops, NEW r \in Reqs,
           Start(r) \/ Continue(r) \/ Abort(r)
    PROVE  NoneById'
<1> DEFINE Fine == req'[r].pc \notin {"delete", "decrement"}
<1>0. req \in [Reqs -> Request] /\ Idle.pc = "idle" /\ req[r].pc \notin {"delete", "decrement"}
  BY DEF IInv, TypeOK, Idle, NoneById
<1>1. ASSUME NEW u \in Users, NEW t \in Targets, NEW l \in Links, Create(r, u, t, l) PROVE Fine
  BY <1>0, <1>1 DEF Create, Idle
<1>2. ASSUME NEW l \in Links, Update(r, l) PROVE Fine
  BY <1>0, <1>2 DEF Update, Idle
<1>3. ASSUME NEW l \in Links PROVE ~Delete(r, l)
  BY DEF Delete, May
<1>4. ASSUME NEW u \in Users, DeleteAllByUser(r, u) \/ DeleteUserAndRelatedData(r, u) PROVE Fine
  BY <1>0, <1>4 DEF DeleteAllByUser, DeleteUserAndRelatedData, Idle
<1>5. ASSUME NEW u \in Users, DecrementShareLinksCounts(r, u) PROVE Fine
  BY <1>0, <1>5 DEF DecrementShareLinksCounts, At, Request
<1>6. ASSUME NEW t \in Targets, Purge(r, t) PROVE Fine
  BY <1>0, <1>6 DEF Purge, Idle
<1>7. GetShareLinksStats(r) => Fine
  BY <1>0 DEF GetShareLinksStats, Request
<1>8. ~DeleteLink(r) /\ ~DecrementShareLinksCount(r)
  BY <1>0 DEF DeleteLink, DecrementShareLinksCount, At
<1>9. DeleteByFileIDs(r) => Fine
  BY <1>0 DEF DeleteByFileIDs, Request
<1>10. LockFound(r) => Fine
  BY <1>0 DEF LockFound, Request
<1>11. HardDelete(r) => Fine
  BY <1>0 DEF HardDelete, Request
<1>12. DeadlockVictim(r) \/ Abort(r) \/ InsertLink(r) \/ UpdateLink(r) \/ CommitDeleteAll(r)
         \/ AddUserStorageUsed(r) => Fine
  BY <1>0 DEF DeadlockVictim, Abort, InsertLink, UpdateLink, CommitDeleteAll, AddUserStorageUsed, Return
<1> HIDE DEF Fine
<1>13. Fine
  BY <1>1, <1>2, <1>3, <1>4, <1>5, <1>6, <1>7, <1>8, <1>9, <1>10, <1>11, <1>12 DEF Start, Continue
<1> QED BY <1>13, OthersKept DEF NoneById, Fine

\* A request owes no more than it has deleted when it leaves the rows alone,
\* and nothing once it has returned.
LEMMA OwnDue ==
    ASSUME IInv, CInv, NEW r \in Reqs, Start(r) \/ Continue(r) \/ Abort(r)
    PROVE  \/ Return(r)
           \/ UNCHANGED req /\ At(r, "idle")
           \/ /\ UNCHANGED rows
              /\ \A u \in Users : req'[r].due[u] <= Cardinality(req'[r].links \cap LinksBy(u))
<1> DEFINE Owes == \A u \in Users : req'[r].due[u] <= Cardinality(req'[r].links \cap LinksBy(u))
           More == /\ req'[r].due = req[r].due /\ req[r].links \subseteq req'[r].links
                   /\ req'[r].links \subseteq Links
           None0 == req'[r].due = NoDue /\ req'[r].links = {}
<1>0. req \in [Reqs -> Request] /\ Idle.due = NoDue /\ Idle.links = {} /\ req[r].links \subseteq Links
  BY DEF IInv, TypeOK, Idle, Request
<1>1. ASSUME NEW u \in Users, NEW t \in Targets, NEW l \in Links, Create(r, u, t, l) PROVE None0
  BY <1>0, <1>1 DEF Create, Idle
<1>2. ASSUME NEW l \in Links, Update(r, l) \/ Delete(r, l) PROVE None0
  <2>1. CASE Update(r, l)
    BY <1>0, <2>1 DEF Update, Idle
  <2>2. CASE Delete(r, l)
    BY <1>0, <2>2 DEF Delete, Idle
  <2> QED BY <1>2, <2>1, <2>2
<1>3. ASSUME NEW u \in Users, DeleteAllByUser(r, u) PROVE None0
  BY <1>0, <1>3 DEF DeleteAllByUser, Idle
<1>4. ASSUME NEW t \in Targets, Purge(r, t) PROVE None0
  BY <1>0, <1>4 DEF Purge, Idle
<1>5. ASSUME NEW u \in Users, DecrementShareLinksCounts(r, u) PROVE More
  BY <1>0, <1>5 DEF DecrementShareLinksCounts, Request
<1>6. ASSUME GetShareLinksStats(r) PROVE More \/ Return(r)
  <2>1. CASE req[r].u \in user /\ count[req[r].u] < Quota
    <3>1. req' = [req EXCEPT ![r] = [@ EXCEPT !.pc = "insert", !.users = {req[r].u}]]
      BY <1>6, <2>1 DEF GetShareLinksStats
    <3> QED BY <1>0, <3>1 DEF Request
  <2>2. CASE ~(req[r].u \in user /\ count[req[r].u] < Quota)
    BY <1>6, <2>2 DEF GetShareLinksStats, Return
  <2> QED BY <2>1, <2>2
<1>7. DeleteByFileIDs(r) => More
  BY <1>0 DEF DeleteByFileIDs, Request
<1>8. HardDelete(r) => More
  BY <1>0 DEF HardDelete, Request, LinksOn
<1>9. ~DeleteLink(r)
  BY DEF DeleteLink, CInv, NoneById, At
<1>10. LockFound(r) => Owes
  <2> DEFINE mine == {l \in req[r].found : IsLink(l)}
  <2> SUFFICES ASSUME LockFound(r), NEW u \in Users
               PROVE  req'[r].due[u] <= Cardinality(req'[r].links \cap LinksBy(u))
    OBVIOUS
  <2>1. req'[r].links = mine /\ req'[r].due[u] = Cardinality(mine \cap LinksBy(u))
    BY <1>0 DEF LockFound, Request
  <2>2. mine \cap LinksBy(u) \subseteq Links
    BY DEF LinksBy
  <2>3. Cardinality(mine \cap LinksBy(u)) \in Nat
    BY <2>2, FiniteLinks
  <2> HIDE DEF mine
  <2> QED BY <2>1, <2>3
<1>11. DeadlockVictim(r) \/ Abort(r) \/ InsertLink(r) \/ UpdateLink(r) \/ CommitDeleteAll(r)
         \/ AddUserStorageUsed(r) \/ DecrementShareLinksCount(r) => Return(r)
  BY DEF DeadlockVictim, Abort, InsertLink, UpdateLink, CommitDeleteAll, AddUserStorageUsed,
         DecrementShareLinksCount
<1>12. ASSUME NEW u \in Users, DeleteUserAndRelatedData(r, u) PROVE UNCHANGED req /\ At(r, "idle")
  BY <1>12 DEF DeleteUserAndRelatedData, May
<1>13. None0 => Owes
  <2>1. \A u \in Users : Cardinality({} \cap LinksBy(u)) \in Nat /\ NoDue[u] = 0
    BY FiniteLinks DEF NoDue
  <2> QED BY <2>1
<1>14. More => Owes
  <2> SUFFICES ASSUME More, NEW u \in Users
               PROVE  req'[r].due[u] <= Cardinality(req'[r].links \cap LinksBy(u))
    OBVIOUS
  <2> DEFINE a == req[r].links \cap LinksBy(u)
             b == req'[r].links \cap LinksBy(u)
  <2>1. a \in SUBSET b /\ b \in SUBSET Links /\ a \in SUBSET Links
    BY <1>0
  <2>2. IsFiniteSet(b) /\ Cardinality(a) \in Nat /\ Cardinality(b) \in Nat
    BY <2>1, FiniteLinks
  <2>3. Cardinality(a) <= Cardinality(b)
    BY <2>1, <2>2, FS_Subset
  <2>4. req[r].due[u] <= Cardinality(a) /\ req[r].due[u] \in Nat
    BY <1>0 DEF CInv, DueIsDeleted, Request
  <2> HIDE DEF a, b
  <2>5. req[r].due[u] <= Cardinality(b)
    BY <2>2, <2>3, <2>4
  <2> QED BY <2>5 DEF b
<1> HIDE DEF Owes, More, None0
<1>15. Return(r) \/ (UNCHANGED req /\ At(r, "idle")) \/ Owes
  BY <1>1, <1>2, <1>3, <1>4, <1>5, <1>6, <1>7, <1>8, <1>9, <1>10, <1>11, <1>12, <1>13, <1>14
  DEF Start, Continue
<1>16. UNCHANGED rows \/ Return(r) \/ (UNCHANGED req /\ At(r, "idle"))
  BY <1>11, <1>12, Kinds
<1> QED BY <1>15, <1>16 DEF Owes

LEMMA InsertCovers ==
    ASSUME IInv, CInv, NEW r \in Reqs, InsertLink(r)
    PROVE  CountCoversLinks'
<1> DEFINE k == req[r].l
<1>1. CASE UNCHANGED <<link, count>>
  BY <1>1 DEF CInv, CountCoversLinks, LinksBy, IsLink
<1>2. CASE ~UNCHANGED <<link, count>>
  <2>1. /\ link' = [link EXCEPT ![k] = [by |-> req[r].u, on |-> req[r].t, expires |-> FALSE, password |-> FALSE]]
        /\ count' = [count EXCEPT ![req[r].u] = @ + 1]
    BY <1>2 DEF InsertLink
  <2>2. k \in Links /\ ~IsLink(k) /\ req[r].u \in Users
    BY DEF InsertLink, IInv, Shape, At
  <2> SUFFICES ASSUME NEW u \in Users PROVE Cardinality(LinksBy(u)') <= count'[u]
    BY DEF CountCoversLinks
  <2>3. \A l \in Links : l # k => link'[l] = link[l]
    BY <2>1 DEF IInv, TypeOK
  <2>4. link'[k].by = req[r].u
    BY <2>1, <2>2 DEF IInv, TypeOK
  <2>5. LinksBy(u)' = IF u = req[r].u THEN LinksBy(u) \cup {k} ELSE LinksBy(u)
    <3>1. link'[k] # NoLink
      <4>1. link'[k].on \in Targets
        BY <2>1, <2>2 DEF IInv, TypeOK, InsertLink, Shape, At
      <4> QED BY <4>1, ConstantsOK DEF NoLink
    <3>2. \A l \in Links : l \in LinksBy(u)' <=> IF l = k THEN u = req[r].u ELSE l \in LinksBy(u)
      BY <2>3, <2>4, <3>1 DEF LinksBy, IsLink
    <3>3. LinksBy(u) \subseteq Links /\ LinksBy(u)' \subseteq Links /\ k \notin LinksBy(u)
      BY <2>2 DEF LinksBy
    <3> QED BY <2>2, <3>2, <3>3
  <2>6. LinksBy(u) \in SUBSET Links /\ k \notin LinksBy(u)
    BY <2>2 DEF LinksBy
  <2>7. IsFiniteSet(LinksBy(u)) /\ Cardinality(LinksBy(u)) \in Nat
    BY <2>6, FiniteLinks
  <2>8. Cardinality(LinksBy(u) \cup {k}) = Cardinality(LinksBy(u)) + 1
    BY <2>6, <2>7, FS_AddElement
  <2>9. Cardinality(LinksBy(u)) <= count[u] /\ count[u] \in Nat
    BY DEF CInv, CountCoversLinks, IInv, TypeOK
  <2>10. count'[u] = IF u = req[r].u THEN count[u] + 1 ELSE count[u]
    BY <2>1 DEF IInv, TypeOK
  <2> QED BY <2>5, <2>7, <2>8, <2>9, <2>10
<1> QED BY <1>1, <1>2

LEMMA UpdateCovers ==
    ASSUME IInv, CInv, NEW r \in Reqs, UpdateLink(r)
    PROVE  CountCoversLinks'
<1>1. \A l \in Links : (IsLink(l)' => IsLink(l))
  BY DEF UpdateLink, IInv, TypeOK, IsLink
<1>2. \A l \in Links : IsLink(l) /\ IsLink(l)' => link'[l].by = link[l].by
  BY SameCreator DEF Continue
<1>3. ASSUME NEW u \in Users PROVE Cardinality(LinksBy(u)') <= Cardinality(LinksBy(u))
  <2>1. LinksBy(u)' \in SUBSET LinksBy(u) /\ LinksBy(u) \in SUBSET Links
    BY <1>1, <1>2 DEF LinksBy
  <2> QED BY <2>1, FiniteLinks, FS_Subset
<1>4. \A u \in Users : /\ Cardinality(LinksBy(u)) \in Nat /\ Cardinality(LinksBy(u)') \in Nat
                        /\ count'[u] = count[u] /\ count[u] \in Nat
  BY FiniteLinks DEF LinksBy, UpdateLink, IInv, TypeOK
<1> QED BY <1>3, <1>4 DEF CInv, CountCoversLinks

LEMMA AccountCovers ==
    ASSUME IInv, CInv, NEW r \in Reqs, NEW u \in Users, DeleteUserAndRelatedData(r, u)
    PROVE  CountCoversLinks'
<1> SUFFICES ASSUME NEW v \in Users PROVE Cardinality(LinksBy(v)') <= count'[v]
  BY DEF CountCoversLinks
<1>1. PICK gone : /\ link' = Without(gone)
                  /\ \A l \in Links : IsLink(l) /\ link[l].by = u => l \in gone
  BY DEF DeleteUserAndRelatedData
<1>2. LinksBy(v)' \in SUBSET LinksBy(v) /\ LinksBy(v) \in SUBSET Links /\ LinksBy(u)' = {}
  BY <1>1 DEF LinksBy, IsLink, Without
<1>3. Cardinality(LinksBy(v)') <= Cardinality(LinksBy(v))
  BY <1>2, FiniteLinks, FS_Subset
<1>4. /\ Cardinality(LinksBy(v)) \in Nat /\ Cardinality(LinksBy(v)') \in Nat
      /\ Cardinality(LinksBy(v)) <= count[v] /\ count[v] \in Nat
  BY <1>2, FiniteLinks DEF CInv, CountCoversLinks, IInv, TypeOK
<1>5. count'[v] = IF v = u THEN 0 ELSE count[v]
  BY DEF DeleteUserAndRelatedData, IInv, TypeOK
<1>6. v = u => Cardinality(LinksBy(v)') = 0
  BY <1>2, FS_EmptySet
<1> QED BY <1>3, <1>4, <1>5, <1>6

LEMMA Covers ==
    ASSUME IInv, IInv', CInv, "delete" \notin Ops, NEW r \in Reqs,
           Start(r) \/ Continue(r) \/ Abort(r)
    PROVE  CInv'
<1>1. NoneById'
  BY NeverById DEF CInv
<1>2. ~DecrementShareLinksCount(r)
  BY DEF CInv, NoneById, DecrementShareLinksCount, At
<1>3. CountCoversLinks'
  <2>1. CASE UNCHANGED rows
    BY <2>1 DEF CInv, CountCoversLinks, LinksBy, IsLink, rows
  <2>2. CommitDeleteAll(r) \/ AddUserStorageUsed(r) => CountCoversLinks'
    BY CommitCovers DEF CommitDeleteAll, AddUserStorageUsed
  <2> QED BY <1>2, <2>1, <2>2, InsertCovers, UpdateCovers, AccountCovers, Kinds
<1>4. CASE /\ UNCHANGED rows
           /\ \A u \in Users : req'[r].due[u] <= Cardinality(req'[r].links \cap LinksBy(u))
  <2>1. \A u \in Users : LinksBy(u)' = LinksBy(u)
    BY <1>4 DEF LinksBy, IsLink, rows
  <2>2. \A u \in Users : req'[r].due[u] <= Cardinality(req'[r].links \cap LinksBy(u)')
    BY <1>4, <2>1
  <2>3. DueIsDeleted'
    BY <2>2, OthersDue DEF CInv
  <2> QED BY <1>1, <1>3, <2>3 DEF CInv
<1>5. CASE Return(r)
  <2>1. req'[r].due = NoDue /\ req'[r].links = {}
    BY <1>5 DEF Return, IInv, TypeOK, Idle
  <2>2. \A u \in Users : Cardinality({} \cap LinksBy(u)') \in Nat /\ NoDue[u] = 0
    BY FiniteLinks DEF NoDue
  <2>3. \A u \in Users : req'[r].due[u] <= Cardinality(req'[r].links \cap LinksBy(u)')
    BY <2>1, <2>2
  <2>4. DueIsDeleted'
    BY <2>3, OthersDue DEF CInv
  <2> QED BY <1>1, <1>3, <2>4 DEF CInv
<1>6. CASE UNCHANGED req /\ At(r, "idle")
  <2>1. req[r].links = {} /\ req' = req
    BY <1>6 DEF IInv, Shape
  <2>2. \A u \in Users : {} \cap LinksBy(u) = {} \cap LinksBy(u)'
    OBVIOUS
  <2>3. \A u \in Users : req[r].due[u] <= Cardinality({} \cap LinksBy(u))
    BY <2>1 DEF CInv, DueIsDeleted
  <2>4. \A u \in Users : req'[r].due[u] <= Cardinality(req'[r].links \cap LinksBy(u)')
    BY <2>1, <2>2, <2>3
  <2>5. DueIsDeleted'
    BY <2>4, OthersDue DEF CInv
  <2> QED BY <1>1, <1>3, <2>5 DEF CInv
<1> QED BY <1>4, <1>5, <1>6, OwnDue

\* Unless a link is deleted by its id, no link is missing from its creator's
\* counter, so that the links are within the limit too (CountCoversLinks).
THEOREM LinksCounted ==
    ASSUME "delete" \notin Ops
    PROVE  Spec => []CountCoversLinks
<1>1. IInv /\ CInv => CountCoversLinks
  BY DEF CInv
<1>2. IInv /\ CInv /\ [Next]_vars => (IInv /\ CInv)'
  <2> SUFFICES ASSUME IInv, CInv, [Next]_vars PROVE (IInv /\ CInv)'
    OBVIOUS
  <2>1. IInv'
    BY Inductive
  <2>2. CASE UNCHANGED vars
    BY <2>1, <2>2 DEF CInv, NoneById, DueIsDeleted, CountCoversLinks, LinksBy, IsLink, vars
  <2>3. CASE Next
    BY <2>1, <2>3, Covers DEF Next
  <2> QED BY <2>1, <2>2, <2>3
<1> QED BY <1>1, <1>2, InitOK, PTL DEF Spec

\* So the counter is between the number of links and the limit.
THEOREM CountIsBetween ==
    ASSUME "delete" \notin Ops
    PROVE  Spec => []CountBetween
<1>1. CountWithinQuota /\ CountCoversLinks => CountBetween
  BY DEF CountBetween
<1> QED BY <1>1, LimitHolds, LinksCounted, PTL
================================================================================
