----------------------------- MODULE MCShareLinks ------------------------------
(* Small instances of ShareLinks for TLC.                                   *)
EXTENDS ShareLinks

CONSTANTS u1, u2, t1, t2, l1, l2, l3, r1, r2

\* u1 owns the first target, and u2 the second if there is one.
MCOwner == [t \in Targets |-> IF t = t1 THEN u1 ELSE u2]

(***************************************************************************)
(* Two regimes in one instance.  Alone: r1 only, three links, accounts     *)
(* stay.  Otherwise: r1 and r2 at once, two links, no updates and no       *)
(* deletion of a single link.                                              *)
(***************************************************************************)
VARIABLE alone

MCInit == Init /\ alone \in BOOLEAN

MCNext ==
    /\ Next
    /\ IF alone
       THEN req'[r2] = Idle /\ user' = Users
       ELSE \A r \in Reqs : /\ ~ \E l \in Links : Update(r, l) \/ Delete(r, l)
                          /\ ~ \E u \in Users, t \in Targets : Create(r, u, t, l3)
    /\ UNCHANGED alone

MCSpec == /\ MCInit /\ [][MCNext]_<<vars, alone>>
          /\ \A r \in Reqs : SF_<<vars, alone>>(Continue(r) /\ UNCHANGED alone)
=============================================================================
