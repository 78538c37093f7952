---------------------------- MODULE StorageLedger ----------------------------
(***************************************************************************)
(* What internal/files and internal/trash promise about storage_used: an   *)
(* account changes one at a time, and a step that charges it leaves it     *)
(* within the quota.  FileStore implements this with several requests,     *)
(* objects stored ahead of the transaction and a row lock.                 *)
(***************************************************************************)
EXTENDS Integers

CONSTANTS Users, Quota

VARIABLE used

Init == used = [u \in Users |-> 0]

Only(u) ==
    /\ used' \in [Users -> Int]
    /\ \A v \in Users \ {u} : used'[v] = used[v]

Charge(u) == Only(u) /\ used[u] <= used'[u] /\ used'[u] <= Quota[u]
Refund(u) == Only(u) /\ used'[u] <= used[u]

Next == \E u \in Users : Charge(u) \/ Refund(u)

Spec == Init /\ [][Next]_used
==============================================================================
