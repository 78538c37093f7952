----------------------------- MODULE MCFileStore -----------------------------
(* Small instances of FileStore for TLC.                                    *)
EXTENDS FileStore

CONSTANTS u1, u2, u3, root, sub, f1, f2, f3, g1, g2, r1, r2

\* u1 has f1 and f2, u2 has f3, u3 has g1 and g2 and a quota for one of them.
\* f3 is larger than an upload may be: only a conversion produces it.
MCSizes == [f \in Files |-> IF f = f3 THEN 3 ELSE 2]
MCOwner == [f \in Files |-> CASE f \in {f1, f2} -> u1
                              [] f = f3           -> u2
                              [] OTHER            -> u3]
MCQuota == [u \in Users |-> IF u = u3 THEN 3 ELSE 5]
MCAbove == [d \in Dirs |-> {root, d}]

(***************************************************************************)
(* Two regimes in one instance.  Alone: r1 only, on the files of u1 and    *)
(* u2.  Otherwise: r1 and r2 at once with every failure, on the files of   *)
(* u3 in the root.                                                         *)
(***************************************************************************)
MCNext ==
    /\ Next
    /\ IF alone
       THEN req'[r2] = Idle /\ req'[r1].fs \cap {g1, g2} = {}
       ELSE /\ \A r \in Reqs : req'[r].fs \subseteq {g1, g2}
            /\ dir' = [f \in Files |-> root]

\* What fails is never a fair step.
MCSpec == /\ Init /\ [][MCNext]_vars
          /\ \A r \in Reqs : SF_vars(Proceed(r) /\ UNCHANGED alone)
==============================================================================
