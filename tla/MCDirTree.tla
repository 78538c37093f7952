------------------------------ MODULE MCDirTree ------------------------------
(* Small instances of DirTree for TLC.                                      *)
EXTENDS DirTree

CONSTANTS root, home, a, b, f1, f2, r1, r2

(***************************************************************************)
(* The two regimes of DirTree in one instance.  Alone: r1 only, with a     *)
(* file and links to it and to a.  Otherwise: r1 and r2 at once, on        *)
(* directories, with failures.                                             *)
(***************************************************************************)
MCNext ==
    /\ Next
    /\ IF alone THEN /\ \A r \in Reqs \ {r1} : req'[r] = Idle
                     /\ link'[root] = "none" /\ link'[home] = "none"
                ELSE UNCHANGED <<files, link>>

MCSpec == Init /\ [][MCNext]_vars
=============================================================================
