------------------------------- MODULE MCSharing -------------------------------
(* A small instance of Sharing for TLC.                                     *)
EXTENDS Sharing, TLC

CONSTANTS o, u1, u2, i1, i2, r1, r2

\* Nothing else tells the two users apart, nor the two invitations.
MCSymmetry == Permutations({u1, u2}) \cup Permutations(Invs)
================================================================================
