--------------------------- MODULE MCAuthSessions ---------------------------
(* Small instances of AuthSessions for TLC.                                 *)
EXTENDS AuthSessions

CONSTANTS r1, r2, t1, t2, t3, m1, m2, m3, m4

(***************************************************************************)
(* Two regimes in one instance.  Alone: r1 only.  Otherwise: r1 and r2 at  *)
(* once, with one token and two e-mails less.  Identifiers are taken in    *)
(* order: which one a row gets makes no difference.                        *)
(***************************************************************************)
InOrder == /\ tok[t1] # NoTok \/ tok[t2] = NoTok
           /\ tok[t2] # NoTok \/ tok[t3] = NoTok
           /\ mail[m1] # NoMail \/ mail[m2] = NoMail
           /\ mail[m2] # NoMail \/ mail[m3] = NoMail
           /\ mail[m3] # NoMail \/ mail[m4] = NoMail

MCNext ==
    /\ Next
    /\ account' = "open" => InOrder'
    /\ IF alone
       THEN req'[r2] = Idle
       ELSE /\ account' = "open" => Cardinality(FreeMails') >=
                    2 + Cardinality({r \in Reqs : req'[r].pc \in {"invalidate", "issue"}})
            /\ TokRoom'

MCSpec == /\ Init /\ [][MCNext]_vars
          /\ \A r \in Reqs : SF_vars(Continue(r) /\ UNCHANGED alone)
=============================================================================
