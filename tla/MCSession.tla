----------------------------- MODULE MCSession -----------------------------
(* A small instance of Session for TLC.                                     *)
EXTENDS Session

CONSTANTS c1, c2, t1, t2, t3, t4, t5, u1, u2

MCOwner  == [t \in Toks |-> IF t \in {t4, t5} THEN u2 ELSE u1]
MCScenes == {{"expire"}, {"expire", "refuse"}, {"expire", "tab"}, {"expire", "revoke"},
             {"lose", "reload"}, {"verify"}, {"expire", "account"}}

\* Pairs are issued in order: which one a log-in or a refresh gets makes no
\* difference.
InOrder == (t2 \in issued => t1 \in issued) /\ (t3 \in issued => t2 \in issued)
           /\ (t5 \in issued => t4 \in issued)

\* The bound on Toks leaves a pair for whatever may still ask for one.
Room(u) == Cardinality({t \in Toks \ issued : Owner[t] = u})
Demand ==
    Cardinality({r \in Askers : rotation[r].st = "sent"})
    + Cardinality({c \in Calls : call[c].pc = "sent" /\ call[c].token \in expired})
    + Cardinality({f \in Flows : flow[f].pc \in {"start", "sent", "registering"}})

MCInit == /\ Init
          /\ issued \in {{}, {t1}}
          /\ (Users \ {u1}) \subseteq activated /\ ("verify" \notin scene => u1 \in activated)
          /\ flow["verify"].who \in {None, u1}

MCNext == /\ Next
          /\ InOrder'
          /\ Room(u1)' >= Demand'
          /\ scene # {"expire"} => flow'["login"].who # u2
          /\ (t4 \in issued' \/ flow'["login"].who = u2) =>
                 Room(u2)' >= Demand' /\ issued' \subseteq {t1, t2, t4, t5}

MCSpec ==
    /\ MCInit /\ [][MCNext]_vars
    /\ \A c \in Calls : WF_call(CallStep(c))
    /\ \A r \in Askers : WF_rotation(RotationStep(r))
    /\ WF_rotation(Renewed \/ RenewalFailed)
    /\ WF_flow(LoginStep) /\ WF_flow(LogoutAnswer)
    /\ WF_flow(HydrateStep) /\ WF_flow(VerifyStep)
=============================================================================
