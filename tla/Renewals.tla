------------------------------ MODULE Renewals ------------------------------
(***************************************************************************)
(* What api/client.ts promises to the callers of apiRequest about expired  *)
(* access tokens: a call is sent at most twice; the calls that wait for a  *)
(* new token are all sent again with one and the same token, in one step,  *)
(* or all end; nothing waits when nobody renews.                           *)
(***************************************************************************)
CONSTANTS Calls, Toks, None

VARIABLES phase, token

vars == <<phase, token>>

TypeOK == /\ phase \in [Calls -> {"idle", "sent", "held", "again"}]
          /\ token \in [Calls -> Toks \cup {None}]

Held == {c \in Calls : phase[c] = "held"}

\* The calls of S end.
End(S) == /\ phase' = [c \in Calls |-> IF c \in S THEN "idle" ELSE phase[c]]
          /\ token' = [c \in Calls |-> IF c \in S THEN None ELSE token[c]]

Init == phase = [c \in Calls |-> "idle"] /\ token = [c \in Calls |-> None]

Send(c, t) == /\ phase[c] = "idle"
              /\ phase' = [phase EXCEPT ![c] = "sent"]
              /\ token' = [token EXCEPT ![c] = t]

Finish(c) == phase[c] \in {"sent", "again"} /\ End({c})

Hold(c) == /\ phase[c] = "sent"
           /\ phase' = [phase EXCEPT ![c] = "held"]
           /\ UNCHANGED token

\* The token t has not been tried by any call that waits.
Renew(t) == /\ Held # {} /\ \A c \in Held : token[c] # t
            /\ phase' = [c \in Calls |-> IF c \in Held THEN "again" ELSE phase[c]]
            /\ token' = [c \in Calls |-> IF c \in Held THEN t ELSE token[c]]

GiveUp == Held # {} /\ End(Held)

\* The page is loaded anew: its calls are gone.
Leave == End(Calls)

Next == \/ \E c \in Calls : Finish(c) \/ Hold(c)
        \/ \E c \in Calls, t \in Toks : Send(c, t)
        \/ \E t \in Toks : Renew(t)
        \/ GiveUp \/ Leave

Spec == Init /\ [][Next]_vars
=============================================================================
