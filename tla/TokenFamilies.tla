--------------------------- MODULE TokenFamilies ---------------------------
(***************************************************************************)
(* What refresh tokens promise, without transactions or locks: a session   *)
(* is a family of tokens of which at most the newest is live; refreshing   *)
(* trades the live token for its successor in one step; revoking a family  *)
(* kills it for good.  A family is named by its first token.               *)
(***************************************************************************)
CONSTANTS Tokens

VARIABLES
    live,      \* tokens that can be exchanged
    used,      \* tokens that were rotated or revoked
    family,    \* family of each token
    dead       \* families that were revoked

vars == <<live, used, family, dead>>

Fresh(t) == t \notin live \cup used

Init == live = {} /\ used = {} /\ dead = {} /\ family = [t \in Tokens |-> t]

\* A sign-in: a new family with one live token.
Start(t) ==
    /\ Fresh(t)
    /\ live' = live \cup {t}
    /\ family' = [family EXCEPT ![t] = t]
    /\ UNCHANGED <<used, dead>>

\* A refresh: the presented token dies and its successor is born, at once,
\* in a family that is not revoked.
Rotate(t, n) ==
    /\ t \in live
    /\ family[t] \notin dead
    /\ Fresh(n)
    /\ live' = (live \ {t}) \cup {n}
    /\ used' = used \cup {t}
    /\ family' = [family EXCEPT ![n] = family[t]]
    /\ UNCHANGED dead

\* A logout, a detected reuse or an account link: families die together.
Revoke(families) ==
    /\ live' = {t \in live : family[t] \notin families}
    /\ used' = used \cup {t \in live : family[t] \in families}
    /\ dead' = dead \cup families
    /\ UNCHANGED family

Next ==
    \/ \E t \in Tokens : Start(t)
    \/ \E t, n \in Tokens : Rotate(t, n)
    \/ \E families \in SUBSET Tokens : Revoke(families)

Spec == Init /\ [][Next]_vars
=============================================================================
