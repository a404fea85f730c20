----------------------------- MODULE Revocation -----------------------------
(***************************************************************************)
(* What tokenVersion promises, without JWTs, cookies, rows or requests:    *)
(* every account has a set of credentials the API would accept now, and    *)
(* the step that raises its version leaves that set empty.                 *)
(***************************************************************************)
EXTENDS Naturals

CONSTANT Users

VARIABLES version,  \* version[u]: how often u's credentials were revoked
          live      \* live[u]: the credentials of u accepted now

Init ==
    /\ version = [u \in Users |-> 0]
    /\ live = [u \in Users |-> {}]

(* A sign-in or a rotation hands out one credential at a time.             *)
Grant(u) ==
    /\ \E c \in live'[u] : live' = [live EXCEPT ![u] = @ \cup {c}]
    /\ UNCHANGED version

(* A token is consumed, signed out, expires or goes with its account.      *)
Withdraw ==
    /\ DOMAIN live' = Users
    /\ \A u \in Users : live'[u] \subseteq live[u]
    /\ UNCHANGED version

RevokeAll(u) ==
    /\ version' = [version EXCEPT ![u] = @ + 1]
    /\ live' = [live EXCEPT ![u] = {}]

Next ==
    \/ \E u \in Users : Grant(u)
    \/ Withdraw
    \/ \E u \in Users : RevokeAll(u)

Spec == Init /\ [][Next]_<<version, live>>
=============================================================================
