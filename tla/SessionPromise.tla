---------------------------- MODULE SessionPromise ----------------------------
(***************************************************************************)
(* What the server promises about refresh sessions, with no row, no token  *)
(* version and no password in sight.  A session is honoured from the       *)
(* moment it is issued or never; a revocation of a user takes, at once,    *)
(* every honoured session of that user and every credential check that is  *)
(* still in flight for it; and what is no longer honoured never comes      *)
(* back.                                                                   *)
(***************************************************************************)
EXTENDS Integers

CONSTANTS Users, Requests

VARIABLES
    time,       \* the server's clock
    pending,    \* [request, user] of the checks that may still yield a session
    issued,     \* every session handed to a client so far
    honoured    \* the sessions the refresh endpoint would accept now

promiseVars == <<time, pending, issued, honoured>>

Init ==
    /\ time = 0
    /\ pending = {}
    /\ issued = {}
    /\ honoured = {}

\* The credentials of u have been compared with what the database holds now.
Check(r, u) ==
    /\ pending' = pending \cup {[request |-> r, user |-> u]}
    /\ UNCHANGED <<time, issued, honoured>>

\* A check that was not revoked meanwhile becomes an honoured session.
Issue(r) ==
    \E s \in issued' :
        /\ [request |-> r, user |-> s.user] \in pending
        /\ time < s.exp
        /\ pending' = {c \in pending : c.request # r}
        /\ issued' = issued \cup {s}
        /\ honoured' = honoured \cup {s}
        /\ UNCHANGED time

\* A check that was revoked while in flight still answers the client, but
\* with a session that is not honoured.
IssueDead(r) ==
    /\ \A c \in pending : c.request # r
    /\ \E s \in issued' : issued' = issued \cup {s}
    /\ UNCHANGED <<time, pending, honoured>>

\* A check that fails leaves nothing behind.
Abandon(r) ==
    /\ pending' = {c \in pending : c.request # r}
    /\ UNCHANGED <<time, issued, honoured>>

\* Logout, password reset and deactivation of u.
Revoke(u) ==
    /\ pending' = {c \in pending : c.user # u}
    /\ honoured' = {s \in honoured : s.user # u}
    /\ UNCHANGED <<time, issued>>

\* Time passes and takes with it the sessions that are past their expiry.
Pass ==
    /\ time' = time + 1
    /\ honoured' = {s \in honoured : time' < s.exp}
    /\ UNCHANGED <<pending, issued>>

Next ==
    \/ \E r \in Requests, u \in Users : Check(r, u)
    \/ \E r \in Requests : Issue(r) \/ IssueDead(r) \/ Abandon(r)
    \/ \E u \in Users : Revoke(u)
    \/ Pass

Spec == Init /\ [][Next]_promiseVars

===============================================================================
