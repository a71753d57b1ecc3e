------------------------------ MODULE CallPromise ------------------------------
(***************************************************************************)
(* What both apps promise to whoever calls the API through apiFetch or     *)
(* authFetch, with no token, refresh or cookie in sight: a call that was   *)
(* started settles; it is told that the server has done it only if the     *)
(* server has; and the server does it once at most, however often the      *)
(* request is sent.  A call may have been done and still be told that it   *)
(* failed, because the answer can be lost.                                 *)
(***************************************************************************)
EXTENDS Naturals

CONSTANT Calls

VARIABLES
    outcome,    \* what the caller knows of each call
    performed   \* how often the server has done it

promised == <<outcome, performed>>

Init ==
    /\ outcome = [k \in Calls |-> "idle"]
    /\ performed = [k \in Calls |-> 0]

Becomes(k, from, to) ==
    /\ outcome[k] = from
    /\ outcome' = [outcome EXCEPT ![k] = to]

Start(k) == Becomes(k, "idle", "pending") /\ UNCHANGED performed

Perform(k) ==
    /\ outcome[k] = "pending"
    /\ performed[k] = 0
    /\ performed' = [performed EXCEPT ![k] = 1]
    /\ UNCHANGED outcome

Succeed(k) ==
    /\ performed[k] = 1
    /\ Becomes(k, "pending", "done")
    /\ UNCHANGED performed

\* A refused refresh, or the page being unloaded, fails several calls at once.
Fail(ks) ==
    /\ ks # {}
    /\ \A k \in ks : outcome[k] = "pending"
    /\ outcome' = [k \in Calls |-> IF k \in ks THEN "failed" ELSE outcome[k]]
    /\ UNCHANGED performed

Next ==
    \/ \E k \in Calls : Start(k) \/ Perform(k) \/ Succeed(k)
    \/ \E ks \in SUBSET Calls : Fail(ks)

Settles(k) == outcome[k] = "pending" ~> outcome[k] \in {"done", "failed"}

Spec == Init /\ [][Next]_promised /\ \A k \in Calls : Settles(k)

===============================================================================
