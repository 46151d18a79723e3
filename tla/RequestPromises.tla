--------------------------- MODULE RequestPromises ---------------------------
(***************************************************************************)
(* What DAppSession.request promises its caller, without the session: the  *)
(* promise of a call settles exactly once, it resolves only if the wallet  *)
(* executed that very call, and no promise is left hanging.                *)
(***************************************************************************)
CONSTANT Requests

VARIABLES
    promise,    \* promise[r]: what the caller of r sees
    executed    \* the calls the wallet has executed

vars == <<promise, executed>>

Outcomes == {"idle", "waiting", "resolved", "rejected"}

Init ==
    /\ promise = [r \in Requests |-> "idle"]
    /\ executed = {}

Waiting == {r \in Requests : promise[r] = "waiting"}

Called == {r \in Requests : promise[r] # "idle"}

\* A call is made and its promise waits.
Submit(r) ==
    /\ promise[r] = "idle"
    /\ promise' = [promise EXCEPT ![r] = "waiting"]
    /\ UNCHANGED executed

\* A call is made and refused at once, together with some that are waiting.
Refuse(r) ==
    /\ promise[r] = "idle"
    /\ \E S \in SUBSET Waiting :
          promise' = [q \in Requests |-> IF q \in S \cup {r} THEN "rejected" ELSE promise[q]]
    /\ UNCHANGED executed

\* The wallet may execute a call whose promise has been rejected meanwhile.
Execute(r) ==
    /\ r \in Called
    /\ executed' = executed \cup {r}
    /\ UNCHANGED promise

Resolve(r) ==
    /\ r \in Waiting \cap executed
    /\ promise' = [promise EXCEPT ![r] = "resolved"]
    /\ UNCHANGED executed

Reject(S) ==
    /\ S # {} /\ S \subseteq Waiting
    /\ promise' = [q \in Requests |-> IF q \in S THEN "rejected" ELSE promise[q]]
    /\ UNCHANGED executed

Settle(r) == Resolve(r) \/ \E S \in SUBSET Requests : r \in S /\ Reject(S)

Next == \E r \in Requests : Submit(r) \/ Refuse(r) \/ Execute(r) \/ Settle(r)

Safety == Init /\ [][Next]_vars

Spec == Safety /\ \A r \in Requests : WF_vars(Settle(r))
=============================================================================
