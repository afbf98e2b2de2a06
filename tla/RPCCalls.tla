------------------------------ MODULE RPCCalls ------------------------------
(***************************************************************************)
(* What a channel between an RPC client and an RPC server promises of its  *)
(* calls: a service runs at most once for a call and only after the call   *)
(* was made, a call settles at most once, and it is answered only if its   *)
(* service ran.  It may run after its caller has given up.                 *)
(***************************************************************************)
CONSTANT Calls

VARIABLES
    state,   \* [Calls -> {"idle", "pending", "answered", "failed"}]
    ran      \* the calls whose service was started

callVars == <<state, ran>>

Pending == {c \in Calls : state[c] = "pending"}

Init ==
    /\ state = [c \in Calls |-> "idle"]
    /\ ran = {}

Make(c) ==
    /\ state[c] = "idle"
    /\ state' = [state EXCEPT ![c] = "pending"]
    /\ UNCHANGED ran

Run(c) ==
    /\ state[c] # "idle"
    /\ c \notin ran
    /\ ran' = ran \union {c}
    /\ UNCHANGED state

\* One message may answer some calls and fail others; losing the connection
\* fails all of them.
Settle(answered, failed) ==
    /\ answered \subseteq Pending \intersect ran
    /\ failed \subseteq Pending \ answered
    /\ state' = [c \in Calls |-> IF c \in answered THEN "answered"
                                 ELSE IF c \in failed THEN "failed" ELSE state[c]]
    /\ UNCHANGED ran

Next ==
    \/ \E c \in Calls : Make(c) \/ Run(c)
    \/ \E answered, failed \in SUBSET Calls : Settle(answered, failed)

Spec == Init /\ [][Next]_callVars
=============================================================================
