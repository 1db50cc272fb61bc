-------------------------------- MODULE AskUser --------------------------------
(***************************************************************************)
(* What request_approval and its siblings promise their callers, with no   *)
(* app, no socket and no queue: a call returns at most once, and it        *)
(* returns "allow" or "deny" only if the user gave that answer to that     *)
(* very request.  ApprovalQueue implements this promise.                   *)
(***************************************************************************)
CONSTANTS
    Request,
    None      \* the call has not returned

Answer == {"allow", "deny"}

VARIABLES
    said,     \* said[r]: the answers the user has given to r
    decision  \* decision[r]: what the call returned

vars == <<said, decision>>

Init ==
    /\ said = [r \in Request |-> {}]
    /\ decision = [r \in Request |-> None]

Say(r, a) ==
    /\ said' = [said EXCEPT ![r] = @ \cup {a}]
    /\ UNCHANGED decision

Decide(r) ==
    /\ decision[r] = None
    /\ \E d \in said[r] \cup {"nodialog"} : decision' = [decision EXCEPT ![r] = d]
    /\ UNCHANGED said

(* The answer to the fallback dialog is the return value of the call. *)
SayAndDecide(r, a) ==
    /\ decision[r] = None
    /\ said' = [said EXCEPT ![r] = @ \cup {a}]
    /\ decision' = [decision EXCEPT ![r] = a]

Next ==
    \E r \in Request :
        \/ Decide(r)
        \/ \E a \in Answer : Say(r, a) \/ SayAndDecide(r, a)

Spec == Init /\ [][Next]_vars
===============================================================================
