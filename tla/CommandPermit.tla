----------------------------- MODULE CommandPermit -----------------------------
(***************************************************************************)
(* What `ozm cmd` and `ozm gh` promise, with no rule files, no cache and   *)
(* no dialog protocol: a command runs only if it is safe by itself, if the *)
(* user has agreed to that very command or to a pattern it matches, or if  *)
(* the user has overruled the gate for this one call.  Overruling is used  *)
(* up by the call and leaves nothing behind.  CommandGate implements this  *)
(* promise.                                                                *)
(***************************************************************************)
CONSTANTS
    Proc,
    Command,
    Pattern,
    Matches(_,_),
    Safe,     \* commands that need no agreement
    None

VARIABLES
    consent,  \* commands the user has agreed to
    granted,  \* patterns the user has agreed to
    once,     \* once[p]: what the user has overruled the gate for, in call p
    running   \* running[p]: what call p executes

vars == <<consent, granted, once, running>>

Init ==
    /\ consent = {}
    /\ granted \in SUBSET Pattern
    /\ once = [p \in Proc |-> None]
    /\ running = [p \in Proc |-> None]

Agree(C, Q) ==
    /\ consent' = consent \cup C
    /\ granted' = granted \cup Q
    /\ UNCHANGED <<once, running>>

Overrule(p, c) ==
    /\ running[p] = None
    /\ once' = [once EXCEPT ![p] = c]
    /\ UNCHANGED <<consent, granted, running>>

Agreed(c) == c \in Safe \cup consent \/ \E q \in granted : Matches(q, c)

Launch(p, c) ==
    /\ running[p] = None
    /\ Agreed(c) \/ once[p] = c
    /\ running' = [running EXCEPT ![p] = c]
    /\ once' = [once EXCEPT ![p] = None]
    /\ UNCHANGED <<consent, granted>>

(* The call ends, whatever it had come to. *)
Finish(p) ==
    /\ running' = [running EXCEPT ![p] = None]
    /\ once' = [once EXCEPT ![p] = None]
    /\ UNCHANGED <<consent, granted>>

Next ==
    \/ \E C \in SUBSET Command, Q \in SUBSET Pattern : Agree(C, Q)
    \/ \E p \in Proc :
         \/ Finish(p)
         \/ \E c \in Command : Overrule(p, c) \/ Launch(p, c)

Spec == Init /\ [][Next]_vars
===============================================================================
