------------------------------ MODULE ReviewGate ------------------------------
(***************************************************************************)
(* What `ozm run` promises, with no cache, no dialog protocol and no       *)
(* files: content is launched under a name only after the user has         *)
(* consented to exactly that content under exactly that name.  Consent is  *)
(* never guessed and never transferred from one name to another.           *)
(* ApprovalCache is the design that implements this promise.               *)
(***************************************************************************)
CONSTANTS
    Proc,     \* slots in which an invocation of ozm runs
    Key,      \* project-scoped approval keys
    Content,  \* script contents
    None      \* "nothing is running"; not a <<key, content>> pair

VARIABLES
    consent,  \* the <<key, content>> pairs the user has allowed so far
    running   \* what each slot executes

vars == <<consent, running>>

TypeOK ==
    /\ consent \subseteq Key \X Content
    /\ running \in [Proc -> (Key \X Content) \cup {None}]

Init ==
    /\ consent = {}
    /\ running = [p \in Proc |-> None]

(* The user allows content c under the name k. *)
Consent(k, c) ==
    /\ consent' = consent \cup {<<k, c>>}
    /\ UNCHANGED running

(* A slot starts to execute something the user has consented to. *)
Launch(p) ==
    /\ running[p] = None
    /\ \E kc \in consent : running' = [running EXCEPT ![p] = kc]
    /\ UNCHANGED consent

(* The execution ends, or the invocation that started it dies. *)
Finish(p) ==
    /\ running[p] # None
    /\ running' = [running EXCEPT ![p] = None]
    /\ UNCHANGED consent

Next ==
    \/ \E k \in Key, c \in Content : Consent(k, c)
    \/ \E p \in Proc : Launch(p) \/ Finish(p)

Spec == Init /\ [][Next]_vars
===============================================================================
