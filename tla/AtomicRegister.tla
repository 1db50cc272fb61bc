---------------------------- MODULE AtomicRegister -----------------------------
(***************************************************************************)
(* What a file of ~/.ozm promises its users: a register that is stored     *)
(* and read as a whole.  A power loss may bring back an earlier value, but *)
(* only one that has not been ruled out by then, and never a mixture.      *)
(* AtomicStore implements this promise with temporary files.               *)
(***************************************************************************)
CONSTANTS
    Reader,
    Data,    \* the contents that may be stored
    Absent,  \* the content of a file that does not exist
    None     \* a reader that has read nothing

VARIABLES
    value,  \* what a reader gets now
    may,    \* what a reader may get after a power loss
    reads   \* what each reader got

vars == <<value, may, reads>>

Init ==
    /\ value \in Data \cup {Absent}
    /\ may = {value}
    /\ reads = [r \in Reader |-> None]

Store(d) ==
    /\ value' = d
    /\ may' = may \cup {d}
    /\ UNCHANGED reads

(* Some of the values that were still possible no longer are. *)
Settle ==
    /\ \E S \in SUBSET may : value \in S /\ may' = S
    /\ UNCHANGED <<value, reads>>

Read(r) ==
    /\ reads' = [reads EXCEPT ![r] = value]
    /\ UNCHANGED <<value, may>>

PowerLoss ==
    /\ value' \in may
    /\ may' = {value'}
    /\ reads' = [r \in Reader |-> None]

Next ==
    \/ \E d \in Data : Store(d)
    \/ \E r \in Reader : Read(r)
    \/ Settle
    \/ PowerLoss

Spec == Init /\ [][Next]_vars
===============================================================================
