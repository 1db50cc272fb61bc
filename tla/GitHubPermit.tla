----------------------------- MODULE GitHubPermit -----------------------------
(***************************************************************************)
(* What `ozm gh` promises about writing to GitHub: a call changes what was *)
(* agreed to for that call, in that order, each change at most once, and   *)
(* nothing else.  An agreement is a sequence; each of its members says     *)
(* which changes would fulfil it, in most cases one.  GitHubWrites         *)
(* implements this promise.                                                *)
(***************************************************************************)
EXTENDS Naturals, Sequences

CONSTANTS Call, Change

VARIABLES
    agreed,  \* agreed[p]: what may be changed in call p
    made     \* made[p]: what it has changed

vars == <<agreed, made>>

Init ==
    /\ agreed = [p \in Call |-> <<>>]
    /\ made = [p \in Call |-> <<>>]

(* An agreement is made once, before anything is changed. *)
Agree(p) ==
    /\ agreed[p] = <<>> /\ made[p] = <<>>
    /\ agreed'[p] \in Seq(SUBSET Change)
    /\ agreed' = [agreed EXCEPT ![p] = agreed'[p]]
    /\ UNCHANGED made

Make(p) ==
    /\ Len(made[p]) < Len(agreed[p])
    /\ \E x \in agreed[p][Len(made[p]) + 1] : made' = [made EXCEPT ![p] = Append(@, x)]
    /\ UNCHANGED agreed

(* The call has ended, however far it came. *)
Finish(p) ==
    /\ agreed' = [agreed EXCEPT ![p] = <<>>]
    /\ made' = [made EXCEPT ![p] = <<>>]

Next == \E p \in Call : Agree(p) \/ Make(p) \/ Finish(p)

Spec == Init /\ [][Next]_vars
===============================================================================
