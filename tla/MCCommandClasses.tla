---------------------------- MODULE MCCommandClasses ----------------------------
(* Constants for model checking CommandGate with one process and a command *)
(* of every class.  One pattern may not be allowed; the repository may     *)
(* bring a rule of its own.                                                *)
EXTENDS CommandGate

CONSTANTS c1, g1, r1, t1, q1, q2

MCMatches(q, c) == q = q1 /\ c \in {c1, g1}
MCExact(c) == IF c = t1 THEN q2 ELSE q1
MCRuleFiles ==
    {[l \in List |-> {}], [l \in List |-> IF l = "allowed" THEN {q1} ELSE {}]}
===============================================================================
