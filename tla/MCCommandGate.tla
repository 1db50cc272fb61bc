----------------------------- MODULE MCCommandGate -----------------------------
(* Constants for model checking CommandGate with two processes: a command  *)
(* the rule pattern matches, and one it does not match.  The rule files    *)
(* start empty, and `ozm trust` empties the project's.  Behaviours are     *)
(* followed as long as the two files together hold at most two rules.      *)
EXTENDS CommandGate, Integers, FiniteSets, TLC

CONSTANTS c1, c2, q1

MCMatches(q, c) == q = q1 /\ c = c1
MCExact(c) == q1
MCRuleFiles == {[l \in List |-> {}]}

AtMostTwoRules == Cardinality(RulesIn(rules)) <= 2

Symmetry == Permutations(Proc)
===============================================================================
