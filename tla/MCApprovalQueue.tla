---------------------------- MODULE MCApprovalQueue ----------------------------
(* Constants for model checking ApprovalQueue: a request on screen and two *)
(* behind it.                                                              *)
EXTENDS ApprovalQueue, TLC

Symmetry == Permutations(Request)
===============================================================================
