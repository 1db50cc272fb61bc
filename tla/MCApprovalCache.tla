---------------------------- MODULE MCApprovalCache ----------------------------
(* Constants for model checking ApprovalCache: one persistent script, one  *)
(* generated key, and two contents (three where the diff base matters).    *)
EXTENDS ApprovalCache, TLC

CONSTANTS f1, g1, c1, c2, c3

MCDigest(c) == <<"sha256", c>>
MCIndex == [f \in File |-> c1]
MCIndexThird == [f \in File |-> c3]
MCRefused == {<<g1, c2>>}

(* The agent runs one ozm process at a time. *)
SerialInit == Init /\ serial = TRUE
SerialSpec == SerialInit /\ [][Next]_vars
===============================================================================
