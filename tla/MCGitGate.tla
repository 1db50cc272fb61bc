------------------------------- MODULE MCGitGate -------------------------------
(* Constants for model checking GitGate: a protected branch, one with the  *)
(* required prefix and one without; two repositories; a command of every   *)
(* kind, and of each kind of message, force and target.                    *)
EXTENDS GitGate

CONSTANTS main, feat, wip, r1, r2

MCPolicies ==
    {[attribution |-> TRUE, require |-> FALSE, prefixes |-> {}],
     [attribution |-> FALSE, require |-> TRUE, prefixes |-> {feat}]}

Commit(m) == [kind |-> "commit", repo |-> r1, message |-> m]
Push(f, t) == [kind |-> "push", repo |-> r1, force |-> f, targets |-> t]

MCCommand ==
    {Commit("fine"), Commit("attributed"), Commit("malformed"),
     Push("no", {}), Push("no", {main}), Push("pinned", {}), Push("pinned", {main}),
     Push("broad", {feat})}
    \cup [kind : {"pass"}, repo : Repo]
    \cup [kind : {"alias", "rewrite"}, repo : {r1}]
===============================================================================
