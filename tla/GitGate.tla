-------------------------------- MODULE GitGate --------------------------------
(***************************************************************************)
(* `ozm git` (src/ozm/git.py).  Commits and pushes are checked against the *)
(* project's commit policy and the branch HEAD names, and passed on to git *)
(* afterwards; most violations may be overruled by the user, once.  The    *)
(* policy is loaded several times on the way, and git looks at HEAD again  *)
(* by itself, so both may change in between: by `ozm trust`, and by any    *)
(* other command that reaches git.                                         *)
(*                                                                         *)
(* History variable (not in the code): steady.                             *)
(*                                                                         *)
(* An operator named Action_Fault is Action with a plausible defect.  No   *)
(* specification uses it; it shows which property would catch the defect.  *)
(***************************************************************************)
CONSTANTS
    Proc,       \* slots in which an `ozm git` process may run
    Repo,       \* the repositories its global options may name
    Branch,     \* what HEAD may name, a detached HEAD included
    Protected,  \* main and master
    Policies,   \* what the commit section of the project's file may say
    Command,    \* the commands the agent may give
    None

Policy == [attribution : BOOLEAN, require : BOOLEAN, prefixes : SUBSET Branch]

(* "alias": dangerous global options.  "rewrite": dangerous subcommands    *)
(* and configuration keys.  "pass": everything else.                       *)
AnyCommand ==
    [kind : {"commit"}, repo : Repo, message : {"fine", "attributed", "malformed"}]
    \cup [kind : {"push"}, repo : Repo, force : {"no", "pinned", "broad"}, targets : SUBSET Branch]
    \cup [kind : {"alias", "rewrite", "pass"}, repo : Repo]

ASSUME CommandsAreTyped == Command \subseteq AnyCommand
ASSUME PoliciesAreTyped == Policies \subseteq Policy
ASSUME ProtectedIsTyped == Protected \subseteq Branch
ASSUME NoneIsFresh == None \notin Branch \cup Policy \cup AnyCommand

VARIABLES
    head,    \* head[r]: the branch checked out in r
    policy,  \* the commit section of the project's configuration
    pc,      \* where each process is
    cmd,     \* the command it was given
    conf,    \* the policy it has loaded
    seen,    \* the branch it has read
    shown,   \* the rules it found broken: what an override dialog tells the user
    steady   \* neither the policy nor its HEAD has changed since it began

world == <<head, policy>>
process == <<pc, cmd, conf, seen, shown>>
vars == <<world, process, steady>>

Rule == {"message", "branch", "force", "protected", "rewrite"}
PC == {"idle", "refuse", "message", "recheck", "policy", "branch", "ask", "launch", "ran"}

TypeOK ==
    /\ head \in [Repo -> Branch]
    /\ policy \in Policies
    /\ pc \in [Proc -> PC]
    /\ cmd \in [Proc -> Command \cup {None}]
    /\ conf \in [Proc -> Policies \cup {None}]
    /\ seen \in [Proc -> Branch \cup {None}]
    /\ shown \in [Proc -> SUBSET Rule]
    /\ steady \in [Proc -> BOOLEAN]

Init ==
    /\ head \in [Repo -> Branch]
    /\ policy \in Policies
    /\ pc = [p \in Proc |-> "idle"]
    /\ cmd = [p \in Proc |-> None]
    /\ conf = [p \in Proc |-> None]
    /\ seen = [p \in Proc |-> None]
    /\ shown = [p \in Proc |-> {}]
    /\ steady = [p \in Proc |-> FALSE]

-------------------------------------------------------------------------------
(* The rules. *)

BadMessage(c, pol) ==
    \/ c.message = "malformed"
    \/ c.message = "attributed" /\ ~pol.attribution

(* Protected branches are exempt from the prefixes. *)
BadBranch(b, pol) ==
    \/ pol.require /\ b \in Protected
    \/ pol.prefixes # {} /\ b \notin pol.prefixes \cup Protected \cup {None}

BranchRules(c, b, pol) ==
    {r \in {"branch", "protected"} :
        \/ r = "branch" /\ c.kind = "commit" /\ BadBranch(b, pol)
        \/ r = "protected" /\ c.kind = "push" /\ b \in Protected}

TargetRules(c) ==
    {r \in {"protected"} : c.kind = "push" /\ c.targets \cap Protected # {}}

ForceRules_LeaseSuffices(c) ==
    {r \in {"force"} : c.kind = "push" /\ c.force = "broad"}

ForceRules(c) == {r \in {"force"} : c.kind = "push" /\ c.force # "no"}

-------------------------------------------------------------------------------
(* Steps every process shares. *)

Goto(p, place) == pc' = [pc EXCEPT ![p] = place]

Exit(p) ==
    /\ Goto(p, "idle")
    /\ cmd' = [cmd EXCEPT ![p] = None]
    /\ conf' = [conf EXCEPT ![p] = None]
    /\ seen' = [seen EXCEPT ![p] = None]
    /\ shown' = [shown EXCEPT ![p] = {}]
    /\ steady' = [steady EXCEPT ![p] = FALSE]

(* A broken rule is put to the user; a command that breaks none runs. *)
Decide(p, broken) ==
    /\ shown' = [shown EXCEPT ![p] = broken]
    /\ Goto(p, IF broken = {} THEN "launch" ELSE "ask")

-------------------------------------------------------------------------------
(* ozm git. *)

FirstPlace(c) ==
    CASE c.kind = "alias" -> "refuse"
      [] c.kind = "commit" -> "message"
      [] c.kind = "push" -> IF c.force = "broad" THEN "refuse" ELSE "branch"
      [] c.kind = "rewrite" -> "ask"
      [] c.kind = "pass" -> "launch"

Start(p, c) ==
    /\ pc[p] = "idle"
    /\ Goto(p, FirstPlace(c))
    /\ cmd' = [cmd EXCEPT ![p] = c]
    /\ shown' = [shown EXCEPT ![p] = IF c.kind = "rewrite" THEN {"rewrite"} ELSE {}]
    /\ steady' = [steady EXCEPT ![p] = TRUE]
    /\ UNCHANGED <<world, conf, seen>>

(* Dangerous global options and unpinned force are not put to the user. *)
Refuse(p) ==
    /\ pc[p] = "refuse"
    /\ Exit(p)
    /\ UNCHANGED world

CheckMessage_Overridable(p) ==
    /\ pc[p] = "message"
    /\ IF BadMessage(cmd[p], policy)
       THEN Decide(p, {"message"})
       ELSE Goto(p, "recheck") /\ UNCHANGED shown
    /\ UNCHANGED <<world, cmd, conf, seen, steady>>

(* Nor is a bad commit message. *)
CheckMessage(p) ==
    /\ pc[p] = "message"
    /\ IF BadMessage(cmd[p], policy)
       THEN Exit(p)
       ELSE Goto(p, "recheck") /\ UNCHANGED <<cmd, conf, seen, shown, steady>>
    /\ UNCHANGED world

(* _check_commit looks at the message once more, with the policy of now. *)
CheckMessageAgain(p) ==
    /\ pc[p] = "recheck"
    /\ IF BadMessage(cmd[p], policy)
       THEN Decide(p, {"message"})
       ELSE Goto(p, "policy") /\ UNCHANGED shown
    /\ UNCHANGED <<world, cmd, conf, seen, steady>>

(* require_branch is not among what is loaded. *)
ReadPolicy_NotRequired(p) ==
    /\ pc[p] = "policy"
    /\ conf' = [conf EXCEPT ![p] = [policy EXCEPT !.require = FALSE]]
    /\ Goto(p, "branch")
    /\ UNCHANGED <<world, cmd, seen, shown, steady>>

ReadPolicy(p) ==
    /\ pc[p] = "policy"
    /\ conf' = [conf EXCEPT ![p] = policy]
    /\ Goto(p, "branch")
    /\ UNCHANGED <<world, cmd, seen, shown, steady>>

(* With branch b, or None where git cannot tell: before the first commit,  *)
(* or when rev-parse fails.                                                *)
CheckBranch(p, b) ==
    /\ pc[p] = "branch"
    /\ seen' = [seen EXCEPT ![p] = b]
    /\ Decide(p, BranchRules(cmd[p], b, conf[p]) \cup TargetRules(cmd[p]) \cup ForceRules(cmd[p]))
    /\ UNCHANGED <<world, cmd, conf, steady>>

ReadBranch_OfAnyRepo(p) == \E r \in Repo : CheckBranch(p, head[r])

ReadBranch(p) == CheckBranch(p, head[cmd[p].repo])

ReadBranchFails(p) == CheckBranch(p, None)

Overrule(p) ==
    /\ pc[p] = "ask"
    /\ Goto(p, "launch")
    /\ UNCHANGED <<world, cmd, conf, seen, shown, steady>>

(* No --reason, a denial, or no dialog. *)
NotOverruled(p) ==
    /\ pc[p] = "ask"
    /\ Exit(p)
    /\ UNCHANGED world

(* git runs.  What passes through unchecked may check out another branch.  *)
RunGit(p) ==
    /\ pc[p] = "launch"
    /\ Goto(p, "ran")
    /\ \/ UNCHANGED <<head, steady>>
       \/ /\ cmd[p].kind = "pass"
          /\ \E b \in Branch : head' = [head EXCEPT ![cmd[p].repo] = b]
          /\ steady' = [q \in Proc |-> steady[q] /\ cmd[q].repo # cmd[p].repo]
    /\ UNCHANGED <<policy, cmd, conf, seen, shown>>

(* The process ends, or is killed, or cannot load the configuration. *)
Finish(p) ==
    /\ pc[p] # "idle"
    /\ Exit(p)
    /\ UNCHANGED world

(* `ozm trust` *)
Trust ==
    /\ policy' \in Policies \ {policy}
    /\ steady' = [p \in Proc |-> FALSE]
    /\ UNCHANGED <<head, process>>

Next ==
    \/ \E p \in Proc :
         \/ \E c \in Command : Start(p, c)
         \/ Refuse(p)
         \/ CheckMessage(p) \/ CheckMessageAgain(p)
         \/ ReadPolicy(p) \/ ReadBranch(p) \/ ReadBranchFails(p)
         \/ Overrule(p) \/ NotOverruled(p)
         \/ RunGit(p) \/ Finish(p)
    \/ Trust

Spec == Init /\ [][Next]_vars

-------------------------------------------------------------------------------
(* Properties. *)

(* Whatever the policy and the branches do meanwhile, a forced push, a push *)
(* that names a protected branch and a command that rewrites history or    *)
(* redirects git reach git only after the user was told just that and      *)
(* overruled it; an unpinned force and an alias never do (git.py:441-476). *)
DangerOverruled ==
    \A p \in Proc : pc[p] = "ran" =>
        /\ cmd[p].kind # "alias"
        /\ cmd[p].kind = "rewrite" => "rewrite" \in shown[p]
        /\ cmd[p].kind = "push" =>
              /\ cmd[p].force # "broad"
              /\ cmd[p].force = "pinned" => "force" \in shown[p]
              /\ cmd[p].targets \cap Protected # {} => "protected" \in shown[p]

(* As long as neither the policy nor the branch changes while a call is    *)
(* under way, and git can name the branch, no commit or push is made on a  *)
(* branch against the rules that the user was not told of and overruled,   *)
(* in whichever repository the global options name (git.py:192-211,        *)
(* 255-257, 458-476).                                                      *)
BranchRulesKept ==
    \A p \in Proc : pc[p] = "ran" /\ steady[p] /\ seen[p] # None =>
        LET b == head[cmd[p].repo]
        IN  /\ cmd[p].kind = "commit" /\ policy.require /\ b \in Protected
                  => "branch" \in shown[p]
            /\ cmd[p].kind = "commit" /\ policy.prefixes # {} /\ b \notin Protected
                  => b \in policy.prefixes \/ "branch" \in shown[p]
            /\ cmd[p].kind = "push" /\ b \in Protected => "protected" \in shown[p]

(* No commit is made with a malformed message, and none with an            *)
(* attribution that the policy forbade all along: not even by override     *)
(* (git.py:171-189, 345-352, 446-452).                                     *)
MessagesKept ==
    \A p \in Proc : pc[p] = "ran" /\ cmd[p].kind = "commit" =>
        /\ cmd[p].message # "malformed"
        /\ cmd[p].message = "attributed" /\ steady[p] => policy.attribution

===============================================================================
