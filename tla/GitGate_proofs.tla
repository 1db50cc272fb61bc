----------------------------- MODULE GitGate_proofs -----------------------------
(***************************************************************************)
(* Proofs about GitGate, for any number of processes, any repositories,    *)
(* branches, policies and commands.                                        *)
(*                                                                         *)
(* The properties speak of the moment git runs, many steps after the rules *)
(* were looked at.  The inductive invariant says what has been found out   *)
(* at each place on the way there, and that a steady process still has the *)
(* policy and the branch it found.                                         *)
(***************************************************************************)
EXTENDS GitGate, TLAPS

Decided(p) == pc[p] \in {"ask", "launch", "ran"}

(* What comes to each place. *)
PlacesTyped(p) ==
    /\ pc[p] # "idle" => cmd[p] \in Command
    /\ pc[p] \in {"message", "recheck", "policy"} => cmd[p].kind = "commit"
    /\ pc[p] = "branch" =>
          \/ cmd[p].kind = "commit" /\ conf[p] \in Policies
          \/ cmd[p].kind = "push" /\ cmd[p].force # "broad"
    /\ ~Decided(p) => seen[p] = None

MessageRead(p) ==
    pc[p] \notin {"idle", "refuse", "message"} /\ cmd[p].kind = "commit" =>
        /\ cmd[p].message # "malformed"
        /\ cmd[p].message = "attributed" /\ steady[p] => policy.attribution

PolicyRead(p) ==
    pc[p] = "branch" /\ cmd[p].kind = "commit" /\ steady[p] => conf[p] = policy

DangerShown(p) ==
    Decided(p) =>
        /\ cmd[p].kind # "alias"
        /\ cmd[p].kind = "rewrite" => "rewrite" \in shown[p]
        /\ cmd[p].kind = "push" =>
              /\ cmd[p].force # "broad"
              /\ cmd[p].force = "pinned" => "force" \in shown[p]
              /\ cmd[p].targets \cap Protected # {} => "protected" \in shown[p]

BranchShown(p) ==
    Decided(p) /\ steady[p] /\ seen[p] # None =>
        /\ seen[p] = head[cmd[p].repo]
        /\ BranchRules(cmd[p], seen[p], policy) \subseteq shown[p]

ProcInv(p) ==
    /\ PlacesTyped(p)
    /\ MessageRead(p)
    /\ PolicyRead(p)
    /\ DangerShown(p)
    /\ BranchShown(p)

IInv == TypeOK /\ \A p \in Proc : ProcInv(p)

-------------------------------------------------------------------------------
(* A step of one process. *)

(* p does nothing to q but, where git moves the HEAD that q looks at, make *)
(* it unsteady.                                                            *)
LeavesAlone(q) ==
    /\ policy' = policy
    /\ pc'[q] = pc[q] /\ cmd'[q] = cmd[q] /\ conf'[q] = conf[q]
    /\ seen'[q] = seen[q] /\ shown'[q] = shown[q]
    /\ steady'[q] => steady[q] /\ (pc[q] # "idle" => head'[cmd[q].repo] = head[cmd[q].repo])

(* What a process has found out survives the steps of the others. *)
LEMMA Bystander ==
    ASSUME NEW q \in Proc, ProcInv(q), LeavesAlone(q)
    PROVE  ProcInv(q)'
<1>1. PlacesTyped(q)' BY DEF ProcInv, LeavesAlone, PlacesTyped, Decided
<1>2. MessageRead(q)' BY DEF ProcInv, LeavesAlone, MessageRead
<1>3. PolicyRead(q)' BY DEF ProcInv, LeavesAlone, PolicyRead
<1>4. DangerShown(q)' BY DEF ProcInv, LeavesAlone, DangerShown, Decided
<1>5. BranchShown(q)'
      BY DEF ProcInv, LeavesAlone, BranchShown, BranchRules, BadBranch, Decided
<1>6. QED BY <1>1, <1>2, <1>3, <1>4, <1>5 DEF ProcInv

(* Every command names a repository and is of one kind. *)
LEMMA CommandFields ==
    ASSUME NEW c \in Command
    PROVE  /\ c # None
           /\ c.repo \in Repo
           /\ c.kind \in {"commit", "push", "alias", "rewrite", "pass"}
           /\ c.kind = "commit" => c.message \in {"fine", "attributed", "malformed"}
           /\ c.kind = "push" => c.force \in {"no", "pinned", "broad"}
<1>1. c \in AnyCommand BY CommandsAreTyped
<1>2. QED BY <1>1, NoneIsFresh DEF AnyCommand

(* The rules are rules. *)
LEMMA RulesTyped ==
    ASSUME NEW c, NEW b, NEW pol
    PROVE  BranchRules(c, b, pol) \cup TargetRules(c) \cup ForceRules(c) \in SUBSET Rule
BY DEF BranchRules, TargetRules, ForceRules, Rule

(* What a step of p has to establish. *)
Keeps(p) ==
    /\ TypeOK'
    /\ ProcInv(p)'
    /\ \A q \in Proc \ {p} : LeavesAlone(q)

LEMMA ExitKeeps ==
    ASSUME NEW p \in Proc, IInv, Exit(p), UNCHANGED world
    PROVE  Keeps(p)
<1>1. TypeOK' BY DEF IInv, TypeOK, Exit, Goto, PC, world
<1>2. ProcInv(p)'
      BY DEF IInv, TypeOK, Exit, Goto, ProcInv, PlacesTyped, MessageRead, PolicyRead,
             DangerShown, BranchShown, Decided
<1>3. ASSUME NEW q \in Proc \ {p} PROVE LeavesAlone(q)
      BY DEF IInv, TypeOK, Exit, Goto, world, LeavesAlone
<1>4. QED BY <1>1, <1>2, <1>3 DEF Keeps

LEMMA StartKeeps ==
    ASSUME NEW p \in Proc, NEW c \in Command, IInv, Start(p, c)
    PROVE  Keeps(p)
<1> USE CommandFields
<1>0. FirstPlace(c) \in PC /\ FirstPlace(c) # "idle" BY DEF FirstPlace, PC
<1>1. TypeOK' BY <1>0 DEF IInv, TypeOK, Start, Goto, Rule, world
<1>2. ProcInv(p)'
  <2>1. /\ pc'[p] = FirstPlace(c) /\ cmd'[p] = c /\ seen'[p] = seen[p]
        /\ shown'[p] = IF c.kind = "rewrite" THEN {"rewrite"} ELSE {}
        BY DEF IInv, TypeOK, Start, Goto
  <2>2. seen[p] = None
        BY DEF Start, IInv, ProcInv, PlacesTyped, Decided
  <2>3. QED
        BY <2>1, <2>2 DEF FirstPlace, ProcInv, PlacesTyped, MessageRead, PolicyRead,
               DangerShown, BranchShown, Decided
<1>3. ASSUME NEW q \in Proc \ {p} PROVE LeavesAlone(q)
      BY DEF IInv, TypeOK, Start, Goto, world, LeavesAlone
<1>4. QED BY <1>1, <1>2, <1>3 DEF Keeps

LEMMA CheckMessageKeeps ==
    ASSUME NEW p \in Proc, IInv, CheckMessage(p)
    PROVE  Keeps(p)
<1>1. CASE BadMessage(cmd[p], policy)
      BY <1>1, ExitKeeps DEF CheckMessage
<1>2. CASE ~BadMessage(cmd[p], policy)
  <2>1. TypeOK' BY <1>2 DEF IInv, TypeOK, CheckMessage, Goto, PC, world
  <2>2. ProcInv(p)'
        BY <1>2 DEF IInv, TypeOK, CheckMessage, Goto, BadMessage, world, ProcInv, PlacesTyped,
               MessageRead, PolicyRead, DangerShown, BranchShown, Decided
  <2>3. ASSUME NEW q \in Proc \ {p} PROVE LeavesAlone(q)
        BY <1>2 DEF IInv, TypeOK, CheckMessage, Goto, world, LeavesAlone
  <2>4. QED BY <2>1, <2>2, <2>3 DEF Keeps
<1>3. QED BY <1>1, <1>2

LEMMA CheckMessageAgainKeeps ==
    ASSUME NEW p \in Proc, IInv, CheckMessageAgain(p)
    PROVE  Keeps(p)
<1>1. \/ pc' = [pc EXCEPT ![p] = "ask"] /\ shown' = [shown EXCEPT ![p] = {"message"}]
      \/ pc' = [pc EXCEPT ![p] = "policy"] /\ shown' = shown
      BY DEF CheckMessageAgain, Decide, Goto
<1>2. TypeOK' BY <1>1 DEF IInv, TypeOK, CheckMessageAgain, PC, Rule, world
<1>3. ProcInv(p)'
      BY <1>1 DEF IInv, TypeOK, CheckMessageAgain, world, ProcInv, PlacesTyped,
             MessageRead, PolicyRead, DangerShown, BranchShown, Decided
<1>4. ASSUME NEW q \in Proc \ {p} PROVE LeavesAlone(q)
      BY <1>1 DEF IInv, TypeOK, CheckMessageAgain, world, LeavesAlone
<1>5. QED BY <1>2, <1>3, <1>4 DEF Keeps

LEMMA ReadPolicyKeeps ==
    ASSUME NEW p \in Proc, IInv, ReadPolicy(p)
    PROVE  Keeps(p)
<1>1. TypeOK' BY DEF IInv, TypeOK, ReadPolicy, Goto, PC, world
<1>2. ProcInv(p)'
      BY DEF IInv, TypeOK, ReadPolicy, Goto, world, ProcInv, PlacesTyped,
             MessageRead, PolicyRead, DangerShown, BranchShown, Decided
<1>3. ASSUME NEW q \in Proc \ {p} PROVE LeavesAlone(q)
      BY DEF IInv, TypeOK, ReadPolicy, Goto, world, LeavesAlone
<1>4. QED BY <1>1, <1>2, <1>3 DEF Keeps

(* Whatever branch was read, the dialog tells of every rule it breaks. *)
LEMMA CheckBranchKeeps ==
    ASSUME NEW p \in Proc, NEW b \in Branch \cup {None}, IInv, CheckBranch(p, b),
           b = None \/ b = head[cmd[p].repo]
    PROVE  Keeps(p)
<1> DEFINE broken ==
        BranchRules(cmd[p], b, conf[p]) \cup TargetRules(cmd[p]) \cup ForceRules(cmd[p])
<1>1. /\ shown' = [shown EXCEPT ![p] = broken]
      /\ seen' = [seen EXCEPT ![p] = b]
      /\ \/ pc' = [pc EXCEPT ![p] = "ask"]
         \/ pc' = [pc EXCEPT ![p] = "launch"]
      /\ UNCHANGED <<world, cmd, conf, steady>>
      BY DEF CheckBranch, Decide, Goto
<1>2. broken \in SUBSET Rule BY RulesTyped
<1>3. pc[p] = "branch" BY DEF CheckBranch
<1>4. \/ cmd[p].kind = "commit" /\ conf[p] \in Policies
      \/ cmd[p].kind = "push" /\ cmd[p].force # "broad"
      BY <1>3 DEF IInv, ProcInv, PlacesTyped
<1>5. cmd[p] \in Command BY <1>3 DEF IInv, ProcInv, PlacesTyped
<1>6. TypeOK' 
  <2> HIDE DEF broken
  <2>1. QED BY <1>1, <1>2 DEF IInv, TypeOK, PC, world
<1>7. ProcInv(p)'
  <2>1. /\ shown'[p] = broken /\ seen'[p] = b /\ pc'[p] \in {"ask", "launch"}
        /\ cmd'[p] = cmd[p] /\ steady'[p] = steady[p] /\ head' = head /\ policy' = policy
    <3> HIDE DEF broken
    <3>1. QED BY <1>1 DEF IInv, TypeOK, world
  <2>2. PlacesTyped(p)' BY <2>1, <1>5 DEF PlacesTyped, Decided
  <2>3. MessageRead(p)' BY <2>1, <1>3 DEF IInv, ProcInv, MessageRead
  <2>4. PolicyRead(p)' BY <2>1 DEF PolicyRead
  <2>5. DangerShown(p)'
    <3>1. cmd[p].kind = "push" =>
            /\ cmd[p].force = "pinned" => "force" \in broken
            /\ cmd[p].targets \cap Protected # {} => "protected" \in broken
          BY DEF TargetRules, ForceRules
    <3>2. QED BY <2>1, <3>1, <1>4 DEF DangerShown
  <2>6. BranchShown(p)'
    <3>1. SUFFICES ASSUME steady[p], b # None
                   PROVE  BranchRules(cmd[p], b, policy) \subseteq broken
          BY <2>1 DEF BranchShown
    <3>2. CASE cmd[p].kind = "commit"
          BY <3>1, <3>2, <1>3 DEF IInv, ProcInv, PolicyRead
    <3>3. CASE cmd[p].kind = "push"
          BY <3>3 DEF BranchRules
    <3>4. QED BY <3>2, <3>3, <1>4
  <2>7. QED BY <2>2, <2>3, <2>4, <2>5, <2>6 DEF ProcInv
<1>8. ASSUME NEW q \in Proc \ {p} PROVE LeavesAlone(q)
  <2> HIDE DEF broken
  <2>1. QED BY <1>1 DEF IInv, TypeOK, world, LeavesAlone
<1>9. QED BY <1>6, <1>7, <1>8 DEF Keeps

LEMMA OverruleKeeps ==
    ASSUME NEW p \in Proc, IInv, Overrule(p)
    PROVE  Keeps(p)
<1>1. TypeOK' BY DEF IInv, TypeOK, Overrule, Goto, PC, world
<1>2. ProcInv(p)'
      BY DEF IInv, TypeOK, Overrule, Goto, world, ProcInv, PlacesTyped,
             MessageRead, PolicyRead, DangerShown, BranchShown, BranchRules, BadBranch, Decided
<1>3. ASSUME NEW q \in Proc \ {p} PROVE LeavesAlone(q)
      BY DEF IInv, TypeOK, Overrule, Goto, world, LeavesAlone
<1>4. QED BY <1>1, <1>2, <1>3 DEF Keeps

(* git moves no HEAD but its own repository's, and then whoever looks at   *)
(* that one is no longer steady.                                           *)
LEMMA RunGitKeeps ==
    ASSUME NEW p \in Proc, IInv, RunGit(p)
    PROVE  Keeps(p)
<1>1. /\ pc[p] = "launch"
      /\ pc' = [pc EXCEPT ![p] = "ran"]
      /\ UNCHANGED <<policy, cmd, conf, seen, shown>>
      BY DEF RunGit, Goto
<1>2. cmd[p] \in Command BY <1>1 DEF IInv, ProcInv, PlacesTyped
<1>3. cmd[p].repo \in Repo BY <1>2, CommandFields
<1>4. /\ head' \in [Repo -> Branch]
      /\ steady' \in [Proc -> BOOLEAN]
      /\ \A q \in Proc : pc[q] # "idle" /\ steady'[q] =>
             steady[q] /\ head'[cmd[q].repo] = head[cmd[q].repo]
      /\ \A q \in Proc : steady'[q] => steady[q]
  <2>1. CASE UNCHANGED <<head, steady>>
        BY <2>1 DEF IInv, TypeOK
  <2>2. CASE /\ \E b \in Branch : head' = [head EXCEPT ![cmd[p].repo] = b]
             /\ steady' = [q \in Proc |-> steady[q] /\ cmd[q].repo # cmd[p].repo]
    <3>1. ASSUME NEW q \in Proc, pc[q] # "idle"
          PROVE  cmd[q].repo \in Repo
          BY <3>1, CommandFields DEF IInv, ProcInv, PlacesTyped
    <3>2. \A r \in Repo : r # cmd[p].repo => head'[r] = head[r]
          BY <2>2, <1>3 DEF IInv, TypeOK
    <3>3. head' \in [Repo -> Branch] BY <2>2 DEF IInv, TypeOK
    <3>4. steady' \in [Proc -> BOOLEAN] 
      <4>1. \A q \in Proc : (steady[q] /\ cmd[q].repo # cmd[p].repo) \in BOOLEAN
            BY Zenon
      <4>2. QED BY <2>2, <4>1, Zenon
    <3>5. \A q \in Proc : steady'[q] => steady[q] /\ cmd[q].repo # cmd[p].repo
          BY <2>2, Zenon
    <3>6. QED BY <3>1, <3>2, <3>3, <3>4, <3>5
  <2>3. QED BY <2>1, <2>2 DEF RunGit
<1>5. TypeOK' BY <1>1, <1>4 DEF IInv, TypeOK, PC
<1>6. ProcInv(p)'
      BY <1>1, <1>4 DEF IInv, TypeOK, ProcInv, PlacesTyped,
             MessageRead, PolicyRead, DangerShown, BranchShown, BranchRules, BadBranch, Decided
<1>7. ASSUME NEW q \in Proc \ {p} PROVE LeavesAlone(q)
      BY <1>1, <1>4 DEF IInv, TypeOK, LeavesAlone
<1>8. QED BY <1>5, <1>6, <1>7 DEF Keeps

-------------------------------------------------------------------------------
(* The inductive invariant. *)

LEMMA InitIInv == Init => IInv
BY DEF Init, IInv, TypeOK, PC, ProcInv, PlacesTyped, MessageRead, PolicyRead,
       DangerShown, BranchShown, Decided

LEMMA KeepsIInv ==
    ASSUME NEW p \in Proc, IInv, Keeps(p)
    PROVE  IInv'
<1>1. ASSUME NEW q \in Proc PROVE ProcInv(q)'
  <2>1. CASE q = p BY <2>1 DEF Keeps
  <2>2. CASE q # p BY <2>2, Bystander DEF Keeps, IInv
  <2>3. QED BY <2>1, <2>2
<1>2. QED BY <1>1 DEF IInv, Keeps

LEMMA TrustIInv == ASSUME IInv, Trust PROVE IInv'
<1>1. TypeOK' BY DEF IInv, TypeOK, Trust, process
<1>2. ASSUME NEW p \in Proc PROVE ProcInv(p)'
      BY DEF IInv, Trust, process, ProcInv, PlacesTyped, MessageRead, PolicyRead,
             DangerShown, BranchShown, Decided
<1>3. QED BY <1>1, <1>2 DEF IInv

LEMMA NextIInv == IInv /\ [Next]_vars => IInv'
<1> SUFFICES ASSUME IInv, [Next]_vars PROVE IInv'
    OBVIOUS
<1>1. ASSUME NEW p \in Proc, NEW c \in Command, Start(p, c) PROVE IInv'
      BY <1>1, StartKeeps, KeepsIInv
<1>2. ASSUME NEW p \in Proc, Refuse(p) \/ NotOverruled(p) \/ Finish(p) PROVE IInv'
      BY <1>2, ExitKeeps, KeepsIInv DEF Refuse, NotOverruled, Finish
<1>3. ASSUME NEW p \in Proc, CheckMessage(p) PROVE IInv'
      BY <1>3, CheckMessageKeeps, KeepsIInv
<1>4. ASSUME NEW p \in Proc, CheckMessageAgain(p) PROVE IInv'
      BY <1>4, CheckMessageAgainKeeps, KeepsIInv
<1>5. ASSUME NEW p \in Proc, ReadPolicy(p) PROVE IInv'
      BY <1>5, ReadPolicyKeeps, KeepsIInv
<1>6. ASSUME NEW p \in Proc, ReadBranch(p) PROVE IInv'
  <2>1. cmd[p] \in Command
        BY <1>6 DEF ReadBranch, CheckBranch, IInv, ProcInv, PlacesTyped
  <2>2. head[cmd[p].repo] \in Branch
        BY <2>1, CommandFields DEF IInv, TypeOK
  <2>3. QED BY <1>6, <2>2, CheckBranchKeeps, KeepsIInv DEF ReadBranch
<1>7. ASSUME NEW p \in Proc, ReadBranchFails(p) PROVE IInv'
      BY <1>7, CheckBranchKeeps, KeepsIInv DEF ReadBranchFails
<1>8. ASSUME NEW p \in Proc, Overrule(p) PROVE IInv'
      BY <1>8, OverruleKeeps, KeepsIInv
<1>9. ASSUME NEW p \in Proc, RunGit(p) PROVE IInv'
      BY <1>9, RunGitKeeps, KeepsIInv
<1>10. CASE Trust BY <1>10, TrustIInv
<1>11. CASE UNCHANGED vars
       BY <1>11 DEF vars, world, process, IInv, TypeOK, ProcInv, PlacesTyped, MessageRead,
              PolicyRead, DangerShown, BranchShown, BranchRules, BadBranch, Decided
<1>12. QED
       BY <1>1, <1>2, <1>3, <1>4, <1>5, <1>6, <1>7, <1>8, <1>9, <1>10, <1>11 DEF Next

(* The inductive invariant holds in every reachable state. *)
THEOREM SpecIInv == Spec => []IInv
BY InitIInv, NextIInv, PTL DEF Spec

-------------------------------------------------------------------------------
(* What it implies. *)

(* Every state of `ozm git` is well typed. *)
THEOREM SpecTypeOK == Spec => []TypeOK
<1>1. IInv => TypeOK BY DEF IInv
<1>2. QED BY <1>1, SpecIInv, PTL

(* No dangerous push, alias or rewrite reaches git behind the user's back, *)
(* however the policy and the branches change (git.py:441-476).            *)
THEOREM SpecDangerOverruled == Spec => []DangerOverruled
<1>1. IInv => DangerOverruled
      BY DEF IInv, ProcInv, DangerShown, Decided, DangerOverruled
<1>2. QED BY <1>1, SpecIInv, PTL

(* In a steady call, git commits and pushes on a branch that was found to  *)
(* keep the rules, or the user overruled just those it breaks              *)
(* (git.py:192-211, 255-257).                                              *)
THEOREM SpecBranchRulesKept == Spec => []BranchRulesKept
<1>1. ASSUME IInv, NEW p \in Proc, pc[p] = "ran", steady[p], seen[p] # None
      PROVE  LET b == head[cmd[p].repo]
             IN  /\ cmd[p].kind = "commit" /\ policy.require /\ b \in Protected
                       => "branch" \in shown[p]
                 /\ cmd[p].kind = "commit" /\ policy.prefixes # {} /\ b \notin Protected
                       => b \in policy.prefixes \/ "branch" \in shown[p]
                 /\ cmd[p].kind = "push" /\ b \in Protected => "protected" \in shown[p]
  <2>1. /\ seen[p] = head[cmd[p].repo]
        /\ BranchRules(cmd[p], seen[p], policy) \subseteq shown[p]
        BY <1>1 DEF IInv, ProcInv, BranchShown, Decided
  <2>2. QED BY <1>1, <2>1 DEF BranchRules, BadBranch
<1>2. IInv => BranchRulesKept BY <1>1 DEF BranchRulesKept
<1>3. QED BY <1>2, SpecIInv, PTL

(* A commit's message is well formed, and free of what a steady policy     *)
(* forbids, whatever the user overruled (git.py:171-189, 446-452).         *)
THEOREM SpecMessagesKept == Spec => []MessagesKept
<1>1. IInv => MessagesKept
      BY DEF IInv, ProcInv, MessageRead, MessagesKept
<1>2. QED BY <1>1, SpecIInv, PTL
===============================================================================
