--------------------------- MODULE CommandGate_proofs ---------------------------
(***************************************************************************)
(* Proofs about CommandGate, for any number of processes, any commands,    *)
(* classes of commands, patterns and rule files, and any Matches.          *)
(*                                                                         *)
(* None of the properties is inductive.  What runs was decided many steps  *)
(* before, from copies of shared files that others have rewritten since.   *)
(* The inductive invariant says of every copy what it may hold, and of     *)
(* every place past a decision what that decision established.             *)
(***************************************************************************)
EXTENDS CommandGate, TLAPS

(* The standing block rules do not match c. *)
Clear(p, c) == \A r \in standing[p] : ~Matches(r.pattern, c)

(* The places past an approval in the dialog: those in which what is to    *)
(* run was also found clear of the block rules, and all of them.           *)
Passed(p) ==
    \/ pc[p] \in {"save", "click"}
    \/ pc[p] \in {"rule", "saverule"} /\ answer[p] = "allow"

Approved(p) == pc[p] = "edit" \/ Passed(p)

(* What a process has at each place. *)
PlacesTyped(p) ==
    /\ pc[p] \notin {"idle", "ended", "script"} => cmd[p] \in Command
    /\ pc[p] \notin Lookup \cup {"saverule"} => conf[p] = None
    /\ pc[p] = "saverule" => conf[p] # None
    /\ pc[p] \in {"rule", "saverule"} => wish[p] \in Rule
    /\ pc[p] = "rule" /\ wish[p].list = "allowed" => answer[p] = "allow"
    /\ pc[p] \in {"overruled", "edit"} => answer[p] = "allow"

(* The user is behind every approval and every copy of one. *)
UserBehind(p) ==
    /\ table[p] \subseteq consent
    /\ Approved(p) => run[p] \in consent
    /\ wish[p] # None /\ wish[p].list = "allowed" => wish[p].pattern \in granted
    /\ conf[p] # None => conf[p]["allowed"] \subseteq granted

(* The standing block rules are in the files and in the copy being looked  *)
(* at, and a command that has passed them is clear of them.                *)
StandingHeld(p) ==
    /\ standing[p] \subseteq BlocksIn(rules)
    /\ pc[p] \in Lookup /\ conf[p] # None =>
          \A r \in standing[p] : r.scope = "project" => r.pattern \in conf[p]["blocked"]
    /\ pc[p] \in {"reblock", "allow", "cache", "ask"} => Clear(p, cmd[p])
    /\ Passed(p) => Clear(p, run[p])

RunsForAReason(p) ==
    pc[p] = "running" =>
        /\ Explains(p)
        /\ logged[p].action # "override" => Clear(p, run[p])

ProcInv(p) ==
    /\ PlacesTyped(p)
    /\ UserBehind(p)
    /\ StandingHeld(p)
    /\ RunsForAReason(p)

StoreInv ==
    /\ hashes \subseteq consent
    /\ \A s \in Scope : rules[s]["allowed"] \subseteq granted

IInv ==
    /\ TypeOK
    /\ StoreInv
    /\ \A p \in Proc : ProcInv(p)

-------------------------------------------------------------------------------
(* A step of one process. *)

(* Whatever p does, it takes no approval back, strengthens no standing     *)
(* rule of another process, and leaves the memory of the others alone.     *)
OnlyMoves(p) ==
    /\ consent \subseteq consent'
    /\ granted \subseteq granted'
    /\ \A q \in Proc \ {p} :
          /\ pc'[q] = pc[q] /\ cmd'[q] = cmd[q] /\ conf'[q] = conf[q]
          /\ table'[q] = table[q] /\ run'[q] = run[q] /\ wish'[q] = wish[q]
          /\ logged'[q] = logged[q] /\ answer'[q] = answer[q]
          /\ standing'[q] \subseteq standing[q]
          /\ standing'[q] \subseteq BlocksIn(rules')

LEMMA OthersKeepProcInv ==
    ASSUME NEW p \in Proc, OnlyMoves(p), NEW q \in Proc \ {p}, ProcInv(q)
    PROVE  ProcInv(q)'
<1> USE DEF OnlyMoves, ProcInv
<1>1. PlacesTyped(q)'
  BY DEF PlacesTyped
<1>2. UserBehind(q)'
  BY DEF UserBehind, Approved, Passed
<1>3. StandingHeld(q)'
  BY DEF StandingHeld, Passed, Clear, BlocksIn, RulesIn
<1>4. RunsForAReason(q)'
  BY DEF RunsForAReason, Explains, Clear
<1> QED
  BY <1>1, <1>2, <1>3, <1>4

LEMMA MoveKeepsIInv ==
    ASSUME IInv, NEW p \in Proc, OnlyMoves(p), TypeOK', StoreInv', ProcInv(p)'
    PROVE  IInv'
BY OthersKeepProcInv DEF IInv

(* Most steps change no file and no history. *)
LEMMA QuietMove ==
    ASSUME IInv, NEW p \in Proc, UNCHANGED <<store, history>>,
           \A q \in Proc \ {p} :
              /\ pc'[q] = pc[q] /\ cmd'[q] = cmd[q] /\ conf'[q] = conf[q]
              /\ table'[q] = table[q] /\ run'[q] = run[q] /\ wish'[q] = wish[q]
              /\ logged'[q] = logged[q] /\ answer'[q] = answer[q]
    PROVE  OnlyMoves(p) /\ StoreInv'
BY DEF IInv, OnlyMoves, StoreInv, ProcInv, StandingHeld, store, history, allowance

-------------------------------------------------------------------------------
(* Steps that end or decide. *)

LEMMA StopKeepsIInv ==
    ASSUME IInv, NEW p \in Proc, UNCHANGED <<store, allowance>>,
           NEW a \in AuditAction, NEW c \in Command \cup {None}, Stop(p, a, c),
           \/ UNCHANGED answer
           \/ \E x \in {"deny", "nodialog"} : answer' = [answer EXCEPT ![p] = x]
    PROVE  IInv'
<1> USE DEF IInv, TypeOK, Stop, Goto, Log, Forget, store, allowance, PC, Lookup
<1>1. TypeOK'
  OBVIOUS
<1>2. ProcInv(p)'
  BY DEF ProcInv, PlacesTyped, UserBehind, Approved, Passed, StandingHeld, RunsForAReason
<1>3. OnlyMoves(p) /\ StoreInv'
  BY DEF OnlyMoves, StoreInv, ProcInv, StandingHeld
<1> QED
  BY <1>1, <1>2, <1>3, MoveKeepsIInv

LEMMA FinishKeepsIInv ==
    ASSUME IInv, NEW p \in Proc, Finish(p)
    PROVE  IInv'
<1> USE DEF IInv, TypeOK, Finish, Exit, Goto, Forget, NoEntry, store, allowance, PC, Lookup
<1>1. TypeOK'
  OBVIOUS
<1>2. ProcInv(p)'
  BY DEF ProcInv, PlacesTyped, UserBehind, Approved, Passed, StandingHeld, RunsForAReason
<1>3. OnlyMoves(p) /\ StoreInv'
  BY DEF OnlyMoves, StoreInv, ProcInv, StandingHeld
<1> QED
  BY <1>1, <1>2, <1>3, MoveKeepsIInv

LEMMA StartKeepsIInv ==
    ASSUME IInv, NEW p \in Proc, NEW c \in Command, Start(p, c)
    PROVE  IInv'
<1> USE DEF IInv, TypeOK, Start, MayBegin, Goto, store, allowance, loaded, choice, PC, Lookup
<1>1. PICK place \in {"refuse", "override", "block"} : Goto(p, place)
  BY DEF Screening
<1>2. BlocksIn(rules) \subseteq Rule
  BY DEF BlocksIn, RulesIn
<1>3. TypeOK'
  BY <1>1, <1>2
<1>4. ProcInv(p)'
  <2>1. PlacesTyped(p)' /\ RunsForAReason(p)'
    BY <1>1 DEF ProcInv, PlacesTyped, RunsForAReason
  <2>2. UserBehind(p)'
    BY <1>1 DEF ProcInv, UserBehind, Approved, Passed
  <2>3. StandingHeld(p)'
    BY <1>1, <1>2, SMTT(30) DEF ProcInv, PlacesTyped, StandingHeld, Passed, BlocksIn, RulesIn
  <2> QED
    BY <2>1, <2>2, <2>3 DEF ProcInv
<1>5. OnlyMoves(p) /\ StoreInv'
  BY <1>1 DEF OnlyMoves, StoreInv, ProcInv, StandingHeld, BlocksIn, RulesIn
<1> QED
  BY <1>3, <1>4, <1>5, MoveKeepsIInv

LEMMA GrantOverrideKeepsIInv ==
    ASSUME IInv, NEW p \in Proc, GrantOverride(p)
    PROVE  IInv'
<1> USE DEF IInv, TypeOK, GrantOverride, Goto, store, history, allowance, loaded, PC, Lookup
<1>1. TypeOK'
  OBVIOUS
<1>2. ProcInv(p)'
  BY DEF ProcInv, PlacesTyped, UserBehind, Approved, Passed, StandingHeld, RunsForAReason
<1>3. OnlyMoves(p) /\ StoreInv'
  BY QuietMove
<1> QED
  BY <1>1, <1>2, <1>3, MoveKeepsIInv

LEMMA RunOverrideKeepsIInv ==
    ASSUME IInv, NEW p \in Proc, RunOverride(p)
    PROVE  IInv'
<1> USE DEF IInv, TypeOK, RunOverride, Launch, Log, Goto, store, history, allowance, loaded,
            PC, Lookup, AuditAction, Permit
<1>1. TypeOK'
  BY DEF ProcInv, PlacesTyped
<1>2. ProcInv(p)'
  BY DEF ProcInv, PlacesTyped, UserBehind, Approved, Passed, StandingHeld, RunsForAReason,
         Explains
<1>3. OnlyMoves(p) /\ StoreInv'
  BY QuietMove
<1> QED
  BY <1>1, <1>2, <1>3, MoveKeepsIInv

-------------------------------------------------------------------------------
(* Rule lookups. *)

(* A lookup that finds no block rule leaves the command clear of those     *)
(* that stand: the project's were in the copy, the global ones are in the  *)
(* file that was just read.                                                *)
LEMMA UnmatchedIsClear ==
    ASSUME IInv, NEW p \in Proc, NEW c, pc[p] \in Lookup, conf[p] # None,
           ~Matched(p, "blocked", c)
    PROVE  Clear(p, c)
BY DEF IInv, TypeOK, ProcInv, StandingHeld, Clear, Matched, BlocksIn, RulesIn, Rule, Scope

(* What a lookup finds allowed, the user has granted. *)
LEMMA MatchedIsGranted ==
    ASSUME IInv, NEW p \in Proc, NEW c, conf[p] # None, Matched(p, "allowed", c)
    PROVE  \E q \in granted : Matches(q, c)
BY DEF IInv, StoreInv, ProcInv, UserBehind, Matched, Scope

LEMMA ReadProjectRulesKeepsIInv ==
    ASSUME IInv, NEW p \in Proc, ReadProjectRules(p)
    PROVE  IInv'
<1> USE DEF IInv, TypeOK, ReadProjectRules, store, history, allowance, choice, PC, Lookup
<1>1. TypeOK'
  BY DEF Scope
<1>2. ProcInv(p)'
  <2>1. PlacesTyped(p)' /\ RunsForAReason(p)'
    BY DEF ProcInv, PlacesTyped, RunsForAReason
  <2>2. UserBehind(p)'
    BY DEF ProcInv, UserBehind, Approved, Passed, StoreInv, Scope
  <2>3. StandingHeld(p)'
    BY DEF ProcInv, StandingHeld, Passed, Clear, BlocksIn, RulesIn, Rule
  <2> QED
    BY <2>1, <2>2, <2>3 DEF ProcInv
<1>3. OnlyMoves(p) /\ StoreInv'
  BY QuietMove
<1> QED
  BY <1>1, <1>2, <1>3, MoveKeepsIInv

(* The second half of a lookup that does not launch the command. *)
LEMMA LookupMovesOn ==
    ASSUME IInv, NEW p \in Proc,
           NEW from \in Lookup, ReadGlobalRules(p, from),
           NEW to \in {"override", "reblock", "allow", "cache", "save", "rule"},
           Goto(p, to), UNCHANGED <<run, logged>>,
           PlacesTyped(p)', StandingHeld(p)', UserBehind(p)'
    PROVE  IInv'
<1> USE DEF IInv, TypeOK, ReadGlobalRules, Goto, store, history, allowance, PC, Lookup
<1>1. TypeOK'
  OBVIOUS
<1>2. ProcInv(p)'
  BY DEF ProcInv, RunsForAReason
<1>3. OnlyMoves(p) /\ StoreInv'
  BY QuietMove
<1> QED
  BY <1>1, <1>2, <1>3, MoveKeepsIInv

(* The second half of a lookup that launches it, for a reason. *)
LEMMA LookupLaunches ==
    ASSUME IInv, NEW p \in Proc,
           NEW from \in Lookup, ReadGlobalRules(p, from),
           NEW a \in {"operation", "semantic", "config"}, Launch(p, a, cmd[p]),
           Clear(p, cmd[p]),
           a = "operation" => cmd[p] \in Authorized,
           a = "semantic" => cmd[p] \in ReadOnly,
           a = "config" => \E q \in granted : Matches(q, cmd[p])
    PROVE  IInv'
<1> USE DEF IInv, TypeOK, ReadGlobalRules, Launch, Log, Goto, store, history, allowance, PC,
            Lookup, AuditAction, Permit
<1>0. cmd[p] \in Command
  BY DEF ProcInv, PlacesTyped
<1>1. TypeOK'
  BY <1>0
<1>2. ProcInv(p)'
  BY <1>0 DEF ProcInv, PlacesTyped, UserBehind, Approved, Passed, StandingHeld, Clear,
              RunsForAReason, Explains
<1>3. OnlyMoves(p) /\ StoreInv'
  BY QuietMove
<1> QED
  BY <1>1, <1>2, <1>3, MoveKeepsIInv

LEMMA BlockWithReasonKeepsIInv ==
    ASSUME IInv, NEW p \in Proc, BlockWithReason(p)
    PROVE  IInv'
<1> USE DEF IInv, TypeOK, BlockWithReason, ReadGlobalRules, Goto, store, history, allowance, Lookup
<1>1. PlacesTyped(p)' /\ StandingHeld(p)' /\ UserBehind(p)'
  BY DEF ProcInv, PlacesTyped, UserBehind, Approved, Passed, StandingHeld
<1> QED
  BY <1>1, LookupMovesOn

LEMMA PassBlockKeepsIInv ==
    ASSUME IInv, NEW p \in Proc, PassBlock(p)
    PROVE  IInv'
<1>1. Clear(p, cmd[p])
  BY UnmatchedIsClear DEF PassBlock, ReadGlobalRules, Lookup
<1>2. CASE cmd[p] \in Authorized \cup ReadOnly
  <2>1. \E a \in {"operation", "semantic"} :
          /\ Launch(p, a, cmd[p])
          /\ a = "operation" => cmd[p] \in Authorized
          /\ a = "semantic" => cmd[p] \in ReadOnly
    BY <1>2 DEF PassBlock
  <2> QED
    BY <1>1, <2>1, LookupLaunches DEF PassBlock, Lookup
<1>3. CASE cmd[p] \notin Authorized \cup ReadOnly
  <2>1. Goto(p, "reblock") /\ UNCHANGED <<run, logged>> /\ ReadGlobalRules(p, "block")
    BY <1>3 DEF PassBlock
  <2>2. PlacesTyped(p)' /\ StandingHeld(p)' /\ UserBehind(p)'
    BY <1>1, <2>1
    DEF IInv, TypeOK, ReadGlobalRules, Goto, store, history, allowance, Lookup, ProcInv,
        PlacesTyped, UserBehind, Approved, Passed, StandingHeld, Clear
  <2> QED
    BY <2>1, <2>2, LookupMovesOn DEF Lookup
<1> QED
  BY <1>2, <1>3

LEMMA CheckBlockAgainKeepsIInv ==
    ASSUME IInv, NEW p \in Proc, CheckBlockAgain(p)
    PROVE  IInv'
<1>1. PICK to \in {"cache", "allow"} : Goto(p, to)
  BY DEF CheckBlockAgain
<1>2. PlacesTyped(p)' /\ StandingHeld(p)' /\ UserBehind(p)'
  BY <1>1
  DEF IInv, TypeOK, CheckBlockAgain, ReadGlobalRules, Goto, store, history, allowance, Lookup,
      ProcInv, PlacesTyped, UserBehind, Approved, Passed, StandingHeld, Clear
<1> QED
  BY <1>1, <1>2, LookupMovesOn DEF CheckBlockAgain, Lookup

LEMMA CheckAllowedKeepsIInv ==
    ASSUME IInv, NEW p \in Proc, CheckAllowed(p)
    PROVE  IInv'
<1>1. CASE Matched(p, "allowed", cmd[p])
  <2>1. Clear(p, cmd[p])
    BY DEF IInv, ProcInv, StandingHeld, CheckAllowed, ReadGlobalRules
  <2>2. \E q \in granted : Matches(q, cmd[p])
    BY <1>1, MatchedIsGranted DEF CheckAllowed, ReadGlobalRules
  <2> QED
    BY <1>1, <2>1, <2>2, LookupLaunches DEF CheckAllowed, Lookup
<1>2. CASE ~Matched(p, "allowed", cmd[p])
  <2>1. Goto(p, "cache") /\ UNCHANGED <<run, logged>> /\ ReadGlobalRules(p, "allow")
    BY <1>2 DEF CheckAllowed
  <2>2. PlacesTyped(p)' /\ StandingHeld(p)' /\ UserBehind(p)'
    BY <2>1
    DEF IInv, TypeOK, ReadGlobalRules, Goto, store, history, allowance, Lookup, ProcInv,
        PlacesTyped, UserBehind, Approved, Passed, StandingHeld, Clear
  <2> QED
    BY <2>1, <2>2, LookupMovesOn DEF Lookup
<1> QED
  BY <1>1, <1>2

LEMMA PassEditKeepsIInv ==
    ASSUME IInv, NEW p \in Proc, PassEdit(p)
    PROVE  IInv'
<1>1. Clear(p, run[p])
  BY UnmatchedIsClear DEF PassEdit, ReadGlobalRules, Lookup
<1>2. PICK to \in {"save", "rule"} : Goto(p, to) /\ (to = "rule" => wish[p] # None)
  BY DEF PassEdit
<1>3. PlacesTyped(p)' /\ StandingHeld(p)' /\ UserBehind(p)'
  BY <1>1, <1>2
  DEF IInv, TypeOK, PassEdit, ReadGlobalRules, Goto, store, history, allowance, Lookup, ProcInv,
      PlacesTyped, UserBehind, Approved, Passed, StandingHeld, Clear
<1> QED
  BY <1>2, <1>3, LookupMovesOn DEF PassEdit, Lookup

-------------------------------------------------------------------------------
(* The cache and the dialog. *)

LEMMA LoadHashesKeepsIInv ==
    ASSUME IInv, NEW p \in Proc, LoadHashes(p)
    PROVE  IInv'
<1> USE DEF IInv, TypeOK, LoadHashes, Launch, Log, Goto, store, history, allowance, PC, Lookup,
            AuditAction, Permit
<1>0. cmd[p] \in Command
  BY DEF ProcInv, PlacesTyped
<1>1. TypeOK'
  <2>1. CASE cmd[p] \in hashes
    <3>1. pc' \in [Proc -> PC] /\ run' \in [Proc -> Command \cup {None}]
      BY <1>0, <2>1
    <3>2. logged' \in [Proc -> [action : AuditAction \cup {None},
                                command : Command \cup {None}]]
      BY <1>0, <2>1
    <3> QED
      BY <2>1, <3>1, <3>2
  <2>2. CASE cmd[p] \notin hashes
    <3>1. table' \in [Proc -> SUBSET Command]
      BY <2>2
    <3> QED
      BY <2>2, <3>1
  <2> QED
    BY <2>1, <2>2
<1>2. ProcInv(p)'
  <2>1. PlacesTyped(p)'
    BY <1>0 DEF ProcInv, PlacesTyped
  <2>2. UserBehind(p)'
    BY DEF ProcInv, UserBehind, Approved, Passed, StoreInv
  <2>3. StandingHeld(p)'
    BY DEF ProcInv, PlacesTyped, StandingHeld, Passed, Clear
  <2>4. RunsForAReason(p)'
    <3>1. CASE cmd[p] \in hashes
      <4>1. /\ run'[p] = cmd[p] /\ logged'[p] = [action |-> "cached", command |-> cmd[p]]
            /\ consent' = consent /\ cmd[p] \in consent
        BY <3>1 DEF StoreInv
      <4>2. Explains(p)'
        BY <4>1 DEF Explains
      <4>3. Clear(p, cmd[p]) /\ standing' = standing
        BY DEF ProcInv, StandingHeld
      <4> QED
        BY <4>1, <4>2, <4>3 DEF RunsForAReason, Clear
    <3>2. CASE cmd[p] \notin hashes
      BY <3>2 DEF RunsForAReason
    <3> QED
      BY <3>1, <3>2
  <2> QED
    BY <2>1, <2>2, <2>3, <2>4 DEF ProcInv
<1>3. OnlyMoves(p) /\ StoreInv'
  BY QuietMove
<1> QED
  BY <1>1, <1>2, <1>3, MoveKeepsIInv

LEMMA WishIsTyped ==
    ASSUME NEW list \in List, NEW c \in Command, NEW w \in Wishes(list, c)
    PROVE  w # None => w \in Rule /\ w.list = list
BY ExactIsPattern DEF Wishes, Rule, Scope

LEMMA AllowKeepsIInv ==
    ASSUME IInv, NEW p \in Proc, NEW c \in Command, Allow(p, c)
    PROVE  IInv'
<1> USE DEF IInv, TypeOK, Allow, Goto, store, allowance, loaded, PC, Lookup
<1>1. PICK w \in Wishes("allowed", c) :
        /\ wish' = [wish EXCEPT ![p] = w]
        /\ granted' = IF w = None THEN granted ELSE granted \cup {w.pattern}
        /\ Goto(p, AfterAllow(p, c, w))
  OBVIOUS
<1>2. w = None \/ (w # None /\ w \in Rule /\ w.list = "allowed" /\ w.pattern \in Pattern)
  BY WishIsTyped DEF List, Rule
<1>3. TypeOK'
  BY <1>1, <1>2 DEF AfterAllow
<1>4. ProcInv(p)'
  <2>1. PlacesTyped(p)' /\ RunsForAReason(p)'
    BY <1>1, <1>2 DEF ProcInv, PlacesTyped, RunsForAReason, AfterAllow
  <2>2. UserBehind(p)'
    BY <1>1, <1>2 DEF ProcInv, UserBehind, Approved, Passed, AfterAllow
  <2>3. StandingHeld(p)'
    BY <1>1, <1>2 DEF ProcInv, PlacesTyped, StandingHeld, Passed, Clear, AfterAllow
  <2> QED
    BY <2>1, <2>2, <2>3 DEF ProcInv
<1>5. OnlyMoves(p)
  BY <1>1 DEF OnlyMoves, ProcInv, StandingHeld
<1>6. StoreInv'
  BY <1>1 DEF StoreInv
<1> QED
  BY <1>3, <1>4, <1>5, <1>6, MoveKeepsIInv

LEMMA DenyKeepsIInv ==
    ASSUME IInv, NEW p \in Proc, NEW c \in Command, Deny(p, c)
    PROVE  IInv'
<1> USE DEF IInv, TypeOK, Deny, Goto, store, history, allowance, PC, Lookup
<1>1. PICK w \in Wishes("blocked", c) :
        /\ wish' = [wish EXCEPT ![p] = w]
        /\ Goto(p, IF w = None THEN "deny" ELSE "rule")
  OBVIOUS
<1>2. w = None \/ (w # None /\ w \in Rule /\ w.list = "blocked")
  BY WishIsTyped DEF List
<1>3. TypeOK'
  BY <1>1, <1>2
<1>4. ProcInv(p)'
  BY <1>1, <1>2 DEF ProcInv, PlacesTyped, UserBehind, Approved, Passed, StandingHeld,
                    RunsForAReason
<1>5. OnlyMoves(p) /\ StoreInv'
  BY QuietMove
<1> QED
  BY <1>3, <1>4, <1>5, MoveKeepsIInv

-------------------------------------------------------------------------------
(* Saving. *)

LEMMA SkipRuleKeepsIInv ==
    ASSUME IInv, NEW p \in Proc, SkipRule(p)
    PROVE  IInv'
<1> USE DEF IInv, TypeOK, SkipRule, Goto, store, history, allowance, loaded, choice, PC, Lookup
<1>1. TypeOK'
  OBVIOUS
<1>2. ProcInv(p)'
  BY DEF ProcInv, PlacesTyped, UserBehind, Approved, Passed, StandingHeld, Clear,
         RunsForAReason
<1>3. OnlyMoves(p) /\ StoreInv'
  BY QuietMove
<1> QED
  BY <1>1, <1>2, <1>3, MoveKeepsIInv

LEMMA LoadRulesKeepsIInv ==
    ASSUME IInv, NEW p \in Proc, LoadRules(p)
    PROVE  IInv'
<1> USE DEF IInv, TypeOK, LoadRules, Goto, store, history, allowance, choice, PC, Lookup
<1>1. wish[p].scope \in Scope /\ rules[wish[p].scope] \in RuleFile
  BY DEF ProcInv, PlacesTyped, Rule
<1>2. TypeOK'
  BY <1>1
<1>3. ProcInv(p)'
  BY <1>1, NoneIsFresh
  DEF ProcInv, PlacesTyped, UserBehind, Approved, Passed, StandingHeld, Clear,
      RunsForAReason, StoreInv
<1>4. OnlyMoves(p) /\ StoreInv'
  BY QuietMove
<1> QED
  BY <1>2, <1>3, <1>4, MoveKeepsIInv

(* Writing a rule file keeps files typed and allowances granted. *)
LEMMA RecordRuleKeeps ==
    ASSUME IInv, NEW p \in Proc, pc[p] = "saverule", RecordRule(p)
    PROVE  /\ rules' \in [Scope -> RuleFile]
           /\ StoreInv'
           /\ standing' \in [Proc -> SUBSET Rule]
           /\ \A q \in Proc : /\ standing'[q] \subseteq standing[q]
                              /\ standing'[q] \subseteq BlocksIn(rules')
<1>1. wish[p] \in Rule /\ conf[p] \in RuleFile
  BY DEF IInv, TypeOK, ProcInv, PlacesTyped, Lookup
<1>2. wish[p].scope \in Scope /\ wish[p].list \in List /\ wish[p].pattern \in Pattern
  BY <1>1 DEF Rule
<1>3. WithRule(p) \in RuleFile
  BY <1>1, <1>2 DEF WithRule, RuleFile
<1>4. rules' = [rules EXCEPT ![wish[p].scope] = WithRule(p)]
  BY DEF RecordRule, StoreRules
<1>5. rules' \in [Scope -> RuleFile]
  BY <1>2, <1>3, <1>4 DEF IInv, TypeOK
<1>6. WithRule(p)["allowed"] \subseteq granted
  BY <1>1, <1>2, NoneIsFresh
  DEF IInv, ProcInv, PlacesTyped, UserBehind, WithRule, RuleFile, List
<1>7. StoreInv'
  BY <1>4, <1>6 DEF IInv, TypeOK, StoreInv, RecordRule, allowance
<1>8. \A q \in Proc : standing'[q] = standing[q] \cap BlocksIn(rules')
  BY DEF RecordRule, StoreRules
<1> QED
  BY <1>5, <1>7, <1>8 DEF IInv, TypeOK, RecordRule, StoreRules

LEMMA SaveRuleKeepsIInv ==
    ASSUME IInv, NEW p \in Proc, SaveRule(p)
    PROVE  IInv'
<1> USE DEF IInv, TypeOK, SaveRule, Goto, PC, Lookup, choice
<1>1. /\ rules' \in [Scope -> RuleFile] /\ hashes' = hashes
      /\ StoreInv'
      /\ consent' = consent /\ granted' = granted
      /\ standing' \in [Proc -> SUBSET Rule]
      /\ \A q \in Proc : /\ standing'[q] \subseteq standing[q]
                         /\ standing'[q] \subseteq BlocksIn(rules')
  <2>1. CASE RecordRule(p)
    BY <2>1, RecordRuleKeeps DEF RecordRule, allowance
  <2>2. CASE UNCHANGED <<store, history>>
    BY <2>2 DEF store, history, allowance, StoreInv, ProcInv, StandingHeld
  <2> QED
    BY <2>1, <2>2
<1>2. TypeOK'
  BY <1>1
<1>3. ProcInv(p)'
  BY <1>1 DEF ProcInv, PlacesTyped, UserBehind, Approved, Passed, StandingHeld, Clear,
              RunsForAReason
<1>4. OnlyMoves(p)
  BY <1>1 DEF OnlyMoves
<1> QED
  BY <1>1, <1>2, <1>3, <1>4, MoveKeepsIInv

LEMMA SaveHashesKeepsIInv ==
    ASSUME IInv, NEW p \in Proc, SaveHashes(p)
    PROVE  IInv'
<1> USE DEF IInv, TypeOK, SaveHashes, Goto, history, allowance, PC, Lookup
<1>1. run[p] \in consent /\ table[p] \subseteq consent
  BY DEF ProcInv, UserBehind, Approved, Passed
<1>2. TypeOK'
  BY <1>1
<1>3. ProcInv(p)'
  BY <1>1 DEF ProcInv, PlacesTyped, UserBehind, Approved, Passed, StandingHeld, Clear,
              RunsForAReason
<1>4. OnlyMoves(p) /\ StoreInv'
  BY <1>1 DEF OnlyMoves, StoreInv, ProcInv, StandingHeld
<1> QED
  BY <1>2, <1>3, <1>4, MoveKeepsIInv

LEMMA ClickKeepsIInv ==
    ASSUME IInv, NEW p \in Proc, Click(p)
    PROVE  IInv'
<1> USE DEF IInv, TypeOK, Click, Launch, Log, Goto, store, history, allowance, loaded, PC,
            Lookup, AuditAction, Permit
<1>1. run[p] \in consent
  BY DEF ProcInv, UserBehind, Approved, Passed
<1>2. TypeOK'
  BY <1>1
<1>3. ProcInv(p)'
  BY <1>1 DEF ProcInv, PlacesTyped, UserBehind, Approved, Passed, StandingHeld, Clear,
              RunsForAReason, Explains
<1>4. OnlyMoves(p) /\ StoreInv'
  BY QuietMove
<1> QED
  BY <1>2, <1>3, <1>4, MoveKeepsIInv

LEMMA SaveUnsyncedKeepsIInv ==
    ASSUME IInv, NEW p \in Proc, SaveUnsynced(p)
    PROVE  IInv'
<1> USE DEF IInv, TypeOK, SaveUnsynced, Goto, PC, Lookup, loaded, choice
<1>1. /\ rules' \in [Scope -> RuleFile] /\ hashes' \subseteq Command
      /\ StoreInv'
      /\ consent' = consent /\ granted' = granted
      /\ standing' \in [Proc -> SUBSET Rule]
      /\ \A q \in Proc : /\ standing'[q] \subseteq standing[q]
                         /\ standing'[q] \subseteq BlocksIn(rules')
  <2>1. CASE pc[p] = "saverule" /\ RecordRule(p)
    BY <2>1, RecordRuleKeeps DEF RecordRule, allowance
  <2>2. CASE /\ pc[p] = "save"
             /\ hashes' = table[p] \cup {run[p]}
             /\ UNCHANGED <<rules, history>>
    BY <2>2 DEF history, allowance, StoreInv, ProcInv, StandingHeld, UserBehind, Approved,
                Passed
  <2> QED
    BY <2>1, <2>2
<1>2. TypeOK'
  BY <1>1
<1>3. ProcInv(p)'
  BY <1>1 DEF ProcInv, PlacesTyped, UserBehind, Approved, Passed, StandingHeld, Clear,
              RunsForAReason
<1>4. OnlyMoves(p)
  BY <1>1 DEF OnlyMoves
<1> QED
  BY <1>1, <1>2, <1>3, <1>4, MoveKeepsIInv

-------------------------------------------------------------------------------
(* The rest of the world. *)

LEMMA ResetAllKeepsIInv ==
    ASSUME IInv, ResetAll
    PROVE  IInv'
<1> USE DEF IInv, TypeOK, ResetAll, process, loaded, choice, history, allowance
<1>1. TypeOK' /\ StoreInv'
  BY DEF StoreInv
<1>2. ASSUME NEW p \in Proc PROVE ProcInv(p)'
  BY DEF ProcInv, PlacesTyped, UserBehind, Approved, Passed, StandingHeld, Clear,
         RunsForAReason, Explains
<1> QED
  BY <1>1, <1>2

LEMMA TrustKeepsIInv ==
    ASSUME IInv, NEW f \in RuleFiles, Trust(f)
    PROVE  IInv'
<1> USE DEF IInv, TypeOK, Trust, StoreRules, process, loaded, choice
<1>1. f \in RuleFile /\ f["allowed"] \subseteq Pattern
  BY RuleFilesAreTyped DEF RuleFile, List
<1>2. TypeOK'
  BY <1>1 DEF BlocksIn, RulesIn
<1>3. StoreInv'
  BY <1>1 DEF StoreInv
<1>4. ASSUME NEW p \in Proc PROVE ProcInv(p)'
  <2>1. PlacesTyped(p)' /\ RunsForAReason(p)'
    BY DEF ProcInv, PlacesTyped, RunsForAReason, Explains, Clear
  <2>2. UserBehind(p)'
    BY DEF ProcInv, UserBehind, Approved, Passed
  <2>3. StandingHeld(p)'
    BY DEF ProcInv, StandingHeld, Passed, Clear
  <2> QED
    BY <2>1, <2>2, <2>3 DEF ProcInv
<1> QED
  BY <1>2, <1>3, <1>4

LEMMA LoadForScriptKeepsIInv ==
    ASSUME IInv, NEW p \in Proc, LoadForScript(p)
    PROVE  IInv'
<1> USE DEF IInv, TypeOK, LoadForScript, MayBegin, Goto, store, history, allowance, choice, PC,
            Lookup
<1>1. TypeOK'
  OBVIOUS
<1>2. ProcInv(p)'
  BY DEF ProcInv, PlacesTyped, UserBehind, Approved, Passed, StandingHeld, RunsForAReason,
         StoreInv
<1>3. OnlyMoves(p) /\ StoreInv'
  BY QuietMove
<1> QED
  BY <1>1, <1>2, <1>3, MoveKeepsIInv

LEMMA SaveForScriptKeepsIInv ==
    ASSUME IInv, NEW p \in Proc, SaveForScript(p)
    PROVE  IInv'
<1> USE DEF IInv, TypeOK, SaveForScript, Goto, history, allowance, choice, PC, Lookup
<1>1. TypeOK'
  OBVIOUS
<1>2. ProcInv(p)'
  BY DEF ProcInv, PlacesTyped, UserBehind, Approved, Passed, StandingHeld, RunsForAReason
<1>3. OnlyMoves(p) /\ StoreInv'
  BY DEF OnlyMoves, StoreInv, ProcInv, UserBehind, StandingHeld
<1> QED
  BY <1>1, <1>2, <1>3, MoveKeepsIInv

(* The steps that report a decision and run nothing. *)
Stops(p) ==
    \/ Refuse(p) \/ RevokeOverride(p) \/ DenyOverride(p) \/ OverrideNotShown(p)
    \/ Block(p) \/ NotShown(p) \/ BlockEdit(p) \/ LogDenial(p) \/ Fail(p)

LEMMA StopsIsStop ==
    ASSUME IInv, NEW p \in Proc, Stops(p)
    PROVE  /\ UNCHANGED <<store, allowance>>
           /\ \E a \in AuditAction, c \in Command \cup {None} : Stop(p, a, c)
           /\ \/ UNCHANGED answer
              \/ \E x \in {"deny", "nodialog"} : answer' = [answer EXCEPT ![p] = x]
<1>1. cmd[p] \in Command \cup {None} /\ run[p] \in Command \cup {None}
  BY DEF IInv, TypeOK
<1>2. \E a \in AuditAction, c \in Command \cup {None} : Stop(p, a, c)
  BY <1>1
  DEF Stops, Refuse, RevokeOverride, DenyOverride, OverrideNotShown, Block, NotShown,
      BlockEdit, LogDenial, Fail, AtHand, AuditAction
<1>3. UNCHANGED <<store, allowance>>
  BY DEF Stops, Refuse, RevokeOverride, DenyOverride, OverrideNotShown, Block, NotShown,
         BlockEdit, LogDenial, Fail
<1>4. \/ UNCHANGED answer
      \/ \E x \in {"deny", "nodialog"} : answer' = [answer EXCEPT ![p] = x]
  BY DEF Stops, Refuse, RevokeOverride, DenyOverride, OverrideNotShown, Block, NotShown,
         BlockEdit, LogDenial, Fail
<1> QED
  BY <1>2, <1>3, <1>4

LEMMA InitIInv == ASSUME Init PROVE IInv
<1> USE DEF Init
<1>1. rules \in [Scope -> RuleFile]
  BY RuleFilesAreTyped
<1>2. RulesIn(rules) \ BlocksIn(rules) =
         {r \in Rule : r.list = "allowed" /\ r.pattern \in rules[r.scope]["allowed"]}
  BY DEF RulesIn, BlocksIn, Rule, List
<1>3. granted \subseteq Pattern
  BY <1>2 DEF Rule
<1>4. StoreInv
  <2>1. ASSUME NEW s \in Scope, NEW q \in rules[s]["allowed"] PROVE q \in granted
    <3>1. q \in Pattern
      BY <1>1 DEF RuleFile, List
    <3>2. [scope |-> s, list |-> "allowed", pattern |-> q] \in RulesIn(rules) \ BlocksIn(rules)
      BY <1>2, <3>1 DEF Rule, List
    <3> QED
      BY <3>2
  <2> QED
    BY <2>1 DEF StoreInv
<1>5. TypeOK
  BY <1>1, <1>3 DEF TypeOK, PC, Lookup, NoEntry
<1>6. \A p \in Proc : ProcInv(p)
  BY DEF ProcInv, PlacesTyped, UserBehind, Approved, Passed, StandingHeld, RunsForAReason,
         Lookup
<1> QED
  BY <1>4, <1>5, <1>6 DEF IInv

LEMMA NextKeepsIInv == IInv /\ [Next]_vars => IInv'
<1> SUFFICES ASSUME IInv, [Next]_vars PROVE IInv'
  OBVIOUS
<1>1. CASE UNCHANGED vars
  BY <1>1
  DEF vars, process, store, loaded, choice, history, allowance, IInv, TypeOK, StoreInv,
      ProcInv, PlacesTyped, UserBehind, Approved, Passed, StandingHeld, RunsForAReason,
      Explains, Clear
<1>2. ASSUME NEW p \in Proc, Stops(p) PROVE IInv'
  BY <1>2, StopsIsStop, StopKeepsIInv
<1>3. ASSUME NEW p \in Proc, NEW c \in Command, Start(p, c) \/ Allow(p, c) \/ Deny(p, c)
      PROVE  IInv'
  BY <1>3, StartKeepsIInv, AllowKeepsIInv, DenyKeepsIInv
<1>4. ASSUME NEW p \in Proc, GrantOverride(p) \/ RunOverride(p) PROVE IInv'
  BY <1>4, GrantOverrideKeepsIInv, RunOverrideKeepsIInv
<1>5. ASSUME NEW p \in Proc,
             \/ ReadProjectRules(p) \/ BlockWithReason(p) \/ PassBlock(p)
             \/ CheckBlockAgain(p) \/ CheckAllowed(p) \/ PassEdit(p)
      PROVE  IInv'
  BY <1>5, ReadProjectRulesKeepsIInv, BlockWithReasonKeepsIInv, PassBlockKeepsIInv,
     CheckBlockAgainKeepsIInv, CheckAllowedKeepsIInv, PassEditKeepsIInv
<1>6. ASSUME NEW p \in Proc,
             \/ LoadHashes(p) \/ SkipRule(p) \/ LoadRules(p) \/ SaveRule(p)
             \/ SaveHashes(p) \/ Click(p) \/ SaveUnsynced(p)
      PROVE  IInv'
  BY <1>6, LoadHashesKeepsIInv, SkipRuleKeepsIInv, LoadRulesKeepsIInv, SaveRuleKeepsIInv,
     SaveHashesKeepsIInv, ClickKeepsIInv, SaveUnsyncedKeepsIInv
<1>7. ASSUME NEW p \in Proc, LoadForScript(p) \/ SaveForScript(p) \/ Finish(p) PROVE IInv'
  BY <1>7, LoadForScriptKeepsIInv, SaveForScriptKeepsIInv, FinishKeepsIInv
<1>8. CASE ResetAll
  BY <1>8, ResetAllKeepsIInv
<1>9. CASE \E f \in RuleFiles : Trust(f)
  BY <1>9, TrustKeepsIInv
<1> QED
  BY <1>1, <1>2, <1>3, <1>4, <1>5, <1>6, <1>7, <1>8, <1>9 DEF Next, Progress, Stops

-------------------------------------------------------------------------------
(* What follows. *)

(* The inductive invariant holds in every reachable state. *)
THEOREM SpecIInv == Spec => []IInv
BY InitIInv, NextKeepsIInv, PTL DEF Spec

(* Type correctness. *)
THEOREM SpecTypeOK == Spec => []TypeOK
<1>1. IInv => TypeOK
  BY DEF IInv
<1> QED
  BY <1>1, SpecIInv, PTL

(* A standing block rule stops a command, whatever let it through and      *)
(* however it was edited, unless the user overrides that very call.        *)
THEOREM SpecStandingBlockStops == Spec => []StandingBlockStops
<1>1. IInv => StandingBlockStops
  BY DEF IInv, ProcInv, RunsForAReason, Clear, StandingBlockStops
<1> QED
  BY <1>1, SpecIInv, PTL

(* The cache and its copies hold only what the user allowed in a command   *)
(* dialog.                                                                 *)
THEOREM SpecCacheConsented == Spec => []CacheConsented
<1>1. IInv => CacheConsented
  BY DEF IInv, StoreInv, ProcInv, UserBehind, CacheConsented
<1> QED
  BY <1>1, SpecIInv, PTL

(* The audit entry tells what runs and truly why. *)
THEOREM SpecAuditTellsWhy == Spec => []AuditTellsWhy
<1>1. IInv => AuditTellsWhy
  BY DEF IInv, ProcInv, RunsForAReason, AuditTellsWhy
<1> QED
  BY <1>1, SpecIInv, PTL

-------------------------------------------------------------------------------
(* One process at a time.                                                  *)
(*                                                                         *)
(* A process decides from copies of the rule files and of the cache.  When *)
(* processes take turns the copies are still what the files hold, so what  *)
(* a lookup has found stays found until the user is asked.                 *)

OneAtATime == \A p, q \in Proc : pc[p] # "idle" /\ pc[q] # "idle" => p = q

Unblocked(p) == \A r \in BlocksIn(rules) : ~Matches(r.pattern, cmd[p])

Undecided(p) == \A r \in RulesIn(rules) : ~Matches(r.pattern, cmd[p])

FreshCopy(p) ==
    /\ pc[p] \in Lookup /\ conf[p] # None => conf[p] = rules["project"]
    /\ pc[p] = "saverule" => conf[p] = rules[wish[p].scope]

(* What has been found out at each place; a rule that was refused or could *)
(* not be saved is not waited for.                                         *)
Found(p) ==
    /\ pc[p] \in {"reblock", "allow"} => Unblocked(p)
    /\ pc[p] \in {"cache", "ask"} => Undecided(p)
    /\ pc[p] = "ask" => cmd[p] \notin hashes
    /\ pc[p] = "deny" /\ wish[p] # None => wish[p] \in RulesIn(rules)

SerialInv == serial => OneAtATime /\ \A p \in Proc : FreshCopy(p) /\ Found(p)

(* Only the one that moves has anything to find. *)
LEMMA TurnKeepsSerialInv ==
    ASSUME IInv, SerialInv, UNCHANGED serial, NEW p \in Proc,
           \A q \in Proc \ {p} : pc'[q] = pc[q],
           pc[p] # "idle" \/ MayBegin(p),
           serial => FreshCopy(p)' /\ Found(p)'
    PROVE  SerialInv'
<1> SUFFICES ASSUME serial PROVE OneAtATime' /\ \A q \in Proc : FreshCopy(q)' /\ Found(q)'
  BY DEF SerialInv
<1>1. \A q \in Proc \ {p} : pc'[q] = "idle"
  BY DEF SerialInv, OneAtATime, MayBegin
<1>2. ASSUME NEW q \in Proc \ {p} PROVE FreshCopy(q)' /\ Found(q)'
  BY <1>1 DEF FreshCopy, Found, Lookup
<1> QED
  BY <1>1, <1>2 DEF OneAtATime

(* The places at which there is nothing to find. *)
Elsewhere == PC \ {"block", "reblock", "allow", "edit", "saverule", "cache", "ask", "deny"}

LEMMA LeavingIsSerial ==
    ASSUME IInv, SerialInv, UNCHANGED serial, NEW p \in Proc,
           \A q \in Proc \ {p} : pc'[q] = pc[q],
           pc[p] # "idle" \/ MayBegin(p),
           pc'[p] \in Elsewhere \/ (pc'[p] \in {"block", "edit"} /\ conf'[p] = None)
    PROVE  SerialInv'
<1>1. FreshCopy(p)' /\ Found(p)'
  BY DEF FreshCopy, Found, Elsewhere, Lookup
<1> QED
  BY <1>1, TurnKeepsSerialInv

(* A lookup that matches no rule of a list, when the copy is fresh. *)
LEMMA UnmatchedIsAbsent ==
    ASSUME NEW p \in Proc, NEW list \in List, NEW c, conf[p] = rules["project"],
           ~Matched(p, list, c)
    PROVE  \A r \in RulesIn(rules) : r.list = list => ~Matches(r.pattern, c)
BY DEF Matched, RulesIn, Rule, Scope

LEMMA LookupSerial ==
    ASSUME IInv, SerialInv, NEW p \in Proc,
           ReadProjectRules(p) \/ PassBlock(p) \/ CheckBlockAgain(p) \/ CheckAllowed(p)
    PROVE  SerialInv'
<1>1. /\ UNCHANGED <<serial, rules, hashes, cmd, wish>>
      /\ \A q \in Proc \ {p} : pc'[q] = pc[q]
      /\ pc[p] # "idle"
  BY DEF IInv, TypeOK, ReadProjectRules, PassBlock, CheckBlockAgain, CheckAllowed,
         ReadGlobalRules, Launch, Goto, store, choice, Lookup
<1>2. ASSUME serial PROVE FreshCopy(p) /\ Found(p)
  BY <1>2 DEF SerialInv
<1>3. CASE ReadProjectRules(p)
  <2>1. /\ pc' = pc /\ pc[p] \in Lookup
        /\ conf' = [conf EXCEPT ![p] = rules["project"]]
    BY <1>3 DEF ReadProjectRules
  <2>2. ASSUME serial PROVE FreshCopy(p)' /\ Found(p)'
    BY <1>1, <1>2, <2>1, <2>2
    DEF IInv, TypeOK, FreshCopy, Found, Unblocked, Undecided, Lookup, BlocksIn, RulesIn
  <2> QED
    BY <1>1, <2>2, TurnKeepsSerialInv
<1>4. CASE PassBlock(p)
  <2>1. CASE pc'[p] = "running"
    BY <1>1, <2>1, LeavingIsSerial DEF Elsewhere, PC, Lookup
  <2>2. CASE pc'[p] # "running"
    <3>1. pc'[p] = "reblock" /\ pc[p] = "block" /\ conf[p] # None /\ conf'[p] = None
      BY <1>4, <2>2 DEF IInv, TypeOK, PassBlock, ReadGlobalRules, Launch, Goto
    <3>2. ASSUME serial PROVE Unblocked(p)
      <4>1. conf[p] = rules["project"]
        BY <1>2, <3>1, <3>2 DEF FreshCopy, Lookup
      <4> QED
        BY <1>4, <4>1, UnmatchedIsAbsent DEF PassBlock, Unblocked, BlocksIn, List
    <3>3. ASSUME serial PROVE FreshCopy(p)' /\ Found(p)'
      BY <1>1, <3>1, <3>2, <3>3 DEF FreshCopy, Found, Unblocked, BlocksIn, RulesIn
    <3> QED
      BY <1>1, <3>3, TurnKeepsSerialInv
  <2> QED
    BY <2>1, <2>2
<1>5. CASE CheckBlockAgain(p)
  <2>1. /\ pc[p] = "reblock" /\ conf[p] # None /\ conf'[p] = None
        /\ pc'[p] = IF Matched(p, "blocked", cmd[p]) THEN "cache" ELSE "allow"
    BY <1>5 DEF IInv, TypeOK, CheckBlockAgain, ReadGlobalRules, Goto
  <2>2. ASSUME serial PROVE Unblocked(p) /\ ~Matched(p, "blocked", cmd[p])
    <3>1. Unblocked(p) /\ conf[p] = rules["project"]
      BY <1>2, <2>1, <2>2 DEF FreshCopy, Found, Lookup
    <3>2. rules \in [Scope -> RuleFile]
      BY DEF IInv, TypeOK
    <3>3. ASSUME NEW s \in Scope, NEW q \in rules[s]["blocked"] PROVE ~Matches(q, cmd[p])
      <4>1. [scope |-> s, list |-> "blocked", pattern |-> q] \in BlocksIn(rules)
        BY <3>2, <3>3 DEF RuleFile, List, BlocksIn, RulesIn, Rule
      <4> QED
        BY <3>1, <4>1 DEF Unblocked
    <3>4. \A q \in conf[p]["blocked"] \cup rules["global"]["blocked"] : ~Matches(q, cmd[p])
      BY <3>1, <3>3 DEF Scope
    <3> QED
      BY <3>1, <3>4 DEF Matched
  <2>3. ASSUME serial PROVE FreshCopy(p)' /\ Found(p)'
    BY <1>1, <2>1, <2>2, <2>3 DEF FreshCopy, Found, Unblocked, BlocksIn, RulesIn
  <2> QED
    BY <1>1, <2>3, TurnKeepsSerialInv
<1>6. CASE CheckAllowed(p)
  <2>1. CASE pc'[p] = "running"
    BY <1>1, <2>1, LeavingIsSerial DEF Elsewhere, PC, Lookup
  <2>2. CASE pc'[p] # "running"
    <3>1. /\ pc'[p] = "cache" /\ pc[p] = "allow" /\ conf[p] # None /\ conf'[p] = None
          /\ ~Matched(p, "allowed", cmd[p])
      BY <1>6, <2>2 DEF IInv, TypeOK, CheckAllowed, ReadGlobalRules, Launch, Goto
    <3>2. ASSUME serial PROVE Undecided(p)
      <4>1. conf[p] = rules["project"] /\ Unblocked(p)
        BY <1>2, <3>1, <3>2 DEF FreshCopy, Found, Lookup
      <4>2. \A r \in RulesIn(rules) : r.list = "allowed" => ~Matches(r.pattern, cmd[p])
        BY <3>1, <4>1, UnmatchedIsAbsent DEF List
      <4>3. \A r \in RulesIn(rules) : r.list = "blocked" => ~Matches(r.pattern, cmd[p])
        BY <4>1 DEF Unblocked, BlocksIn
      <4>4. \A r \in RulesIn(rules) : r.list \in {"allowed", "blocked"}
        BY DEF RulesIn, Rule, List
      <4> QED
        BY <4>2, <4>3, <4>4 DEF Undecided
    <3>3. ASSUME serial PROVE FreshCopy(p)' /\ Found(p)'
      BY <1>1, <3>1, <3>2, <3>3 DEF FreshCopy, Found, Undecided, RulesIn, Lookup
    <3> QED
      BY <1>1, <3>3, TurnKeepsSerialInv
  <2> QED
    BY <2>1, <2>2
<1> QED
  BY <1>3, <1>4, <1>5, <1>6

LEMMA LoadHashesSerial ==
    ASSUME IInv, SerialInv, NEW p \in Proc, LoadHashes(p)
    PROVE  SerialInv'
<1>1. /\ UNCHANGED <<serial, rules, hashes, cmd>>
      /\ \A q \in Proc \ {p} : pc'[q] = pc[q]
      /\ pc[p] = "cache"
      /\ pc'[p] = IF cmd[p] \in hashes THEN "running" ELSE "ask"
  BY DEF IInv, TypeOK, LoadHashes, Launch, Goto, store
<1>2. ASSUME serial PROVE FreshCopy(p)' /\ Found(p)'
  <2>1. Undecided(p)
    BY <1>1, <1>2 DEF SerialInv, Found
  <2> QED
    BY <1>1, <2>1 DEF FreshCopy, Found, Undecided, RulesIn, Lookup
<1> QED
  BY <1>1, <1>2, TurnKeepsSerialInv

LEMMA LoadRulesSerial ==
    ASSUME IInv, SerialInv, NEW p \in Proc, LoadRules(p)
    PROVE  SerialInv'
<1>1. /\ UNCHANGED <<serial, rules, wish>>
      /\ \A q \in Proc \ {p} : pc'[q] = pc[q]
      /\ pc[p] = "rule" /\ pc'[p] = "saverule" /\ conf'[p] = rules[wish[p].scope]
  BY DEF IInv, TypeOK, LoadRules, Goto, store, choice
<1>2. FreshCopy(p)' /\ Found(p)'
  BY <1>1 DEF FreshCopy, Found, Lookup
<1> QED
  BY <1>1, <1>2, TurnKeepsSerialInv

(* A rule added to a fresh copy is added to the files. *)
LEMMA RecordAdds ==
    ASSUME IInv, NEW p \in Proc, wish[p] \in Rule, conf[p] = rules[wish[p].scope],
           RecordRule(p)
    PROVE  RulesIn(rules') = RulesIn(rules) \cup {wish[p]}
<1> DEFINE w == wish[p]
<1>1. /\ w \in Rule /\ rules \in [Scope -> RuleFile]
      /\ rules' = [rules EXCEPT ![w.scope] =
                      [rules[w.scope] EXCEPT ![w.list] = @ \cup {w.pattern}]]
  BY DEF IInv, TypeOK, RecordRule, StoreRules, WithRule
<1> HIDE DEF w
<1>2. w.scope \in Scope /\ w.list \in List /\ w.pattern \in Pattern
  BY <1>1 DEF Rule
<1>3. ASSUME NEW s \in Scope, NEW l \in List
      PROVE  rules'[s][l] = IF s = w.scope /\ l = w.list THEN rules[s][l] \cup {w.pattern}
                                                         ELSE rules[s][l]
  BY <1>1, <1>2 DEF RuleFile
<1>4. ASSUME NEW r \in Rule
      PROVE  r \in RulesIn(rules') <=> r \in RulesIn(rules) \cup {w}
  <2>1. r.scope \in Scope /\ r.list \in List
    BY DEF Rule
  <2>2. r.pattern \in rules'[r.scope][r.list]
          <=> \/ r.pattern \in rules[r.scope][r.list]
              \/ r.scope = w.scope /\ r.list = w.list /\ r.pattern = w.pattern
    <3>1. rules'[r.scope][r.list] =
            IF r.scope = w.scope /\ r.list = w.list
            THEN rules[r.scope][r.list] \cup {w.pattern} ELSE rules[r.scope][r.list]
      BY <1>3, <2>1, Zenon
    <3> QED
      BY <3>1
  <2>3. r = w <=> r.scope = w.scope /\ r.list = w.list /\ r.pattern = w.pattern
    BY <1>1 DEF Rule
  <2>4. \A f : r \in RulesIn(f) <=> r.pattern \in f[r.scope][r.list]
    BY DEF RulesIn
  <2> QED
    BY <2>2, <2>3, <2>4
<1> QED
  BY <1>1, <1>4 DEF RulesIn, w

(* A rule that is there is not added, and need not be. *)
LEMMA SavedIsAdded ==
    ASSUME IInv, NEW p \in Proc, pc[p] = "saverule", conf[p] = rules[wish[p].scope],
           SaveRule(p) \/ SaveUnsynced(p)
    PROVE  RulesIn(rules') = RulesIn(rules) \cup {wish[p]}
<1>1. wish[p] \in Rule
  BY DEF IInv, ProcInv, PlacesTyped
<1>2. CASE RecordRule(p)
  BY <1>1, <1>2, RecordAdds
<1>3. CASE ~RecordRule(p)
  <2>1. wish[p].pattern \in conf[p][wish[p].list] /\ rules' = rules
    BY <1>3 DEF SaveRule, SaveUnsynced, store
  <2> QED
    BY <1>1, <2>1 DEF RulesIn
<1> QED
  BY <1>2, <1>3

LEMMA SaveRuleSerial ==
    ASSUME IInv, SerialInv, NEW p \in Proc, SaveRule(p)
    PROVE  SerialInv'
<1>1. /\ UNCHANGED <<serial, wish>>
      /\ \A q \in Proc \ {p} : pc'[q] = pc[q]
      /\ pc[p] = "saverule" /\ pc'[p] \in {"save", "deny"}
  BY DEF IInv, TypeOK, SaveRule, Goto, choice
<1>2. ASSUME serial PROVE FreshCopy(p)' /\ Found(p)'
  <2>1. conf[p] = rules[wish[p].scope]
    BY <1>1, <1>2 DEF SerialInv, FreshCopy
  <2>2. wish[p] \in RulesIn(rules')
    BY <1>1, <2>1, SavedIsAdded
  <2>3. wish'[p] \in RulesIn(rules)'
    BY <1>1, <2>2 DEF RulesIn
  <2> QED
    BY <1>1, <2>3 DEF FreshCopy, Found, Lookup
<1> QED
  BY <1>1, <1>2, TurnKeepsSerialInv

LEMMA DenySerial ==
    ASSUME IInv, SerialInv, NEW p \in Proc, NEW c, Deny(p, c)
    PROVE  SerialInv'
<1>1. /\ UNCHANGED serial
      /\ \A q \in Proc \ {p} : pc'[q] = pc[q]
      /\ pc[p] = "ask"
      /\ pc'[p] = "rule" \/ (pc'[p] = "deny" /\ wish'[p] = None)
  BY DEF IInv, TypeOK, Deny, Goto
<1>2. FreshCopy(p)' /\ Found(p)'
  BY <1>1 DEF FreshCopy, Found, Lookup
<1> QED
  BY <1>1, <1>2, TurnKeepsSerialInv

(* Where a step of a process comes to when it is none of the above.        *)
LEMMA StepLeaves ==
    ASSUME IInv, NEW p \in Proc,
           \/ \E c \in Command : Start(p, c) \/ Allow(p, c)
           \/ LoadForScript(p) \/ SaveForScript(p) \/ Finish(p)
           \/ Stops(p) \/ GrantOverride(p) \/ RunOverride(p)
           \/ BlockWithReason(p) \/ PassEdit(p)
           \/ SkipRule(p) \/ SaveHashes(p) \/ Click(p) \/ SaveUnsynced(p)
    PROVE  /\ UNCHANGED serial
           /\ \A q \in Proc \ {p} : pc'[q] = pc[q]
           /\ pc[p] # "idle" \/ MayBegin(p)
           /\ pc'[p] \in Elsewhere \/ (pc'[p] \in {"block", "edit"} /\ conf'[p] = None)
<1> USE DEF IInv, TypeOK, ProcInv, PlacesTyped, Elsewhere, PC, Lookup, Goto, MayBegin
<1>1. ASSUME NEW c, Start(p, c) PROVE pc'[p] \in {"refuse", "override", "block"}
                                      /\ conf' = conf /\ pc[p] = "idle" /\ MayBegin(p)
                                      /\ UNCHANGED serial
                                      /\ \A q \in Proc \ {p} : pc'[q] = pc[q]
  BY <1>1 DEF Start, Screening, loaded
<1>2. ASSUME NEW c, Allow(p, c) PROVE pc'[p] \in {"refuse", "edit", "save", "rule"}
                                      /\ conf' = conf /\ pc[p] = "ask"
                                      /\ UNCHANGED serial
                                      /\ \A q \in Proc \ {p} : pc'[q] = pc[q]
  BY <1>2 DEF Allow, AfterAllow, loaded
<1>3. CASE LoadForScript(p) \/ SaveForScript(p) \/ Finish(p)
  BY <1>3 DEF LoadForScript, SaveForScript, Finish, Exit
<1>4. CASE Stops(p)
  <2>1. pc' = [pc EXCEPT ![p] = "ended"] /\ UNCHANGED serial
    BY <1>4, StopsIsStop DEF Stop
  <2>2. pc[p] # "idle"
    BY <1>4 DEF Stops, Refuse, RevokeOverride, DenyOverride, OverrideNotShown, Block,
                NotShown, BlockEdit, LogDenial, Fail
  <2> QED
    BY <2>1, <2>2
<1>5. CASE GrantOverride(p) \/ RunOverride(p) \/ BlockWithReason(p) \/ PassEdit(p)
  BY <1>5 DEF GrantOverride, RunOverride, Launch, BlockWithReason, PassEdit, ReadGlobalRules
<1>6. CASE SkipRule(p) \/ SaveHashes(p) \/ Click(p) \/ SaveUnsynced(p)
  BY <1>6 DEF SkipRule, SaveHashes, Click, Launch, SaveUnsynced
<1>7. pc[p] \in {"idle", "ask"} => conf[p] = None
  OBVIOUS
<1> QED
  BY <1>1, <1>2, <1>3, <1>4, <1>5, <1>6, <1>7

LEMMA NextKeepsSerialInv ==
    ASSUME IInv, SerialInv, [Next]_vars
    PROVE  SerialInv'
<1>1. CASE UNCHANGED vars
  BY <1>1
  DEF vars, process, store, loaded, choice, SerialInv, OneAtATime, FreshCopy, Found,
      Unblocked, Undecided, BlocksIn, RulesIn
<1>2. CASE ResetAll \/ \E f \in RuleFiles : Trust(f)
  <2>1. UNCHANGED <<serial, pc>> /\ (serial => \A p \in Proc : pc[p] = "idle")
    BY <1>2 DEF ResetAll, Trust, process
  <2> QED
    BY <2>1 DEF SerialInv, OneAtATime, FreshCopy, Found, Lookup
<1>3. ASSUME NEW p \in Proc,
             \/ ReadProjectRules(p) \/ PassBlock(p) \/ CheckBlockAgain(p) \/ CheckAllowed(p)
             \/ LoadHashes(p) \/ LoadRules(p) \/ SaveRule(p)
             \/ \E c \in Command : Deny(p, c)
      PROVE  SerialInv'
  BY <1>3, LookupSerial, LoadHashesSerial, LoadRulesSerial, SaveRuleSerial, DenySerial
<1>4. ASSUME NEW p \in Proc,
             \/ \E c \in Command : Start(p, c) \/ Allow(p, c)
             \/ LoadForScript(p) \/ SaveForScript(p) \/ Finish(p)
             \/ Stops(p) \/ GrantOverride(p) \/ RunOverride(p)
             \/ BlockWithReason(p) \/ PassEdit(p)
             \/ SkipRule(p) \/ SaveHashes(p) \/ Click(p) \/ SaveUnsynced(p)
      PROVE  SerialInv'
  BY <1>4, StepLeaves, LeavingIsSerial
<1> QED
  BY <1>1, <1>2, <1>3, <1>4 DEF Next, Progress, Stops

LEMMA SpecSerialInv == Spec => []SerialInv
<1>1. Init => SerialInv
  BY DEF Init, SerialInv, OneAtATime, FreshCopy, Found, Lookup
<1> QED
  BY <1>1, NextKeepsSerialInv, SpecIInv, PTL DEF Spec

(* When processes take turns, nobody is asked about a command that a rule  *)
(* or an approval in the cache decides (cmd.py:823-921).                   *)
THEOREM SpecSerialAsksOnlyUndecided == Spec => []SerialAsksOnlyUndecided
<1>1. SerialInv => SerialAsksOnlyUndecided
  BY DEF SerialInv, Found, Undecided, SerialAsksOnlyUndecided
<1> QED
  BY <1>1, SpecSerialInv, PTL

(* Which processes can come from "saverule" to a place past the save. *)
LEMMA WhoSavesRule ==
    ASSUME IInv, [Next]_vars, NEW p \in Proc,
           pc[p] = "saverule", pc'[p] \in {"save", "deny", "unsynced"}
    PROVE  SaveRule(p) \/ SaveUnsynced(p)
<1>1. ~UNCHANGED pc
  OBVIOUS
<1>2. CASE ResetAll \/ (\E f \in RuleFiles : Trust(f)) \/ UNCHANGED vars
  BY <1>1, <1>2 DEF ResetAll, Trust, process, vars
<1>3. ASSUME NEW q \in Proc,
             \/ ReadProjectRules(q) \/ PassBlock(q) \/ CheckBlockAgain(q) \/ CheckAllowed(q)
             \/ LoadHashes(q) \/ LoadRules(q)
             \/ \E c \in Command : Deny(q, c)
      PROVE  pc[q] # "saverule" /\ \A o \in Proc \ {q} : pc'[o] = pc[o]
  BY <1>3
  DEF IInv, TypeOK, ReadProjectRules, PassBlock, CheckBlockAgain, CheckAllowed,
      ReadGlobalRules, LoadHashes, LoadRules, Deny, Launch, Goto, Lookup
<1>4. ASSUME NEW q \in Proc,
             \/ \E c \in Command : Start(q, c) \/ Allow(q, c)
             \/ LoadForScript(q) \/ SaveForScript(q) \/ Finish(q)
             \/ Stops(q) \/ GrantOverride(q) \/ RunOverride(q)
             \/ BlockWithReason(q) \/ PassEdit(q)
             \/ SkipRule(q) \/ SaveHashes(q) \/ Click(q)
      PROVE  /\ pc[q] # "saverule" \/ pc'[q] \notin {"save", "deny", "unsynced"}
             /\ \A o \in Proc \ {q} : pc'[o] = pc[o]
  <2>1. \A o \in Proc \ {q} : pc'[o] = pc[o]
    BY <1>4, StepLeaves
  <2>2. CASE Stops(q)
    <3>1. pc' = [pc EXCEPT ![q] = "ended"]
      BY <2>2, StopsIsStop DEF Stop, Goto
    <3> QED
      BY <2>1, <3>1 DEF IInv, TypeOK
  <2>3. CASE Finish(q)
    BY <2>1, <2>3 DEF IInv, TypeOK, Finish, Exit, Goto
  <2>4. CASE ~Stops(q) /\ ~Finish(q)
    <3>1. pc[q] # "saverule"
      BY <1>4, <2>4
      DEF Start, MayBegin, Allow, LoadForScript, SaveForScript, GrantOverride, RunOverride,
          BlockWithReason, PassEdit, ReadGlobalRules, SkipRule, SaveHashes, Click
    <3> QED
      BY <2>1, <3>1
  <2> QED
    BY <2>2, <2>3, <2>4
<1>5. ASSUME NEW q \in Proc, SaveRule(q) \/ SaveUnsynced(q)
      PROVE  \A o \in Proc \ {q} : pc'[o] = pc[o]
  BY <1>5 DEF IInv, TypeOK, SaveRule, SaveUnsynced, Goto
<1> QED
  BY <1>2, <1>3, <1>4, <1>5 DEF Next, Progress, Stops

(* When processes take turns, saving a rule adds that rule to the files    *)
(* and changes no other, even where the save then fails                    *)
(* (config.py:297-312, cmd.py:957-981, 1004-1022).                         *)
THEOREM SpecSerialRuleAdded == Spec => SerialRuleAdded
<1> DEFINE Added ==
      \A p \in Proc :
          serial /\ pc[p] = "saverule" /\ pc'[p] \in {"save", "deny", "unsynced"}
              => RulesIn(rules') = RulesIn(rules) \cup {wish[p]}
<1>1. IInv /\ SerialInv /\ [Next]_vars => Added
  <2> SUFFICES ASSUME IInv, SerialInv, [Next]_vars, NEW p \in Proc,
                      serial, pc[p] = "saverule", pc'[p] \in {"save", "deny", "unsynced"}
               PROVE  RulesIn(rules') = RulesIn(rules) \cup {wish[p]}
    OBVIOUS
  <2>1. SaveRule(p) \/ SaveUnsynced(p)
    BY WhoSavesRule
  <2>2. conf[p] = rules[wish[p].scope]
    BY DEF SerialInv, FreshCopy
  <2> QED
    BY <2>1, <2>2, SavedIsAdded
<1>2. IInv /\ SerialInv /\ [Next]_vars => [Added]_vars
  BY <1>1
<1>3. Spec => [][Added]_vars
  BY <1>2, SpecIInv, SpecSerialInv, PTL DEF Spec
<1> QED
  BY <1>3 DEF SerialRuleAdded

(* What the documentation says of a denial (docs/commands.md:117) the code *)
(* keeps when processes take turns: the run rules_kept shows that two at   *)
(* once break it.                                                          *)
THEOREM SpecRulesKeptSerially == Spec => [](serial => RulesKept)
<1>1. SerialInv => (serial => RulesKept)
  <2> SUFFICES ASSUME SerialInv, serial, NEW p \in Proc, pc[p] = "deny",
                      wish[p] \in [scope : {"global"}, list : List, pattern : Pattern]
               PROVE  wish[p] \in RulesIn(rules)
    BY DEF RulesKept
  <2>1. wish[p] \in Rule
    BY DEF Rule, Scope
  <2>2. wish[p] # None
    BY <2>1, NoneIsFresh
  <2> QED
    BY <2>2 DEF SerialInv, Found
<1> QED
  BY <1>1, SpecSerialInv, PTL

-------------------------------------------------------------------------------
(* CommandGate implements CommandPermit. *)

onceBar == [p \in Proc |-> IF pc[p] = "overruled" THEN cmd[p] ELSE None]
runningBar == [p \in Proc |-> IF pc[p] = "running" THEN run[p] ELSE None]

(* The steps that the abstract gate does not see. *)
LEMMA UnseenStep ==
    ASSUME IInv, NEW p \in Proc, UNCHANGED allowance,
           pc[p] \notin {"overruled", "running"}, pc'[p] \notin {"overruled", "running"},
           \A q \in Proc \ {p} : pc'[q] = pc[q] /\ cmd'[q] = cmd[q] /\ run'[q] = run[q]
    PROVE  UNCHANGED <<consent, granted, onceBar, runningBar>>
BY DEF allowance, onceBar, runningBar

(* A launch, with an agreement or with what the user overruled. *)
LEMMA LaunchIsLaunch ==
    ASSUME IInv, NEW p \in Proc, NEW a, NEW c \in Command, Launch(p, a, c),
           UNCHANGED <<cmd, allowance>>, pc[p] # "running",
           \/ c \in Authorized \cup ReadOnly \cup consent
           \/ \E q \in granted : Matches(q, c)
           \/ pc[p] = "overruled" /\ c = cmd[p]
    PROVE  Gate!Launch(p, c)
<1> USE DEF IInv, TypeOK, Launch, Goto, allowance
<1>1. onceBar' = [onceBar EXCEPT ![p] = None] /\ runningBar' = [runningBar EXCEPT ![p] = c]
  BY DEF onceBar, runningBar
<1>2. runningBar[p] = None
  BY DEF runningBar
<1>3. Gate!Agreed(c) \/ onceBar[p] = c
  BY DEF Gate!Agreed, onceBar
<1> QED
  BY <1>1, <1>2, <1>3 DEF Gate!Launch, onceBar, runningBar

(* The end of a call. *)
LEMMA EndIsFinish ==
    ASSUME IInv, NEW p \in Proc, UNCHANGED allowance,
           NEW place \in {"idle", "ended"}, Goto(p, place), Forget(p)
    PROVE  Gate!Finish(p)
BY DEF IInv, TypeOK, Goto, Forget, allowance, Gate!Finish

LEMMA AgreementIsAgree ==
    ASSUME UNCHANGED <<onceBar, runningBar>>, NEW C \in SUBSET Command, NEW Q \in SUBSET Pattern,
           consent' = consent \cup C, granted' = granted \cup Q
    PROVE  Gate!Next
BY DEF Gate!Next, Gate!Agree, onceBar, runningBar

LEMMA AllowAgrees ==
    ASSUME IInv, NEW p \in Proc, NEW c \in Command, Allow(p, c)
    PROVE  Gate!Next
<1>1. PICK w \in Wishes("allowed", c) :
        /\ granted' = IF w = None THEN granted ELSE granted \cup {w.pattern}
        /\ Goto(p, AfterAllow(p, c, w))
  BY DEF Allow
<1>2. w # None => w.pattern \in Pattern
  BY WishIsTyped DEF List, Rule
<1>3. \E Q \in SUBSET Pattern : granted' = granted \cup Q
  <2>1. CASE w = None
    <3>1. granted' = granted \cup {}
      BY <1>1, <2>1
    <3> QED
      BY <3>1
  <2>2. CASE w # None
    <3>1. granted' = granted \cup {w.pattern} /\ {w.pattern} \in SUBSET Pattern
      BY <1>1, <1>2, <2>2
    <3> QED
      BY <3>1
  <2> QED
    BY <2>1, <2>2
<1>4. consent' = consent \cup {c} /\ {c} \in SUBSET Command
  BY DEF Allow
<1>5. UNCHANGED <<onceBar, runningBar>>
  BY <1>1 DEF IInv, TypeOK, Allow, Goto, AfterAllow, onceBar, runningBar
<1> QED
  BY <1>3, <1>4, <1>5, AgreementIsAgree

LEMMA TrustAgrees ==
    ASSUME IInv, NEW f \in RuleFiles, Trust(f)
    PROVE  Gate!Next
<1>1. f["allowed"] \in SUBSET Pattern
  BY RuleFilesAreTyped DEF RuleFile, List
<1>2. consent' = consent \cup {} /\ granted' = granted \cup f["allowed"]
  BY DEF Trust
<1>3. UNCHANGED <<onceBar, runningBar>>
  BY DEF Trust, process, choice, onceBar, runningBar
<1> QED
  BY <1>1, <1>2, <1>3, AgreementIsAgree

LEMMA StepImplementsPermit ==
    ASSUME IInv, [Next]_vars
    PROVE  [Gate!Next]_(Gate!vars)
<1> DEFINE Unseen == UNCHANGED <<consent, granted, onceBar, runningBar>>
<1>1. Unseen => UNCHANGED Gate!vars
  BY DEF Gate!vars, onceBar, runningBar
<1>2. ASSUME NEW p \in Proc,
             Gate!Finish(p) \/ \E c \in Command : Gate!Overrule(p, c) \/ Gate!Launch(p, c)
      PROVE  Gate!Next
  BY <1>2 DEF Gate!Next
<1>3. ASSUME NEW p \in Proc, Stops(p) \/ Finish(p) PROVE Gate!Next
  <2>1. CASE Stops(p)
    BY <1>2, <2>1, StopsIsStop, EndIsFinish DEF Stop, store
  <2>2. CASE Finish(p)
    BY <1>2, <2>2, EndIsFinish DEF Finish, Exit
  <2> QED
    BY <1>3, <2>1, <2>2
<1>4. ASSUME NEW p \in Proc, GrantOverride(p) PROVE Gate!Next
  <2>1. PICK c \in Command : cmd[p] = c
    BY <1>4 DEF IInv, ProcInv, PlacesTyped, GrantOverride
  <2>2. /\ runningBar[p] = None
        /\ onceBar' = [onceBar EXCEPT ![p] = c]
        /\ UNCHANGED <<consent, granted, runningBar>>
    BY <1>4, <2>1
    DEF IInv, TypeOK, GrantOverride, Goto, history, allowance, onceBar, runningBar
  <2>3. Gate!Overrule(p, c)
    BY <2>2 DEF Gate!Overrule, onceBar, runningBar
  <2> QED
    BY <1>2, <2>3
<1>5. ASSUME NEW p \in Proc,
             \/ RunOverride(p) \/ Click(p)
             \/ PassBlock(p) /\ cmd[p] \in Authorized \cup ReadOnly
             \/ CheckAllowed(p) /\ Matched(p, "allowed", cmd[p])
             \/ LoadHashes(p) /\ cmd[p] \in hashes
      PROVE  Gate!Next
  <2>1. cmd[p] \in Command
    BY <1>5 DEF IInv, ProcInv, PlacesTyped, RunOverride, Click, PassBlock, CheckAllowed,
                LoadHashes, ReadGlobalRules
  <2>2. UNCHANGED <<cmd, allowance>> /\ pc[p] # "running"
    BY <1>5 DEF RunOverride, Click, PassBlock, CheckAllowed, LoadHashes, ReadGlobalRules,
                store, history
  <2>3. CASE RunOverride(p)
    BY <1>2, <2>1, <2>2, <2>3, LaunchIsLaunch DEF RunOverride
  <2>4. CASE Click(p)
    <3>1. run[p] \in consent /\ run[p] \in Command
      BY <2>4 DEF IInv, TypeOK, ProcInv, UserBehind, Approved, Passed, Click
    <3> QED
      BY <1>2, <2>2, <2>4, <3>1, LaunchIsLaunch DEF Click
  <2>5. CASE PassBlock(p) /\ cmd[p] \in Authorized \cup ReadOnly
    <3>1. \E a \in {"operation", "semantic"} : Launch(p, a, cmd[p])
      BY <2>5 DEF PassBlock
    <3> QED
      BY <1>2, <2>1, <2>2, <2>5, <3>1, LaunchIsLaunch
  <2>6. CASE CheckAllowed(p) /\ Matched(p, "allowed", cmd[p])
    <3>1. \E q \in granted : Matches(q, cmd[p])
      BY <2>6, MatchedIsGranted DEF CheckAllowed, ReadGlobalRules
    <3> QED
      BY <1>2, <2>1, <2>2, <2>6, <3>1, LaunchIsLaunch DEF CheckAllowed
  <2>7. CASE LoadHashes(p) /\ cmd[p] \in hashes
    <3>1. cmd[p] \in consent
      BY <2>7 DEF IInv, StoreInv
    <3> QED
      BY <1>2, <2>1, <2>2, <2>7, <3>1, LaunchIsLaunch DEF LoadHashes
  <2> QED
    BY <1>5, <2>3, <2>4, <2>5, <2>6, <2>7
<1>6. ASSUME NEW p \in Proc,
             \/ \E c \in Command : Start(p, c) \/ Deny(p, c)
             \/ ReadProjectRules(p) \/ BlockWithReason(p)
             \/ PassBlock(p) /\ cmd[p] \notin Authorized \cup ReadOnly
             \/ CheckBlockAgain(p)
             \/ CheckAllowed(p) /\ ~Matched(p, "allowed", cmd[p])
             \/ LoadHashes(p) /\ cmd[p] \notin hashes
             \/ PassEdit(p) \/ SkipRule(p) \/ LoadRules(p) \/ SaveRule(p)
             \/ SaveHashes(p) \/ SaveUnsynced(p) \/ LoadForScript(p) \/ SaveForScript(p)
      PROVE  Unseen
  <2>1. UNCHANGED allowance
    BY <1>6
    DEF Start, Deny, ReadProjectRules, BlockWithReason, PassBlock, CheckBlockAgain,
        CheckAllowed, LoadHashes, PassEdit, SkipRule, LoadRules, SaveRule, RecordRule,
        SaveHashes, SaveUnsynced, LoadForScript, SaveForScript, ReadGlobalRules, history
  <2> USE DEF IInv, TypeOK, Goto, Lookup
  <2>2. pc[p] \notin {"overruled", "running"}
    BY <1>6
    DEF Start, MayBegin, Deny, ReadProjectRules, BlockWithReason, PassBlock, CheckBlockAgain,
        CheckAllowed, LoadHashes, PassEdit, SkipRule, LoadRules, SaveRule, SaveHashes,
        SaveUnsynced, LoadForScript, SaveForScript, ReadGlobalRules
  <2>3. /\ pc'[p] \notin {"overruled", "running"}
        /\ \A q \in Proc \ {p} : pc'[q] = pc[q]
    <3>1. CASE \/ \E c \in Command : Start(p, c) \/ Deny(p, c)
               \/ ReadProjectRules(p) \/ BlockWithReason(p) \/ CheckBlockAgain(p)
               \/ PassEdit(p) \/ SkipRule(p)
      BY <3>1
      DEF Start, Screening, Deny, ReadProjectRules, BlockWithReason, CheckBlockAgain,
          PassEdit, SkipRule, ReadGlobalRules
    <3>2. CASE \/ PassBlock(p) /\ cmd[p] \notin Authorized \cup ReadOnly
               \/ CheckAllowed(p) /\ ~Matched(p, "allowed", cmd[p])
               \/ LoadHashes(p) /\ cmd[p] \notin hashes
      BY <3>2 DEF PassBlock, CheckAllowed, LoadHashes
    <3>3. CASE \/ LoadRules(p) \/ SaveRule(p) \/ SaveHashes(p) \/ SaveUnsynced(p)
               \/ LoadForScript(p) \/ SaveForScript(p)
      BY <3>3 DEF LoadRules, SaveRule, SaveHashes, SaveUnsynced, LoadForScript, SaveForScript
    <3> QED
      BY <1>6, <3>1, <3>2, <3>3
  <2>4. \A q \in Proc \ {p} : cmd'[q] = cmd[q] /\ run'[q] = run[q]
    BY <1>6
    DEF Start, Deny, ReadProjectRules, BlockWithReason, PassBlock, CheckBlockAgain,
        CheckAllowed, LoadHashes, PassEdit, SkipRule, LoadRules, SaveRule, SaveHashes,
        SaveUnsynced, LoadForScript, SaveForScript, ReadGlobalRules, choice
  <2> QED
    BY <2>1, <2>2, <2>3, <2>4, UnseenStep
<1>7. CASE UNCHANGED vars \/ ResetAll
  <2>1. Unseen
    BY <1>7 DEF vars, ResetAll, process, choice, history, allowance, onceBar, runningBar
  <2> QED
    BY <1>1, <2>1
<1>8. CASE Next
  BY <1>1, <1>3, <1>4, <1>5, <1>6, <1>7, <1>8, AllowAgrees, TrustAgrees
  DEF Next, Progress, Stops
<1> QED
  BY <1>7, <1>8

(* The gate keeps the promise: every behaviour of CommandGate is one of    *)
(* CommandPermit.                                                          *)
THEOREM SpecImplementsCommandPermit == Spec => ImplementsCommandPermit
<1>1. Init => Gate!Init
  <2>1. ASSUME Init PROVE granted \in SUBSET Pattern
    BY <2>1, InitIInv DEF IInv, TypeOK
  <2> QED
    BY <2>1 DEF Init, Gate!Init
<1>2. IInv /\ [Next]_vars => [Gate!Next]_(Gate!vars)
  BY StepImplementsPermit
<1> QED
  BY <1>1, <1>2, SpecIInv, PTL DEF Spec, Gate!Spec, ImplementsCommandPermit
===============================================================================
