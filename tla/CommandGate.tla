------------------------------ MODULE CommandGate ------------------------------
(***************************************************************************)
(* `ozm cmd` and `ozm gh` (_cmd_impl of src/ozm/cmd.py) with the rule      *)
(* files of src/ozm/config.py.  A command is screened, looked up in the    *)
(* project's and the global rules and in the approval cache, and shown to  *)
(* the user when nothing else decides.  The user may edit it and may leave *)
(* a rule behind.  Several processes share two rule files and one cache,   *)
(* with no lock.                                                           *)
(*                                                                         *)
(* One pc value stands between two accesses to shared state; a rule lookup *)
(* reads the project's file and then the global one, in two steps.  An     *)
(* audit entry is written with the step that decides.  No path looks twice *)
(* for --reason, so whether it was given is chosen where it is looked for. *)
(* What a process no longer uses it no longer has.                         *)
(*                                                                         *)
(* History variables (not in the code): consent, granted, standing.        *)
(*                                                                         *)
(* An operator named Action_Fault is Action with a plausible defect.  No   *)
(* specification uses it; it shows which property would catch the defect.  *)
(***************************************************************************)
CONSTANTS
    Proc,          \* slots in which an ozm process may run
    Command,       \* commands of one project, in their shlex.join form
    Pattern,       \* rules the user may write
    Matches(_,_),  \* Matches(q, c): command c matches pattern q
    Exact(_),      \* a command taken as a pattern; it need not match itself
    NeverAllowed,  \* patterns add_allowed_command refuses
    GitHub,        \* commands that come through `ozm gh`, the others through `ozm cmd`
    Misrouted,     \* refused on entry: scripts, inline code, bare env, git, ...
    Disallowed,    \* refused on entry and after an edit: sed, rg --pre, raw gh writes
    Temporary,     \* what they run lies under a temporary directory
    Chmod,         \* refused when its target was modified within ten minutes
    Authorized,    \* typed GitHub operations the configuration authorizes
    ReadOnly,      \* recognized by the semantic classifiers
    RuleFiles,     \* what a rule file may hold to begin with, or bring with `ozm trust`
    None

Scope == {"project", "global"}
List == {"allowed", "blocked"}
RuleFile == [List -> SUBSET Pattern]
Rule == [scope : Scope, list : List, pattern : Pattern]

ASSUME ExactIsPattern == \A c \in Command : Exact(c) \in Pattern
ASSUME RuleFilesAreTyped == RuleFiles \subseteq RuleFile
ASSUME NoneIsFresh == None \notin Command \cup RuleFile \cup Rule

VARIABLES
    serial,    \* TRUE when the agent waits for one ozm process to end before the next
    rules,     \* rules[scope][list]: the two configuration files
    hashes,    \* the commands that have their entry in hashes.yaml
    pc,        \* where each process is
    cmd,       \* the command it was given
    conf,      \* a rule file it has loaded
    table,     \* the cache it loaded
    run,       \* the command it is to run, as the user left it
    wish,      \* the rule the user asked it to save
    logged,    \* its audit entry: what was decided, about which command
    answer,    \* what its dialog came to
    consent,   \* commands the user has ever allowed in a command dialog
    granted,   \* patterns the user has ever allowed, in a rule file or a dialog
    standing   \* standing[p]: block rules in force ever since p began

store == <<rules, hashes>>
loaded == <<conf, table>>
choice == <<run, wish, answer>>
process == <<pc, cmd, loaded, choice, logged>>
allowance == <<consent, granted>>
history == <<allowance, standing>>
vars == <<serial, store, process, history>>

Permit == {"override", "operation", "semantic", "config", "cached", "clicked"}
AuditAction == Permit \cup {"blocked", "denied", "no-dialog", "error"}
Lookup == {"block", "reblock", "allow", "edit"}
PC == Lookup \cup {"idle", "refuse", "override", "overruled", "cache", "ask", "rule",
                   "saverule", "save", "unsynced", "click", "deny", "script",
                   "running", "ended"}

TypeOK ==
    /\ serial \in BOOLEAN
    /\ rules \in [Scope -> RuleFile]
    /\ hashes \subseteq Command
    /\ pc \in [Proc -> PC]
    /\ cmd \in [Proc -> Command \cup {None}]
    /\ conf \in [Proc -> RuleFile \cup {None}]
    /\ table \in [Proc -> SUBSET Command]
    /\ run \in [Proc -> Command \cup {None}]
    /\ wish \in [Proc -> Rule \cup {None}]
    /\ logged \in [Proc -> [action : AuditAction \cup {None}, command : Command \cup {None}]]
    /\ answer \in [Proc -> {"allow", "deny", "nodialog", None}]
    /\ consent \subseteq Command
    /\ granted \subseteq Pattern
    /\ standing \in [Proc -> SUBSET Rule]

RulesIn(rs) == {r \in Rule : r.pattern \in rs[r.scope][r.list]}
BlocksIn(rs) == {r \in RulesIn(rs) : r.list = "blocked"}
NoEntry == [action |-> None, command |-> None]

Init ==
    /\ serial \in BOOLEAN
    /\ rules \in [Scope -> RuleFiles]
    /\ hashes = {}
    /\ pc = [p \in Proc |-> "idle"]
    /\ cmd = [p \in Proc |-> None]
    /\ conf = [p \in Proc |-> None]
    /\ table = [p \in Proc |-> {}]
    /\ run = [p \in Proc |-> None]
    /\ wish = [p \in Proc |-> None]
    /\ logged = [p \in Proc |-> NoEntry]
    /\ answer = [p \in Proc |-> None]
    /\ consent = {}
    /\ granted = {r.pattern : r \in RulesIn(rules) \ BlocksIn(rules)}
    /\ standing = [p \in Proc |-> {}]

-------------------------------------------------------------------------------
(* Steps every process shares. *)

Goto(p, place) == pc' = [pc EXCEPT ![p] = place]

Log(p, action, c) == logged' = [logged EXCEPT ![p] = [action |-> action, command |-> c]]

(* It has no more use for what it holds. *)
Forget(p) ==
    /\ cmd' = [cmd EXCEPT ![p] = None]
    /\ conf' = [conf EXCEPT ![p] = None]
    /\ table' = [table EXCEPT ![p] = {}]
    /\ run' = [run EXCEPT ![p] = None]
    /\ wish' = [wish EXCEPT ![p] = None]
    /\ standing' = [standing EXCEPT ![p] = {}]

(* It reports a decision against the command, and runs nothing. *)
Stop(p, action, c) ==
    /\ Goto(p, "ended")
    /\ Log(p, action, c)
    /\ Forget(p)
    /\ UNCHANGED serial

(* It logs why the command may run, and runs it. *)
Launch(p, action, c) ==
    /\ Goto(p, "running")
    /\ Log(p, action, c)
    /\ run' = [run EXCEPT ![p] = c]

Exit(p) ==
    /\ Goto(p, "idle")
    /\ Forget(p)
    /\ logged' = [logged EXCEPT ![p] = NoEntry]
    /\ answer' = [answer EXCEPT ![p] = None]

MayBegin(p) ==
    /\ pc[p] = "idle"
    /\ serial => \A q \in Proc : pc[q] = "idle"

-------------------------------------------------------------------------------
(* Before the rules are read. *)

(* Where a command may get before the rules are read.  A temporary         *)
(* executable needs --reason, and a chmod of a new file its flag.          *)
Screening(c) ==
    {place \in {"refuse", "override", "block"} :
        CASE place = "refuse" -> c \in Misrouted \cup Disallowed \cup Temporary \cup Chmod
          [] place = "override" -> c \in Temporary \ Misrouted
          [] place = "block" -> c \notin Misrouted \cup Disallowed \cup Temporary}

Start(p, c) ==
    /\ MayBegin(p)
    /\ \E place \in Screening(c) : Goto(p, place)
    /\ cmd' = [cmd EXCEPT ![p] = c]
    /\ standing' = [standing EXCEPT ![p] = BlocksIn(rules)]
    /\ UNCHANGED <<serial, store, loaded, choice, logged, allowance>>

AtHand(p) == IF run[p] = None THEN cmd[p] ELSE run[p]

Refuse(p) ==
    /\ pc[p] = "refuse"
    /\ Stop(p, "blocked", AtHand(p))
    /\ UNCHANGED <<store, answer, allowance>>

-------------------------------------------------------------------------------
(* The one-time override. *)

GrantOverride(p) ==
    /\ pc[p] = "override"
    /\ Goto(p, "overruled")
    /\ answer' = [answer EXCEPT ![p] = "allow"]
    /\ UNCHANGED <<serial, store, cmd, loaded, run, wish, logged, history>>

RunOverride_Remembers(p) ==
    /\ pc[p] = "overruled"
    /\ Launch(p, "override", cmd[p])
    /\ hashes' = hashes \cup {cmd[p]}
    /\ UNCHANGED <<serial, rules, cmd, loaded, wish, answer, history>>

RunOverride(p) ==
    /\ pc[p] = "overruled"
    /\ Launch(p, "override", cmd[p])
    /\ UNCHANGED <<serial, store, cmd, loaded, wish, answer, history>>

(* The temporary executable is no longer the one the user was shown. *)
RevokeOverride(p) ==
    /\ pc[p] = "overruled"
    /\ cmd[p] \in Temporary
    /\ Stop(p, "blocked", cmd[p])
    /\ UNCHANGED <<store, answer, allowance>>

DenyOverride(p) ==
    /\ pc[p] = "override"
    /\ Stop(p, "denied", cmd[p])
    /\ answer' = [answer EXCEPT ![p] = "deny"]
    /\ UNCHANGED <<store, allowance>>

(* A dialog that could not be shown is logged as such for a temporary      *)
(* executable, and as a denial where a rule blocks the command.            *)
OverrideNotShown(p) ==
    /\ pc[p] = "override"
    /\ Stop(p, IF cmd[p] \in Temporary THEN "no-dialog" ELSE "denied", cmd[p])
    /\ answer' = [answer EXCEPT ![p] = "nodialog"]
    /\ UNCHANGED <<store, allowance>>

-------------------------------------------------------------------------------
(* Rules. *)

ReadProjectRules(p) ==
    /\ pc[p] \in Lookup
    /\ conf[p] = None
    /\ conf' = [conf EXCEPT ![p] = rules["project"]]
    /\ UNCHANGED <<serial, store, pc, cmd, table, choice, logged, history>>

ReadGlobalRules(p, place) ==
    /\ pc[p] = place
    /\ conf[p] # None
    /\ conf' = [conf EXCEPT ![p] = None]
    /\ UNCHANGED <<serial, store, cmd, table, wish, answer, history>>

Matched_ProjectOnly(p, list, c) == \E q \in conf[p][list] : Matches(q, c)

(* A pattern of the project's file, as loaded, or of the global file now. *)
Matched(p, list, c) == \E q \in conf[p][list] \cup rules["global"][list] : Matches(q, c)

Block(p) ==
    /\ pc[p] = "block"
    /\ conf[p] # None
    /\ Matched(p, "blocked", cmd[p])
    /\ Stop(p, "blocked", cmd[p])
    /\ UNCHANGED <<store, answer, allowance>>

(* With --reason the user may overrule the rule. *)
BlockWithReason(p) ==
    /\ ReadGlobalRules(p, "block")
    /\ Matched(p, "blocked", cmd[p])
    /\ Goto(p, "override")
    /\ UNCHANGED <<run, logged>>

PassBlock(p) ==
    /\ ReadGlobalRules(p, "block")
    /\ ~Matched(p, "blocked", cmd[p])
    /\ CASE cmd[p] \in Authorized -> Launch(p, "operation", cmd[p])
         [] cmd[p] \in ReadOnly \ Authorized -> Launch(p, "semantic", cmd[p])
         [] OTHER -> Goto(p, "reblock") /\ UNCHANGED <<run, logged>>

(* is_command_allowed looks at the block rules once more. *)
CheckBlockAgain(p) ==
    /\ ReadGlobalRules(p, "reblock")
    /\ Goto(p, IF Matched(p, "blocked", cmd[p]) THEN "cache" ELSE "allow")
    /\ UNCHANGED <<run, logged>>

CheckAllowed(p) ==
    /\ ReadGlobalRules(p, "allow")
    /\ IF Matched(p, "allowed", cmd[p])
       THEN Launch(p, "config", cmd[p])
       ELSE Goto(p, "cache") /\ UNCHANGED <<run, logged>>

-------------------------------------------------------------------------------
(* The cache and the dialog. *)

LoadHashes_AnyEntry(p) ==
    /\ pc[p] = "cache"
    /\ IF hashes # {}
       THEN Launch(p, "cached", cmd[p]) /\ UNCHANGED table
       ELSE Goto(p, "ask") /\ UNCHANGED <<table, run, logged>>
    /\ UNCHANGED <<serial, store, cmd, conf, wish, answer, history>>

(* A hit runs the command; after a miss the table is kept, to be saved.    *)
LoadHashes(p) ==
    /\ pc[p] = "cache"
    /\ IF cmd[p] \in hashes
       THEN Launch(p, "cached", cmd[p]) /\ UNCHANGED table
       ELSE Goto(p, "ask") /\ table' = [table EXCEPT ![p] = hashes] /\ UNCHANGED <<run, logged>>
    /\ UNCHANGED <<serial, store, cmd, conf, wish, answer, history>>

(* The rule the user leaves in the dialog: none, a pattern, or, where the  *)
(* pattern is blank and the rule is to be global, the command itself.      *)
Wishes(list, c) ==
    {None} \cup [scope : Scope, list : {list}, pattern : Pattern]
           \cup {[scope |-> "global", list |-> list, pattern |-> Exact(c)]}

KeepsFamily(p, c) == c \in GitHub <=> cmd[p] \in GitHub

AfterAllow_TrustsEdit(p, c, w) ==
    IF c \in Disallowed \/ ~KeepsFamily(p, c) THEN "refuse"
    ELSE IF w = None THEN "save" ELSE "rule"

(* An edit may not change the family, what is disallowed remains so, and   *)
(* the block rules are looked up again.                                    *)
AfterAllow(p, c, w) ==
    IF c \in Disallowed \/ ~KeepsFamily(p, c) THEN "refuse"
    ELSE IF c # cmd[p] THEN "edit"
    ELSE IF w = None THEN "save" ELSE "rule"

Allow(p, c) ==
    /\ pc[p] = "ask"
    /\ answer' = [answer EXCEPT ![p] = "allow"]
    /\ run' = [run EXCEPT ![p] = c]
    /\ consent' = consent \cup {c}
    /\ \E w \in Wishes("allowed", c) :
         /\ wish' = [wish EXCEPT ![p] = w]
         /\ granted' = IF w = None THEN granted ELSE granted \cup {w.pattern}
         /\ Goto(p, AfterAllow(p, c, w))
    /\ UNCHANGED <<serial, store, cmd, loaded, logged, standing>>

Deny(p, c) ==
    /\ pc[p] = "ask"
    /\ answer' = [answer EXCEPT ![p] = "deny"]
    /\ table' = [table EXCEPT ![p] = {}]
    /\ \E w \in Wishes("blocked", c) :
         /\ wish' = [wish EXCEPT ![p] = w]
         /\ Goto(p, IF w = None THEN "deny" ELSE "rule")
    /\ UNCHANGED <<serial, store, cmd, conf, run, logged, history>>

NotShown(p) ==
    /\ pc[p] = "ask"
    /\ Stop(p, "no-dialog", cmd[p])
    /\ answer' = [answer EXCEPT ![p] = "nodialog"]
    /\ UNCHANGED <<store, allowance>>

-------------------------------------------------------------------------------
(* After the dialog. *)

BlockEdit(p) ==
    /\ pc[p] = "edit"
    /\ conf[p] # None
    /\ Matched(p, "blocked", run[p]) \/ run[p] \in Chmod
    /\ Stop(p, "blocked", run[p])
    /\ UNCHANGED <<store, answer, allowance>>

PassEdit(p) ==
    /\ ReadGlobalRules(p, "edit")
    /\ ~Matched(p, "blocked", run[p])
    /\ Goto(p, IF wish[p] = None THEN "save" ELSE "rule")
    /\ UNCHANGED <<run, logged>>

(* _add_command_pattern: load the file, add the pattern, write it back. *)
SkipRule(p) ==
    /\ pc[p] = "rule"
    /\ wish[p].list = "allowed"
    /\ wish[p].pattern \in NeverAllowed
    /\ Goto(p, "save")
    /\ UNCHANGED <<serial, store, cmd, loaded, choice, logged, history>>

LoadRules(p) ==
    /\ pc[p] = "rule"
    /\ wish[p].list = "blocked" \/ wish[p].pattern \notin NeverAllowed
    /\ conf' = [conf EXCEPT ![p] = rules[wish[p].scope]]
    /\ Goto(p, "saverule")
    /\ UNCHANGED <<serial, store, cmd, table, choice, logged, history>>

StoreRules(rs) ==
    /\ rules' = rs
    /\ standing' = [q \in Proc |-> standing[q] \cap BlocksIn(rs)]

WithRule_ListOnly(p) ==
    [l \in List |-> IF l = wish[p].list THEN conf[p][l] \cup {wish[p].pattern} ELSE {}]

WithRule_AddsWish(p) == [conf[p] EXCEPT ![wish[p].list] = @ \cup {wish[p]}]

WithRule(p) == [conf[p] EXCEPT ![wish[p].list] = @ \cup {wish[p].pattern}]

RecordRule(p) ==
    /\ StoreRules([rules EXCEPT ![wish[p].scope] = WithRule(p)])
    /\ UNCHANGED <<hashes, allowance>>

(* A pattern that is already there is not written again. *)
SaveRule(p) ==
    /\ pc[p] = "saverule"
    /\ IF wish[p].pattern \in conf[p][wish[p].list]
       THEN UNCHANGED <<store, history>>
       ELSE RecordRule(p)
    /\ conf' = [conf EXCEPT ![p] = None]
    /\ Goto(p, IF answer[p] = "allow" THEN "save" ELSE "deny")
    /\ UNCHANGED <<serial, cmd, table, choice, logged>>

(* The cache loaded before the dialog is written back whole. *)
SaveHashes(p) ==
    /\ pc[p] = "save"
    /\ hashes' = table[p] \cup {run[p]}
    /\ table' = [table EXCEPT ![p] = {}]
    /\ wish' = [wish EXCEPT ![p] = None]
    /\ Goto(p, "click")
    /\ UNCHANGED <<serial, rules, cmd, conf, run, answer, logged, history>>

Click_LogsGiven(p) ==
    /\ pc[p] = "click"
    /\ Goto(p, "running")
    /\ Log(p, "clicked", cmd[p])
    /\ UNCHANGED <<serial, store, cmd, loaded, choice, history>>

Click(p) ==
    /\ pc[p] = "click"
    /\ Launch(p, "clicked", run[p])
    /\ UNCHANGED <<serial, store, cmd, loaded, wish, answer, history>>

LogDenial(p) ==
    /\ pc[p] = "deny"
    /\ Stop(p, "denied", cmd[p])
    /\ UNCHANGED <<store, answer, allowance>>

-------------------------------------------------------------------------------
(* Failures, and the rest of the world. *)

(* A file of ~/.ozm cannot be loaded or saved.  (While an edit is looked   *)
(* up, that ends the process with no entry: Finish.)                       *)
Fail(p) ==
    /\ pc[p] \in (Lookup \ {"edit"}) \cup {"cache", "rule", "saverule", "save", "unsynced"}
    /\ Stop(p, "error", AtHand(p))
    /\ UNCHANGED <<store, answer, allowance>>

(* A save raises after it has replaced the file: then it fails. *)
SaveUnsynced(p) ==
    /\ \/ /\ pc[p] = "saverule"
          /\ wish[p].pattern \notin conf[p][wish[p].list]
          /\ RecordRule(p)
       \/ /\ pc[p] = "save"
          /\ hashes' = table[p] \cup {run[p]}
          /\ UNCHANGED <<rules, history>>
    /\ Goto(p, "unsynced")
    /\ conf' = [conf EXCEPT ![p] = None]
    /\ table' = [table EXCEPT ![p] = {}]
    /\ wish' = [wish EXCEPT ![p] = None]
    /\ UNCHANGED <<serial, cmd, run, answer, logged>>

(* The command or the process ends, or is killed.  (`ozm cmd git` and      *)
(* inline code are refused this way, with no entry.)                       *)
Finish(p) ==
    /\ pc[p] # "idle"
    /\ Exit(p)
    /\ UNCHANGED <<serial, store, allowance>>

(* `ozm reset --all` leaves no command of the project in the cache. *)
ResetAll ==
    /\ serial => \A p \in Proc : pc[p] = "idle"
    /\ hashes # {}
    /\ hashes' = {}
    /\ UNCHANGED <<serial, rules, process, history>>

(* `ozm run` and `ozm reset SCRIPT` write back the whole cache as they     *)
(* loaded it, but for an entry of their own that is no command's.          *)
LoadForScript(p) ==
    /\ MayBegin(p)
    /\ Goto(p, "script")
    /\ table' = [table EXCEPT ![p] = hashes]
    /\ UNCHANGED <<serial, store, cmd, conf, choice, logged, history>>

SaveForScript(p) ==
    /\ pc[p] = "script"
    /\ hashes' = table[p]
    /\ table' = [table EXCEPT ![p] = {}]
    /\ Goto(p, "ended")
    /\ UNCHANGED <<serial, rules, cmd, conf, choice, logged, history>>

(* `ozm trust` puts the repository's rules in the place of the project's.  *)
Trust(f) ==
    /\ serial => \A p \in Proc : pc[p] = "idle"
    /\ StoreRules([rules EXCEPT !["project"] = f])
    /\ granted' = granted \cup f["allowed"]
    /\ UNCHANGED <<serial, hashes, process, consent>>

(* Everything a process that has begun can do next. *)
Progress(p) ==
    \/ Refuse(p)
    \/ GrantOverride(p) \/ RunOverride(p) \/ RevokeOverride(p)
    \/ DenyOverride(p) \/ OverrideNotShown(p)
    \/ ReadProjectRules(p) \/ Block(p) \/ BlockWithReason(p) \/ PassBlock(p)
    \/ CheckBlockAgain(p) \/ CheckAllowed(p) \/ LoadHashes(p)
    \/ NotShown(p)
    \/ BlockEdit(p) \/ PassEdit(p)
    \/ SkipRule(p) \/ LoadRules(p) \/ SaveRule(p)
    \/ SaveHashes(p) \/ Click(p) \/ LogDenial(p)
    \/ Fail(p) \/ SaveUnsynced(p) \/ SaveForScript(p)

Next ==
    \/ \E p \in Proc :
         \/ \E c \in Command : Start(p, c) \/ Allow(p, c) \/ Deny(p, c)
         \/ LoadForScript(p)
         \/ Progress(p)
         \/ Finish(p)
    \/ ResetAll
    \/ \E f \in RuleFiles : Trust(f)

Spec == Init /\ [][Next]_vars

-------------------------------------------------------------------------------
(* Properties. *)

(* A block rule that is in force from before a command is given until it   *)
(* runs stops it, whichever way it would have been let through and however *)
(* the user edited it: only the user's override of that very call passes   *)
(* (cmd.py:823-846, 947-952, config.py:265-282).                           *)
StandingBlockStops ==
    \A p \in Proc :
        pc[p] = "running" /\ logged[p].action # "override"
            => \A r \in standing[p] : ~Matches(r.pattern, run[p])

(* The cache, and every copy of it that may be written back, holds only    *)
(* commands the user has allowed in a command dialog: an override is never *)
(* remembered (cmd.py:838-842, 982-992, README.md:140).                    *)
CacheConsented ==
    /\ hashes \subseteq consent
    /\ \A p \in Proc : table[p] \subseteq consent

(* The audit entry of what runs names that command, as the user left it,   *)
(* and the true reason why it may run (cmd.py:839, 868, 883, 901, 918, 993).*)
Explains(p) ==
    LET a == logged[p].action
    IN  /\ logged[p].command = run[p]
        /\ a \in Permit
        /\ a = "override" => answer[p] = "allow"
        /\ a = "operation" => run[p] \in Authorized
        /\ a = "semantic" => run[p] \in ReadOnly
        /\ a = "config" => \E q \in granted : Matches(q, run[p])
        /\ a \in {"cached", "clicked"} => run[p] \in consent

AuditTellsWhy == \A p \in Proc : pc[p] = "running" => Explains(p)

(* When one ozm process runs at a time, saving a rule adds that rule to    *)
(* the rule files and changes no other, whichever list and file it goes to *)
(* and even if the save then fails (config.py:297-312, cmd.py:957-981,     *)
(* 1004-1022).                                                             *)
SerialRuleAdded ==
    [][\A p \in Proc :
          serial /\ pc[p] = "saverule" /\ pc'[p] \in {"save", "deny", "unsynced"}
              => RulesIn(rules') = RulesIn(rules) \cup {wish[p]}]_vars

(* And the user is never asked about a command that a rule or an approval  *)
(* in the cache decides (cmd.py:823-921).                                  *)
SerialAsksOnlyUndecided ==
    \A p \in Proc : serial /\ pc[p] = "ask" =>
        /\ cmd[p] \notin hashes
        /\ \A r \in RulesIn(rules) : ~Matches(r.pattern, cmd[p])

(* What runs, and what the user has agreed to.                             *)
Gate == INSTANCE CommandPermit WITH
    Safe <- Authorized \cup ReadOnly,
    once <- [p \in Proc |-> IF pc[p] = "overruled" THEN cmd[p] ELSE None],
    running <- [p \in Proc |-> IF pc[p] = "running" THEN run[p] ELSE None]

ImplementsCommandPermit == Gate!Spec

-------------------------------------------------------------------------------
(* What the documentation says and the code does not keep. *)

(* docs/commands.md:117: "If you click Deny, the pattern is saved as a     *)
(* blocklist rule."  (Of a global rule, which no `ozm trust` replaces.)    *)
RulesKept ==
    \A p \in Proc :
        pc[p] = "deny" /\ wish[p] \in [scope : {"global"}, list : List, pattern : Pattern]
            => wish[p] \in RulesIn(rules)
===============================================================================
