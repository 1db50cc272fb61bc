----------------------------- MODULE GitHubWrites -----------------------------
(***************************************************************************)
(* `ozm gh` where it writes to GitHub (_cmd_impl and                       *)
(* _review_and_execute_issue_batch of src/ozm/cmd.py, github_operations.py,*)
(* github_operation_allowed of config.py): the typed operations, the raw   *)
(* requests refused in their favour, and the batch of issues that is       *)
(* frozen, reviewed once and then created issue by issue.  The block rules *)
(* and what follows when nothing here decides are CommandGate's; here they *)
(* are the actions Blocked, Overrule, GateAllows and GateStops.            *)
(*                                                                         *)
(* While a call goes on, the agent may rewrite the manifest and the files  *)
(* with the texts, and the user the authorized operations.  gh and GitHub  *)
(* are external: a change that was sent may arrive or be lost, and whether *)
(* it did or not, gh may fail.  A call may be killed at any time; what it  *)
(* has sent may arrive all the same.                                       *)
(*                                                                         *)
(* History variables (not in the code): agreed, authorized.                *)
(*                                                                         *)
(* An operator named Action_Fault is Action with a plausible defect.  No   *)
(* specification uses it; it shows which property would catch the defect.  *)
(***************************************************************************)
EXTENDS GitHubRequests

CONSTANTS
    Call,       \* slots in which a process of `ozm gh` may run
    Request,    \* what may be asked for, [verb, words]
    Title,      \* titles of issues
    File,       \* files that may hold the text of an issue or a reply
    Text,       \* what such a file may hold
    Missing,    \* held by a file that is not there
    Unfit,      \* a link, more than 1 MiB, not UTF-8: no text of an issue
    Manifests,  \* what the manifest may hold: <<>> stands for all it may not
    MaxIssues,  \* MAX_BATCH_ISSUES
    Policies,   \* what github.allowed_operations of a rule file may hold
    Folded(_),  \* a repository's name in lower case
    None

Typed == {"pr.review-reply", "issue.add-sub-issue"}
Verb == Typed \cup {"issue.create-batch", "view", "api"}
Scope == {"project", "global"}
Permission == [operation : Typed, repository : {Folded(r) : r \in Repository}]
Entry == [title : Title, file : File]
Issue == [title : Title, text : Text]
Change == [op : Typed \cup {"issue", "api"},
           where : Repository \cup {"graphql"} \cup Target \cup GetOnly,
           title : Title \cup {""},
           text : Text \cup {Unfit, ""}]
Action == {"override", "operation", "semantic", "config", "cached", "clicked",
           "blocked", "denied", "no-dialog", "error"}

ASSUME MaxIssuesIsPositive == MaxIssues \in Nat \ {0}
ASSUME ManifestsAreTyped == Manifests \subseteq Seq(Entry)
ASSUME PoliciesAreTyped == Policies \subseteq SUBSET Permission
ASSUME RequestsAreTyped ==
    \A r \in Request :
        /\ r.verb \in Verb
        /\ r.words \in Seq(Argument)
        /\ \A i \in DOMAIN r.words : r.words[i].join = "text" => r.words[i].flag = "-"
        /\ r.verb \in Typed /\ WellFormed(r)
               => /\ "--body" \in Flags(r.words) => ValueOf(r.words, "--body") \in Text
                  /\ "--body-file" \in Flags(r.words) => ValueOf(r.words, "--body-file") \in File
        /\ r.verb = "api" /\ Writes(r.words)
               => \A i \in GhEndpoints(r.words) :
                    \E e \in {"graphql"} \cup Target \cup GetOnly : IsEndpoint(r.words[i], e)
ASSUME DocumentsAreGraphQL ==
    \A r \in Request : \A i \in DOMAIN r.words :
        LET q == r.words[i].value
        IN  r.words[i].name = "query" /\ Document(q) # <<>>
                => IsDocument(Document(q)) /\ Lexical(Source(q)) = Rendered(Document(q))
ASSUME SpecialsAreFresh ==
    /\ {Missing, Unfit} \cap Text = {} /\ Missing # Unfit
    /\ None \notin Request \cup Change \cup Policies \cup Action

VARIABLES
    manifest,   \* the manifest's entries
    disk,       \* disk[f]: what file f holds
    policy,     \* policy[s]: github.allowed_operations of rule file s
    pc,         \* where each call is
    request,    \* what it was asked for
    batch,      \* the entries whose text it has not read yet
    frozen,     \* the issues as it has read them
    conf,       \* the project's authorized operations, loaded
    run,        \* the request it hands to gh: None for a batch, which has its own
    done,       \* the issues gh has reported created
    sent,       \* what gh has sent to GitHub and GitHub has not answered
    logged,     \* its audit entry, and the number of issues that is in it
    made,       \* made[p]: what has changed on GitHub by call p
    agreed,     \* agreed[p]: for each change that may follow, what would fulfil it
    authorized  \* operations authorized at some moment since p began

world == <<manifest, disk, policy>>
work == <<batch, frozen, conf, done>>
outcome == <<sent, made>>
history == <<agreed, authorized>>
vars == <<world, pc, request, work, run, logged, outcome, history>>

PC == {"idle", "manifest", "texts", "policy", "review", "create", "operation", "gate",
       "run", "gh", "ended", "killed"}

TypeOK ==
    /\ manifest \in Manifests
    /\ disk \in [File -> Text \cup {Missing, Unfit}]
    /\ policy \in [Scope -> Policies]
    /\ pc \in [Call -> PC]
    /\ request \in [Call -> Request \cup {None}]
    /\ batch \in [Call -> Seq(Entry)]
    /\ frozen \in [Call -> Seq(Issue)]
    /\ conf \in [Call -> Policies \cup {None}]
    /\ run \in [Call -> Request \cup {None}]
    /\ done \in [Call -> 0..MaxIssues]
    /\ sent \in [Call -> Change \cup {None}]
    /\ logged \in [Call -> [action : Action \cup {None}, count : 0..MaxIssues]]
    /\ made \in [Call -> Seq(Change)]
    /\ agreed \in [Call -> Seq(SUBSET Change)]
    /\ authorized \in [Call -> SUBSET Permission]

NoEntry == [action |-> None, count |-> 0]

Init ==
    /\ manifest \in Manifests
    /\ disk \in [File -> Text]
    /\ policy \in [Scope -> Policies]
    /\ pc = [p \in Call |-> "idle"]
    /\ request = [p \in Call |-> None]
    /\ batch = [p \in Call |-> <<>>]
    /\ frozen = [p \in Call |-> <<>>]
    /\ conf = [p \in Call |-> None]
    /\ run = [p \in Call |-> None]
    /\ done = [p \in Call |-> 0]
    /\ sent = [p \in Call |-> None]
    /\ logged = [p \in Call |-> NoEntry]
    /\ made = [p \in Call |-> <<>>]
    /\ agreed = [p \in Call |-> <<>>]
    /\ authorized = [p \in Call |-> {}]

-------------------------------------------------------------------------------
(* Steps every call shares. *)

Goto(p, place) == pc' = [pc EXCEPT ![p] = place]

Log(p, action, count) ==
    logged' = [logged EXCEPT ![p] = [action |-> action, count |-> count]]

(* It has no more use for what it holds. *)
Forget(p) ==
    /\ batch' = [batch EXCEPT ![p] = <<>>]
    /\ frozen' = [frozen EXCEPT ![p] = <<>>]
    /\ conf' = [conf EXCEPT ![p] = None]
    /\ done' = [done EXCEPT ![p] = 0]
    /\ request' = [request EXCEPT ![p] = None]

End(p) == Goto(p, "ended") /\ Forget(p) /\ UNCHANGED <<world, run, outcome, history>>

(* An exception that nothing catches: no entry is written. *)
Abort(p) == End(p) /\ UNCHANGED logged

(* The entry comes last, and audit_log may raise (audit.py:19-53).         *)
Conclude(p, action, count) == \/ Log(p, action, count) /\ End(p)
                              \/ Abort(p)

Stop(p, action) == Conclude(p, action, 0)

-------------------------------------------------------------------------------
(* What a request comes to on GitHub. *)

OnGitHub(op, where, title, text) ==
    [op |-> op, where |-> where, title |-> title, text |-> text]

NewIssue(r, issue) ==
    OnGitHub("issue", ValueOf(r.words, "--repo"), issue.title, issue.text)

(* The changes that would fulfil a request: of a reply from a file, a      *)
(* reply with any text.                                                    *)
Fulfilling(r) ==
    CASE r.verb = "pr.review-reply" ->
           {OnGitHub(r.verb, ValueOf(r.words, "--repo"), "", t) :
              t \in IF "--body" \in Flags(r.words) THEN {ValueOf(r.words, "--body")}
                    ELSE Text \cup {Unfit}}
      [] r.verb = "issue.add-sub-issue" -> {OnGitHub(r.verb, ValueOf(r.words, "--repo"), "", "")}
      [] r.verb = "api" /\ Writes(r.words) ->
           {OnGitHub("api", Endpoint(r.words), "", "")}
      [] OTHER -> {}

(* gh reads the reply's file when it runs. *)
Sending(r) ==
    {x \in Fulfilling(r) :
        "--body-file" \in Flags(r.words) => x.text = disk[ValueOf(r.words, "--body-file")]}

-------------------------------------------------------------------------------
(* Before the block rules. *)

Rejected(r) == ImplicitPost(r) \/ RawWrite(r)

(* parse_typed_operation raises. *)
Invalid(r) ==
    /\ r.verb \in Typed \cup {"issue.create-batch"}
    /\ \/ ~WellFormed(r)
       \/ "--body-file" \in Flags(r.words) /\ disk[ValueOf(r.words, "--body-file")] = Missing

(* _validate_github_proxy_args. *)
Begin(p, r) ==
    /\ pc[p] = "idle"
    /\ IF Rejected(r) THEN Stop(p, "blocked")
       ELSE IF Invalid(r) THEN Abort(p)
       ELSE /\ request' = [request EXCEPT ![p] = r]
            /\ authorized' = [authorized EXCEPT ![p] = policy["project"] \cup policy["global"]]
            /\ Goto(p, IF r.verb = "issue.create-batch" THEN "manifest" ELSE "policy")
            /\ UNCHANGED <<world, work, run, logged, outcome, agreed>>

ReadManifest(p) ==
    /\ pc[p] = "manifest"
    /\ IF Len(manifest) \in 1..MaxIssues
       THEN /\ Goto(p, "texts")
            /\ batch' = [batch EXCEPT ![p] = manifest]
            /\ UNCHANGED <<world, request, frozen, conf, done, run, logged, outcome, history>>
       ELSE Abort(p)

ReadText_Unchecked(p) ==
    /\ pc[p] = "texts"
    /\ LET entry == Head(batch[p])
       IN  /\ frozen' = [frozen EXCEPT ![p] =
                            Append(@, [title |-> entry.title, text |-> disk[entry.file]])]
           /\ batch' = [batch EXCEPT ![p] = Tail(@)]
           /\ Goto(p, IF Len(batch[p]) = 1 THEN "policy" ELSE "texts")
           /\ UNCHANGED <<world, request, conf, done, run, logged, outcome, history>>

(* The texts are read one after the other, and kept. *)
ReadText(p) ==
    /\ pc[p] = "texts"
    /\ LET entry == Head(batch[p])
       IN  IF disk[entry.file] \in Text
           THEN /\ frozen' = [frozen EXCEPT ![p] =
                                Append(@, [title |-> entry.title, text |-> disk[entry.file]])]
                /\ batch' = [batch EXCEPT ![p] = Tail(@)]
                /\ Goto(p, IF Len(batch[p]) = 1 THEN "policy" ELSE "texts")
                /\ UNCHANGED <<world, request, conf, done, run, logged, outcome, history>>
           ELSE Abort(p)

-------------------------------------------------------------------------------
(* The block rules, and what decides before the rest of the gate. *)

Launch(p, action, r) ==
    /\ Goto(p, "run")
    /\ Log(p, action, 0)
    /\ run' = [run EXCEPT ![p] = r]
    /\ request' = [request EXCEPT ![p] = None]
    /\ agreed' = [agreed EXCEPT ![p] = <<Fulfilling(r)>>]

(* audit_log raises before anything is run (cmd.py:839, 868, 883, 901,     *)
(* 918, 993).                                                              *)
AuditFails(p) == pc[p] \in {"policy", "operation", "gate"} /\ Abort(p)

(* A block rule matches: without --reason, or without the user's consent. *)
Blocked(p) ==
    /\ pc[p] = "policy"
    /\ \E action \in {"blocked", "denied", "error"} : Stop(p, action)

(* With it, the request is run as it is, a batch too. *)
Overrule(p) ==
    /\ pc[p] = "policy"
    /\ Launch(p, "override", request[p])
    /\ UNCHANGED <<world, work, outcome, authorized>>

Pass(p) ==
    /\ pc[p] = "policy"
    /\ LET r == request[p]
       IN  IF KnownRead(r) THEN Launch(p, "semantic", r)
           ELSE /\ Goto(p, CASE r.verb = "issue.create-batch" -> "review"
                             [] r.verb \in Typed -> "operation"
                             [] OTHER -> "gate")
                /\ UNCHANGED <<request, run, logged, agreed>>
    /\ UNCHANGED <<world, work, outcome, authorized>>

ReadPolicy(p) ==
    /\ pc[p] = "operation"
    /\ conf[p] = None
    /\ conf' = [conf EXCEPT ![p] = policy["project"]]
    /\ UNCHANGED <<world, pc, request, batch, frozen, done, run, logged, outcome, history>>

Permits_AnyRepository(permissions, r) ==
    \E q \in permissions : q.operation = r.verb

Permits(permissions, r) ==
    [operation |-> r.verb, repository |-> Folded(ValueOf(r.words, "--repo"))] \in permissions

(* The operation is authorized by the project's file or the global one. *)
CheckPolicy(p) ==
    /\ pc[p] = "operation"
    /\ conf[p] # None
    /\ conf' = [conf EXCEPT ![p] = None]
    /\ IF Permits(conf[p] \cup policy["global"], request[p])
       THEN Launch(p, "operation", request[p])
       ELSE Goto(p, "gate") /\ UNCHANGED <<request, run, logged, agreed>>
    /\ UNCHANGED <<world, batch, frozen, done, outcome, authorized>>

PolicyError(p) == pc[p] = "operation" /\ Stop(p, "error")

-------------------------------------------------------------------------------
(* The rest of the gate (CommandGate). *)

GateAllows(p) ==
    /\ pc[p] = "gate"
    /\ \E action \in {"config", "cached"} : Launch(p, action, request[p])
    /\ UNCHANGED <<world, work, outcome, authorized>>

UserAllows_TrustsEdit(p, r) ==
    /\ pc[p] = "gate"
    /\ Launch(p, "clicked", r)
    /\ UNCHANGED <<world, work, outcome, authorized>>

(* The user may have edited the request: it is validated once more. *)
UserAllows(p, r) ==
    /\ pc[p] = "gate"
    /\ IF Rejected(r) THEN Stop(p, "blocked")
       ELSE IF Invalid(r) THEN Abort(p)
       ELSE /\ Launch(p, "clicked", r)
            /\ UNCHANGED <<world, work, outcome, authorized>>

GateStops(p) ==
    /\ pc[p] = "gate"
    /\ \E action \in {"blocked", "denied", "no-dialog", "error"} : Stop(p, action)

-------------------------------------------------------------------------------
(* A batch is reviewed, and its issues are created one by one. *)

ApproveBatch(p) ==
    /\ pc[p] = "review"
    /\ Goto(p, "create")
    /\ agreed' = [agreed EXCEPT ![p] =
                    [i \in DOMAIN frozen[p] |-> {NewIssue(request[p], frozen[p][i])}]]
    /\ UNCHANGED <<world, request, work, run, logged, outcome, authorized>>

RefuseBatch(p) ==
    /\ pc[p] = "review"
    /\ \E action \in {"denied", "no-dialog"} : Stop(p, action)

SendIssue_FromDisk(p) ==
    /\ pc[p] = "create"
    /\ Goto(p, "gh")
    /\ \E f \in File :
         sent' = [sent EXCEPT ![p] = NewIssue(request[p],
                    [title |-> frozen[p][done[p] + 1].title, text |-> disk[f]])]
    /\ UNCHANGED <<world, request, work, run, logged, made, history>>

(* The text comes from a private copy of what was read. *)
SendIssue(p) ==
    /\ pc[p] = "create"
    /\ Goto(p, "gh")
    /\ sent' = [sent EXCEPT ![p] = NewIssue(request[p], frozen[p][done[p] + 1])]
    /\ UNCHANGED <<world, request, work, run, logged, made, history>>

(* There is no room for the copy, or no gh: an exception, in the middle of *)
(* an approved batch.                                                      *)
NotSent(p) == pc[p] = "create" /\ Abort(p)

(* github_operation_execution_args parses once more, and may raise.  gh    *)
(* knows no create-batch, and a read changes nothing.                      *)
Run(p) ==
    /\ pc[p] = "run"
    /\ IF Invalid(run[p]) \/ Sending(run[p]) = {}
       THEN Abort(p)
       ELSE /\ Goto(p, "gh")
            /\ \E x \in Sending(run[p]) : sent' = [sent EXCEPT ![p] = x]
            /\ UNCHANGED <<world, request, work, run, logged, made, history>>

(* gh reports success, which it does only after the change has arrived. *)
Succeed(p) ==
    /\ pc[p] = "gh"
    /\ Len(made[p]) > done[p]
    /\ IF run[p] # None THEN Abort(p)
       ELSE IF done[p] + 1 = Len(frozen[p]) THEN Conclude(p, "clicked", done[p] + 1)
       ELSE /\ Goto(p, "create")
            /\ done' = [done EXCEPT ![p] = @ + 1]
            /\ UNCHANGED <<world, request, batch, frozen, conf, run, logged, outcome, history>>

GhFails_GoesOn(p) ==
    /\ pc[p] = "gh"
    /\ IF run[p] # None THEN Abort(p)
       ELSE IF done[p] + 1 = Len(frozen[p]) THEN Conclude(p, "error", done[p])
       ELSE /\ Goto(p, "create")
            /\ done' = [done EXCEPT ![p] = @ + 1]
            /\ UNCHANGED <<world, request, batch, frozen, conf, run, logged, outcome, history>>

(* The first failure ends the batch, whatever has become of the issue. *)
GhFails(p) ==
    /\ pc[p] = "gh"
    /\ IF run[p] # None THEN Abort(p) ELSE Conclude(p, "error", done[p])

(* _run_command raises, before it starts gh or after: there is none, the   *)
(* output filter, a broken pipe, an interrupt (cmd.py:600, 88-113).        *)
RunRaises(p) == pc[p] \in {"run", "gh"} /\ Abort(p)

-------------------------------------------------------------------------------
(* GitHub, the user, the agent. *)

Arrive(p) ==
    /\ sent[p] # None
    /\ made' = [made EXCEPT ![p] = Append(@, sent[p])]
    /\ sent' = [sent EXCEPT ![p] = None]
    /\ UNCHANGED <<world, pc, request, work, run, logged, history>>

Lose(p) ==
    /\ sent[p] # None
    /\ sent' = [sent EXCEPT ![p] = None]
    /\ UNCHANGED <<world, pc, request, work, run, logged, made, history>>

Kill(p) ==
    /\ pc[p] \notin {"idle", "ended", "killed"}
    /\ Goto(p, "killed")
    /\ Forget(p)
    /\ UNCHANGED <<world, run, logged, outcome, history>>

(* The slot is free when nothing of the call is under way any more. *)
Exit(p) ==
    /\ pc[p] \in {"ended", "killed"}
    /\ sent[p] = None
    /\ Goto(p, "idle")
    /\ run' = [run EXCEPT ![p] = None]
    /\ logged' = [logged EXCEPT ![p] = NoEntry]
    /\ made' = [made EXCEPT ![p] = <<>>]
    /\ agreed' = [agreed EXCEPT ![p] = <<>>]
    /\ authorized' = [authorized EXCEPT ![p] = {}]
    /\ UNCHANGED <<world, request, work, sent>>

EditManifest(m) == manifest' = m /\ UNCHANGED <<disk, policy>>
EditText(f, t) == disk' = [disk EXCEPT ![f] = t] /\ UNCHANGED <<manifest, policy>>

Rewrite ==
    /\ \/ \E m \in Manifests : EditManifest(m)
       \/ \E f \in File, t \in Text \cup {Missing, Unfit} : EditText(f, t)
    /\ UNCHANGED <<pc, request, work, run, logged, outcome, history>>

Authorize(s, a) ==
    /\ policy' = [policy EXCEPT ![s] = a]
    /\ authorized' = [p \in Call |-> IF pc[p] = "idle" THEN {} ELSE authorized[p] \cup a]
    /\ UNCHANGED <<manifest, disk, pc, request, work, run, logged, outcome, agreed>>

(* Everything a call that has begun can do next. *)
Step(p) ==
    \/ ReadManifest(p) \/ ReadText(p)
    \/ AuditFails(p) \/ Blocked(p) \/ Overrule(p) \/ Pass(p)
    \/ ReadPolicy(p) \/ CheckPolicy(p) \/ PolicyError(p)
    \/ GateAllows(p) \/ GateStops(p)
    \/ ApproveBatch(p) \/ RefuseBatch(p) \/ SendIssue(p) \/ NotSent(p)
    \/ Run(p) \/ Succeed(p) \/ GhFails(p) \/ RunRaises(p)
    \/ Kill(p)

Next ==
    \/ \E p \in Call :
         \/ \E r \in Request : Begin(p, r) \/ UserAllows(p, r)
         \/ Step(p) \/ Exit(p)
         \/ Arrive(p) \/ Lose(p)
    \/ Rewrite
    \/ \E s \in Scope, a \in Policies : Authorize(s, a)

Spec == Init /\ [][Next]_vars

-------------------------------------------------------------------------------
(* Properties. *)

(* What has changed on GitHub by a call is what was agreed to for it: of a *)
(* batch the issues the user has reviewed, with the texts they had then,   *)
(* in order and each once, even if a text was rewritten meanwhile, an      *)
(* answer of gh was lost or the call was killed (cmd.py:578-619).          *)
Permit == INSTANCE GitHubPermit

ImplementsGitHubPermit == Permit!Spec

Underway(p) == IF sent[p] = None THEN 0 ELSE 1

(* What the audit entry of a call that has ended by itself says is so: all *)
(* issues of an approved batch are there; after a failure of gh as many as *)
(* it says, or one more; none where it says that nothing was run.  Where   *)
(* there is no entry, because audit_log or _run_command raised, nothing is *)
(* said: any part of what was agreed may be there (cmd.py:569-626).        *)
CountsChanges(p) ==
    LET n == Len(made[p])
        entry == logged[p]
    IN  /\ entry.action = "error" =>
              entry.count <= n /\ n + Underway(p) <= entry.count + 1
        /\ entry.action = "clicked" /\ run[p] = None =>
              n = entry.count /\ n = Len(agreed[p]) /\ Underway(p) = 0
        /\ entry.action \in {"blocked", "denied", "no-dialog"} => n = 0 /\ Underway(p) = 0
        /\ run[p] # None => n + Underway(p) <= 1

AuditCountsChanges == \A p \in Call : pc[p] = "ended" => CountsChanges(p)

(* What is written to GitHub without asking is an operation that a rule    *)
(* file authorized, for that very repository, since the call began: above  *)
(* all, what ozm takes for a read writes nothing, as long as the arguments *)
(* have a normal shape and the query holds no \""" and no carriage return  *)
(* (cmd.py:851-890, config.py:327-348, github_api.py:80-95,                *)
(* github_graphql.py:23-94).                                               *)
UnaskedIsAuthorized ==
    \A p \in Call :
        LET ordinary == NormalShape(run[p].words) /\ PlainQueries(run[p].words)
        IN  logged[p].action = "operation" \/ (logged[p].action = "semantic" /\ ordinary) =>
              \A i \in DOMAIN made[p] :
                  [operation |-> made[p][i].op, repository |-> Folded(made[p][i].where)]
                      \in authorized[p]

(* A reply or a sub-issue that is asked for in a normal shape never        *)
(* reaches GitHub as a raw POST, neither as given nor as edited nor past a *)
(* block rule, but for a request with several methods (cmd.py:480-537,     *)
(* 938, github_operations.py:453-508).                                     *)
RawNeverSent ==
    \A p \in Call : \A i \in DOMAIN made[p] :
        made[p][i].op = "api" /\ made[p][i].where \in Target =>
            \/ GhMethod(run[p].words) # "POST"
            \/ Cardinality(GhArguments(run[p].words, {"-X"})) > 1
            \/ ~NormalShape(run[p].words)
===============================================================================
