# ozm: specifications, checks and proofs

ozm stands between a coding agent and the machine. The agent calls
`ozm run|cmd|gh|git|bash`; ozm decides from rules and earlier approvals
whether the script or command may run, asks the user when nothing decides, and
remembers the answer. The user answers in a menu bar app (Swift) or, without it,
in a dialog of the ozm process. All ozm processes share the files of `~/.ozm`
and use no lock.

This directory holds TLA+ models of that code, TLC configurations, and TLAPS
proofs. Paths below are relative to `src/` of the repository.

## The system

| Part | State | Operations | Talks to |
| --- | --- | --- | --- |
| Script review, `src/ozm/run.py` | hash table and content in memory; `hashes.yaml`, `snapshots/` | `run`, `run --stdin`, `bash --command`, `reset`, `status` | storage, approval client, audit, the script file |
| Command gate, `src/ozm/cmd.py` | argv, approval, hash table in memory | `cmd`, `gh` | rule files, storage, approval client, audit, classifiers |
| GitHub writes, `cmd.py:480-640`, `github_operations.py` | frozen issues, number created | typed operations, issue batch | rule files, approval client, audit, gh |
| Rule files, `src/ozm/config.py`, `cli.py` | project and global YAML | lookup, add a pattern, `trust` | storage |
| Storage, `src/ozm/storage.py` | one file and its directory | save by temporary file and rename, load | the file system |
| Approval client, `src/ozm/approve.py`, `socket_client.py` | one socket, one dialog | `request_approval`, `request_cmd_approval`, `request_override` | the app, osascript |
| Approval app, `app/Sources` | queue, do-not-disturb, window, connections | enqueue, respond, present, start, stop | clients, the user |
| git policy, `src/ozm/git.py` | the policy and the branch it has read | commit and push checks, override | project file, git, approval client |
| Audit log, `src/ozm/audit.py` | append-only text file | append, parse, summarise | everyone |
| GitHub classifiers, `github_operations.py`, `github_api.py`, `github_graphql.py` | none | pure functions on argv and GraphQL documents | command gate, GitHub writes |
| Other classifiers: `shell.py`, `run.py:229-512`, `command_routing.py`, `rule_packs.py` | none | pure functions on text and argv | script review, command gate |
| Output filter, `output_filter.py` | line counters | grep, head, tail of a child's output | command gate |
| Install and doctor, `install.py`, `doctor.py` | six files of the agents and the user, backups of two | `install`, `doctor` | the agents |
| Hooks: the script in `install.py`, `extensions/pi.ts` | none | rewrite or refuse tool calls | the agents |

What is hard about it:

- **Concurrency without locks.** An agent may start several ozm processes at a
  time. Each loads `hashes.yaml` or a rule file, waits for the user for up to
  minutes, and writes the whole file back. The agent meanwhile edits the scripts.
- **Time between looking and doing.** The content is read, reviewed, hashed,
  saved as a snapshot and executed at five different moments; a command is
  screened, edited by the user, screened again, remembered and executed.
- **Failure.** A save can fail before or after it has replaced the file; a process
  can be killed anywhere; power can fail; the app can stop with requests queued;
  gh can fail after GitHub has made the change; an installation writes six files
  one after the other and can end between any two.
- **Timeouts.** A client gives up after 300 s and asks again by itself, without
  telling the app, where the first question stays answerable.
- **Order.** Requests come in one order and are answered in another.

What makes each part correct: script review runs only bytes the user allowed
under that name, and shows those bytes; the command gate runs a command only for
a reason the user or the rules gave, a block rule wins, and the audit log says
which reason it was; GitHub is changed as agreed and the log says how far it
came; an installation enforces what it is for and costs the user nothing; storage
is an atomic, durable register; the app shows the oldest request, loses none, and
answers each with its own answer; a call always returns.

## Modules

Each component has a module, an abstract module it implements, an `MC` module
that gives TLC its constants, and a `_proofs` module. `Action_Fault` (for
instance `Execute_RereadsFile`) is the action `Action` with a plausible defect;
no specification uses it, and putting it in the place of `Action` makes the
property it was written for fail. `GitGate` and `Installation` have no abstract
module: what they promise are relations between files or commands, and their
properties state it.

| Component | Module | Promise | Proofs |
| --- | --- | --- | --- |
| `run`, `reset` | `ApprovalCache` | `ReviewGate` | `ApprovalCache_proofs` |
| storage | `AtomicStore` | `AtomicRegister` | `AtomicStore_proofs` |
| app and client | `ApprovalQueue` | `AskUser` | `ApprovalQueue_proofs` |
| `cmd`, `gh`, rule files | `CommandGate` | `CommandPermit` | `CommandGate_proofs` |
| `git` | `GitGate` | | `GitGate_proofs` |
| `gh` where it writes | `GitHubWrites`, on `GitHubRequests`, on `GraphQL` | `GitHubPermit` | `GitHubWrites_proofs` |
| `install`, `doctor` | `Installation` | | `Installation_proofs` |

`Induction` holds the two lemmas with which the last two prove what a recursively
defined function computes.

The promises also carry the composition. `ApprovalCache` and `CommandGate` treat
every save and load of a file as one atomic step that may fail before or after
it has replaced the file: `AtomicStore` implements `AtomicRegister`, which
is that assumption. They treat a dialog as one step that gives the user's answer
to that question or none: `ApprovalQueue` implements `AskUser`, which is that
assumption. `CommandGate` and `ApprovalCache` share `hashes.yaml`; each has the
other's writes as steps (`LoadForScript`, `SaveForScript`, `ResetAll` there;
here commands are keys that nobody reviews, which the rewriting of the whole
table by two processes already covers). `GitHubWrites` takes up where
`CommandGate` has a set: what `CommandGate` calls authorized or a semantic read
is computed there from the arguments, and what `CommandGate` decides by block
rules, cache or dialog is one step there that may go either way (`Blocked`,
`Overrule`, `GateAllows`, `UserAllows`, `GateStops`).

### ApprovalCache (`run.py`, part of `approve.py`)

`disk` is the script file, `hashes` and `snapshots` the stores, and `pc`, `key`,
`content`, `table`, `shown` the locals of `_run_reviewed_script` and `reset_cmd`
per process. One `pc` value lies between two accesses to shared state. `Begin`
is the single read; `RefuseContent` all static checks on the text (a set
`Refused`); `LoadHashes` the cache lookup; `CompareWithSnapshot` and `OpenDialog`
what the dialog shows, with git's diff in the place of the snapshot's;
`SaveHashes` and its two failures, `SaveSnapshot`, `Audit`, `Execute` the order
after approval; `ResetLoad`, `ResetSave` the two halves of reset; `Crash` a kill
at any point. `serial` is chosen at the start and says whether the agent runs one
process at a time; some properties hold only then, and say so.

### AtomicStore (`storage.py`)

Inodes, the directory's entry for the target, temporary names, what has reached
the disk (`synced`, `onDisk`), and each writer between two system calls. A write
takes two steps, so a torn file is possible. `PowerLoss` keeps any of the target
entries not yet settled and tears any file not synced; `PowerLossWithoutHome`
loses a directory that was created and never synced in its parent, which the
code does not do. `SyncDirectory` also covers file systems that refuse to sync a
directory (`CanSyncDir = FALSE`), whose error the code ignores.

### ApprovalQueue (`app/Sources`, `socket_client.py`, `approve.py`)

The app's handlers run on the main actor and are atomic; the one suspension,
between `ReadRequest` and `SendResponse`, is a state of the connection. `pending`,
`isDND`, `window` (`presentedID`) are the app's fields. A process's call goes
`new`, `waiting`, possibly `fallback`, `returned`. `GiveUp` is enabled whenever a
call waits, so every race of a timeout with an answer happens. `cancel(id:)` has no
caller and is no action.

### CommandGate (`cmd.py`, `config.py`)

`rules` are the two files as two lists of patterns, `hashes` the commands in the
cache; per process the locals of `_cmd_impl`: `cmd`, `run` (as edited), `conf` (a
loaded rule file), `table` (the loaded cache), `wish` (the rule asked for),
`logged` (its audit entry), `answer`. A lookup reads the project's file
and then the global one, so a save can fall between. The classifiers are sets of
commands (`Misrouted`, `Disallowed`, `Temporary`, `Chmod`, `Authorized`,
`ReadOnly`) and matching is any relation `Matches`, so an exact command need
not match itself, as with `fnmatch` and brackets. `consent`, `granted`, `standing`
are history: what the user has allowed, and which block rules have been in force
ever since the process began.

### GitGate (`git.py`)

`head` is the branch checked out in each repository, `policy` the commit section of
the project's file; per process `cmd`, `conf` (the policy loaded), `seen` (the
branch read) and `shown` (the broken rules, which are what the override dialog
tells). The policy is the one of the directory ozm runs in, the branch the one of the
repository that `-C` or `--git-dir` names. Each load of the policy is a step
(`CheckMessage`, `CheckMessageAgain`, `ReadPolicy`), as is `ReadBranch`, which may
fail before the first commit. `Trust` changes the policy; a command that passes
unchecked (`"pass"`) may check out any branch in `RunGit`, and stands for checkouts
made outside ozm too. `cmd` is a class of argument lists: which messages, forces and
targets there are, not their text. `targets` are the branches a push names. `steady` is
history: neither the policy nor the HEAD this call looks at has changed since it
began.

### GraphQL, GitHubRequests, GitHubWrites (`github_*.py`, `cmd.py:480-640`)

`GraphQL` has no state. A query's text is a sequence of names, punctuators and the
marks a lexer turns on (a quotation mark, three, three after a backslash, a hash, the
two line ends). `Tokenized` is `_tokenize`: what of them is code, by the moves between
code, strings, block strings and comments that the code makes; it ends a block string
at an escaped `\"""` too, and a comment at a line feed only. `OperationsIn` is
`_parse_operations`: the operations and fragments at the top level, their
variable definitions skipped by counting brackets; its value is `{<<operations>>}`, or
`{}` where the code returns `None`. `SelectedQuery` is `_selected_operation_kind`. The
second half of the module is external: the tokens GraphQL's own rules find in a text
(`Lexical`), what a document is (`IsDocument`: definitions with balanced heads and one
selection set each), how it is written (`Rendered`), and which of its
operations GitHub executes (`Executed`).

`GitHubRequests` has no state either: the classifiers as operators on a request
`[verb, words]`, where a word of `gh api` is one argument: how it is joined, the flag,
the name and the value. The readers of these arguments differ in which options they let
take the next one, and `Starts` gives for each where it takes an argument for an
option of its own: `_raw_methods` knows of `-X` alone and counts endpoints among all
arguments, `_extract_request` of GraphQL knows of `-f` alone and of no attached `-fx`,
`extract_rest_request` of most, and gh of all. So they disagree, as they do in
the code, about an option's value that looks like an option, a field or an
endpoint, about `-X=POST` and about clusters as `-iXPOST`. What gh and GitHub make of the
arguments (`Accepted`, `GhMethod`, `Writes`) is external; the only facts assumed are
that gh takes one endpoint, the last method and no field twice, and that an
`operationName` gh reads from a file may be any. `NormalShape` and `PlainQueries` say for
which arguments and queries the classifiers are right.

In `GitHubWrites` a call goes from `Begin` (validation) through `ReadManifest` and
one `ReadText` per issue, or straight, to the block rules, then to the review of
the batch (`ApproveBatch`), to the authorized operations (`ReadPolicy`,
`CheckPolicy`: the project's file and then the global one) or to the rest of the
gate. `SendIssue` and `Run` hand a change to gh; `Arrive` and `Lose` decide whether it
gets there; `Succeed` and `GhFails` are what gh reports, and only the first tells
the truth. An exception ends the call without an entry, and issues may be there by then:
between two issues (`NotSent`), before gh is started or after it has sent its change
(`RunRaises`), or in writing the entry itself (`AuditFails`, `Conclude`). `Kill` may come
anywhere.
What was read is kept in memory and sent from a private temporary file, so
`frozen` cannot change; a reply's `--body-file` is opened by gh, so it is read
in `Run`. `Fulfilling` says which changes would carry a request out. `agreed` and
`authorized` are history: what the call may do, and which operations the rule files
have authorized since it began.

### Installation (`install.py`, `doctor.py`)

The six files an installation goes through in their order, as sequences of lines
(of `settings.json`, the members between its braces), their backups, and the
place of the one installation under way. Reading a file and computing the new text
is one step (`StartHook`, `ReadSettings`, `ReadRules`, `ReadConfig`, `ReadGuide`);
creating the backup (`BackUp`), filling it (`Copy`), truncating (`Truncate`),
writing (`Write`), appending and `Chmod` are one each. `Kill` leaves what was being
written or copied up to any character, as a full disk does: cut between two lines
(`CutBetween`) or within one (`CutWithin`), where `Parts` says what there may be of a line
(of ozm's tables of hooks: with the path or without it). `Edit` is the user or an agent.
`Configured` is the line loop of `_ensure_codex_hooks_feature` (`Scan`; `Take` is its
body) with the hook added behind. `doctor`'s checks are operators (`HookScriptOK`, ...), and
`InstallEnforces` uses them, beside `Enforced`: hooks are on, once, ozm's tables are all
there and nothing is in parts. `InForm` is what the line loop takes for granted of a
configuration. `Meaning` is what a file says for its user: each key
with the section it is in. The lines are strings that stand for what they name:
`"lbrace"` and `"rbrace"` for the braces, `"blank"` for an empty line, `"<features>"`
for the header `[features]`. `mine`, `lost`, `aged`, `calm` and `torn` are history: what
the user had, where an edit or a kill fell between two steps, which files changed since
their backup, whether anybody has edited since the last start, and whether an edit or a
kill has left the configuration in parts.

## Runs

| Run | Question | Bounds | Distinct states |
| --- | --- | --- | --- |
| `approval_cache` | Does only approved content run, and is every store made of approvals? | 2 processes, 1 file, 1 generated key, 2 contents | 923,000 |
| `reset_holds` | Does a reset hold? (no) | the same | |
| `diff_base` | Is the diff taken against the approved snapshot? (no) | the same with 3 contents, serial | |
| `atomic_store` | Is a stored file an atomic, durable register? | 2 writers, 1 reader, 2 data, 3 inodes, 2 names | 186,000 |
| `approval_queue` | Is the right request shown, and does each get its own answer? | 3 requests | 445,000 |
| `approval_progress` | Does every call return, does the queue drain? | 2 requests, with fairness | 26,500 |
| `command_gate` | Do block rules, cache and audit log hold under concurrency? | 2 processes, 2 commands, 1 pattern, 2 rule files with at most 2 rules (`AtMostTwoRules`) | 1,112,000 |
| `command_classes` | Are commands of all classes decided in the right order, and rules added and nothing else? | 1 process, 4 commands, 2 patterns | 197,000 |
| `git_gate` | Does a dangerous command, or a commit or push against the rules, reach git unasked? | 2 processes, 2 repositories, 3 branches, 2 policies, 12 commands | 420,000 |
| `github_writes` | Is GitHub changed as agreed, and does the audit log tell how far it came? | 1 call after another, 39 requests, 3 manifests of up to 2 issues, 2 texts, 2 policies per rule file | 268,000 |
| `installation` | Does an installation enforce and keep what it should, killed or not? | 5 initial states, 1 or 2 edits per file, 2 kills or edits together (`MaxFaults`) | 1,542,000 |
| `rules_kept` | Is a saved block rule kept? (no) | as `command_gate` | |

Why the bounds are enough to be of use: the races are between one process at its
dialog and one other that saves, resets or adds a rule, so two processes show
them; a third would repeat the second. Two contents give an edit under an open
dialog and back; a third one is needed only to tell git's index from both, and
`diff_base` has it. Three inodes let a save follow two that overlapped. Three
requests give a queue with a head, one behind it and one to be answered out of
order. Two rules in the files give every pair that matters: a block beside a
permit, the same pattern in both files, and an update lost to another. A protected
branch, one with the required prefix and one without are all the policy can tell
apart, and the second repository is there to be mistaken for the first. Two calls
of `ozm gh` share nothing they write, and what they read (files, rules) may
change at any moment, so one call at a time shows all there is; two issues give a
batch a first, a last and a middle to fail in. The requests of `MCGitHubWrites`
have each refusal of the typed operations, each way `-X`, fields and `--input` give a
method, arguments outside the normal shapes (values that look like endpoints, options or
fields, `-X=`, clusters), and GraphQL queries in which the first, the only, the named or
no operation is a query, with strings, block strings and comments that hide braces
and quotation marks, and two with what `PlainQueries` excludes; for each GitHub's choice
is computed from the definitions, not from the code's tokens. Two faults let a killed
installation be followed by an edit or a second kill, and a third repeats them;
beside the run, TLC evaluates `ConfiguredIsRight` (an `ASSUME` of `MCInstallation`):
for every valid configuration of up to four lines out of seven, and two longer
ones with ozm's tables or without, hooks end up enabled once and ozm's tables whole
(`Enforced`), the rest means what it meant, and after two installations a third
changes nothing. The proofs remove the bounds for every safety
property of the passing runs.

The properties, by the question a reviewer would ask:

- *May something run that nobody allowed?* `RunsOnlyApproved`,
  `ImplementsReviewGate`, `ImplementsCommandPermit`.
- *May a stale table bring in an approval nobody gave?* `HashesApproved`,
  `CacheConsented`. (It may bring one back: `ResetHolds` fails.)
- *Did the user see what runs?* `AllowedAfterSeeing`, `SnapshotsApproved`.
- *Is the user asked too often, or is an entry lost?* `SerialCacheExact`,
  `SerialNeverAsksAgain`, `SerialAsksOnlyUndecided`.
- *Can an edit, a lookup order or an override get around a block rule?*
  `StandingBlockStops`.
- *Does git do what the user was not told of?* `DangerOverruled` whatever changes
  meanwhile; `BranchRulesKept` and `MessagesKept` as long as policy and HEAD stay.
- *Is the audit log true?* `AuditTellsWhy`, `AuditCountsChanges`.
- *Does GitHub get what was agreed, once, and nothing else?*
  `ImplementsGitHubPermit`, `UnaskedIsAuthorized`, `RawNeverSent`.
- *Does an installation do what it is for, and what does it cost the user?*
  `InstallEnforces`, `UserContentKept`, `OriginalSurvives`.
- *Is a rule added and nothing else?* `SerialRuleAdded`; concurrently it may be
  lost: `RulesKept` fails.
- *Torn, lost or littered files?* `TargetWhole`, `SavedSurvives`, `NoLitter`,
  `ImplementsRegister`.
- *Is a request hidden, forgotten, answered twice or with another's answer?*
  `WindowShowsOldest`, `HiddenOnlyByUser`, `AwaitedOnce`, `ImplementsAskUser`.
- *Does everything come to an end?* `EveryCallReturns`, `QueueDrains`.

### Where the code and its documents part

1. `ResetHolds` (`docs/commands.md:344`): a process that loaded the cache before
   `ozm reset` and is approved after it writes the forgotten entry back.
2. `DiffFromLastApproved` (`README.md:97`): git's diff takes the place of the
   diff against the last approved snapshot, so the base is git's index.
3. `RulesKept` (`docs/commands.md:117`): two rules saved at a time into the same
   file, one is lost.

Some differences are in the models, without a run of their own:

- A block rule's override dialog that cannot be shown is logged as `denied`
  (`cmd.py:843`), which `docs/configuration.md:207` keeps for the user's denial
  (`CommandGate`, and `Blocked` in `GitHubWrites`).
- `docs/commands.md:350` says that every approval, denial and block is recorded. A batch
  that was approved and ends by an exception, or is killed, leaves no entry although
  issues exist, maybe all of them (`NotSent`, `RunRaises`, `Conclude`, `Kill` in
  `GitHubWrites`; `cmd.py:580`, `600`, `607`, `624`); so `AuditCountsChanges` speaks of
  entries there are. A block of `ozm git` without `--reason` leaves none either
  (`git.py:362`).
- `github_operations.py:454` is to find raw writes "in any normal gh API shape". It does not
  find one whose endpoint is an option's value too (`-t`), since it counts endpoints
  among all arguments, nor `-X=POST`, nor `-X` in a cluster, nor several methods; and the
  GraphQL reader (`github_graphql.py:41-57`, `175-198`) takes for a read what gh sends as a
  mutation, when the query it sees is another option's value and the real one is attached
  to its flag, or when its tokenizer ends a block string or comment where GraphQL does not.
  `GitHubRequests` and `GraphQL` have all this; `RawNeverSent` and `UnaskedIsAuthorized`
  are stated with `NormalShape` and `PlainQueries`, which exclude it.
- `ozm doctor` finds nothing wrong with a `config.toml` that a kill or a full disk has cut
  within the command of ozm's hook, or after it (`doctor.py:85-98`); `ozm install` adds
  nothing there, as the path is in the text (`install.py:538`). Codex then reads no valid
  file, or lacks one of the two hooks. `InstallEnforces` says of a configuration that was
  left in parts (`torn`) only that the installation ends and doctor passes.

`docs/commands.md:263` says that commit-message errors are not override-eligible. They
are where the policy is tightened between the two checks of the message
(`git.py:448` and `git.py:194`): the second finds the error and puts it to the user.
`GitGate` has that behaviour (`CheckMessageAgain`), and `MessagesKept` therefore speaks
of what the policy forbade all along; the window is a few milliseconds and no run is
spent on it.

### Fairness

Only `approval_progress` assumes any. `GiveUp` and `Fallback` are weakly fair:
the socket has a 300 s timeout on each operation and the dialog one of its own
(`socket_client.py:42-45`, `approve.py:528-537`). `ReadRequest` and `SendResponse`
are weakly fair: the main actor runs what is scheduled on it. `AnswerInWindow` and
`EndDND` are weakly fair: a user who is there answers what is on screen and ends
do-not-disturb. `EveryCallReturns` needs only the first. `QueueDrains` needs
the user, and excludes behaviours in which the user closed a window without
answering: the code presents that request again only when the user asks for it.

## Proofs

All safety and action properties and all refinements of the passing runs are theorems,
for every number of processes, requests, contents, commands, patterns, inodes, kills and
edits, and for configurations and GraphQL documents of any length. Each proof module
states an inductive invariant `IInv`, shows that `Init` establishes it and that each action
preserves it (one lemma per action or kind of action), and derives the properties and the
refinement.

- **ApprovalCache_proofs.** `IInv` adds to the properties that past the user's
  answer or a cache hit the content is approved (`ClearedApproved`), and that
  tables in memory, which may be written back, are made of approvals too
  (`TablesApproved`). Without the second `HashesApproved` is not inductive. It
  rests on `Digest` being injective and on the two kinds of key being distinct.
  `AllowedAfterSeeing` has an invariant of its own on top, and so has what holds when
  processes take turns (`SerialInv`): at most one is not idle, the table it has loaded is
  what the file holds, who asks has found no entry, and the cache is exactly the approvals
  recorded and not reset (`CacheExact`). From it follow `SerialCacheExact`,
  `SerialNeverAsksAgain`, and that a reset then holds (`SpecResetHoldsSerially`): what
  `reset_holds` refutes of two processes the code keeps for one after another.
- **AtomicStore_proofs.** `IInv` adds what each writer owns at each place
  (`WriterState`), that two unfinished writers share neither name nor inode
  (`TempsPrivate`), that whatever was ever installed is whole and synced
  (`InstalledWhole`), and that a settled entry is never older than a reported save.
- **ApprovalQueue_proofs.** `IInv` adds that a reply under way is one the user gave
  (`RepliesAreSaid`), what a call may have returned (`CallState`), and that
  the app holds nothing while it is down (`DownIsEmpty`). The lemmas on
  `RemoveAt` and `Append` come first.
- **CommandGate_proofs.** `IInv` is a conjunct on the stores and one per process:
  which locals are set where (`PlacesTyped`), that the user is behind every copy of
  an approval or rule (`UserBehind`), that the standing block rules are in the
  files and in the copy being looked at, and that a command past its lookup
  is clear of them (`StandingHeld`), and that what runs has a true reason. A lemma
  says what a step of one process leaves alone in the others. `SerialInv` on top
  says that with one process at a time the copy of a rule file is what the file holds
  (`FreshCopy`), and that a lookup's result still stands when the user is asked
  (`Found`). It gives `SerialAsksOnlyUndecided`, the action property `SerialRuleAdded`, and
  that the rule of a denial is then kept (`SpecRulesKeptSerially`), which `rules_kept` refutes
  of two processes.
- **GitGate_proofs.** `IInv` says what has been found out at each place: past the
  checks the message is good, the policy loaded is still the one in force for
  a steady call, what is dangerous is among what was shown, and the branch rules of the
  branch seen are too. `RunGitKeeps` is where another process moves HEAD.
- **GitHubWrites_proofs.** `IInv` has per call: what is known of its request where it
  is (`RequestKnown`), that the texts read so far and the entries to come make up
  a batch (`BatchKnown`), that the agreement fits what is frozen and what is made or
  on its way fits the agreement (`AgreementKept`), that what has ended has a true
  entry (`EntryTrue`), and that loaded policies are among the authorized
  (`PolicyKnown`). `AgreementKept` is what carries the refinement: an unanswered
  change may still arrive after the call is killed.

  `UnaskedAuthorized` needs that a request taken for a GraphQL query writes nothing, which
  is about a reader of arguments, a tokenizer, a parser, and queries of any length. For the
  first, in a `NormalShape` every reader sees the same options with the same values (but for
  fields attached to `-f`, which the one of GraphQL misses and gh does not), and so
  an endpoint of a typed operation stands only where gh finds it (which
  `RawNeverReaches` needs too). For the second, `SameTokens`: in a text without `\"""` and
  carriage returns the moves of `_tokenize` are those of GraphQL. For the third,
  `DocumentsParse`, by induction from
  the last definition of a document to its first: the head of a definition is skipped
  because it is balanced (`StartFound`), its selection set ends at the matching brace
  (`EndFound`), so `OperationsFrom` at the start of each definition is the one list of
  the operations from there on. `QueriesRecognized` follows: the operation that
  `SelectedQuery` accepts is the one GitHub executes, and where no `operationName` was
  seen no name makes GitHub execute a mutation; conversely every query of a document
  without a second operation beside an anonymous one is recognized. What is assumed
  (`DocumentsAreGraphQL`) is that `Document` and `Source` belong together: the tokens GraphQL
  finds in a query's text are those its definitions are written with. Nothing is
  assumed of the code.
- **Installation_proofs.** `IInv` says where an installation is in which file
  (`PlacesKnown`), that what it is going to write belongs there (`TextRight`), that
  the files behind it are in order unless somebody has edited (`BehindInstalled`),
  that neither a file nor the text to be written loses what the user has
  (`ContentHeld`), and what backups hold (`BackedUp`, `ConfigSurvives`: one kill destroys
  the configuration or its backup, not both). The lemmas on `Hooked` and `AppendTo` show
  for every content that inserting the hook or appending the guide
  changes nothing in what it means, the same for every part of the guide a kill leaves.

  What `Configured` makes of a configuration is `ConfiguredServes`, for one of any length:
  hooks are enabled, ozm's path is there, the rest means what it did, and whatever a kill can
  leave of the result is a configuration again. It is by induction over the
  lines: what `Scan` has written after so many of them serves what it has read
  (`Serves`), and `OneMore` says what one more line adds to `Meaning`, `Switches` and
  `SectionOf`. It is used with `ConfigurationsAreInForm`. That ozm's tables are there and
  whole at the end needs a second invariant (`WholeKept`): unless `torn`, the file and what
  is going to be written have all of the tables or none, and no line in parts.
- **Induction.** The library's induction theorems take a predicate as a parameter, which
  these provers cannot instantiate. `Induct` takes a set instead and follows from the
  well-foundedness of `<` on `Nat`, which needs none. Functions that are defined
  recursively are first shown to satisfy their equations (`Scanned`, `OperationsFromIs`,
  `RenderedFromIs`), then reasoned about with `Induct`.

The assumptions are those of the modules: distinct special values, an injective
digest, well-typed constants, and the two on data named above; TLC evaluates each of them in a run.

Model-checked only: the two liveness properties (`EveryCallReturns`, `QueueDrains`: TLAPS
does not do liveness here), the three violations, and that a third installation has
nothing to change (in `ConfiguredIsRight`).

`UnaskedIsAuthorized` and `RawNeverSent` have premises, and say nothing where they fail: an
option's value that looks like an option, or equals an endpoint of a typed operation;
a value joined to a short flag by `=`, or in a cluster of short flags; `\"""` or a carriage
return in a query. Not in the model at all are empty arguments, `--`, options before
`api`, and endpoints written as a full URL. `AuditTellsWhy` meets the reasons "operation"
and "semantic" in no run of its module, whose classes for them are empty; the proof
covers them, and `GitHubWrites` has both. `EveryCallReturns` follows from the timeouts
alone; it does not say that a process notices when the app is gone.

## Not modelled, and why

- Text: the classifiers of scripts and of shell commands, sanitising, rendering.
  They stand behind constants that may be any set, so nothing proved depends on
  them; whether they classify rightly is not shown. The GitHub classifiers are
  modelled on arguments and on the names, punctuators and marks of a query: how
  characters make these is not.
- Symlink and permission checks of storage and socket: they decide whether a call
  starts at all.
- Hash collisions, and file systems that lose synced data.
- In `Installation`: an edit between truncating and writing one file, which is
  microseconds; the number of blank lines; TOML and JSON beyond the classes of
  lines, in particular what `ConfigurationsAreInForm` excludes: `[features]` with a comment
  behind it, to which `install.py:489` adds a second table, other lines that look like a
  header, `features` as a dotted key or an inline table. `install.py:499` looks for lines that start with `codex_hooks`, which
  another key with that prefix would be too; keys here are distinct from the flag.
- The hook script `install.py` writes, and `extensions/pi.ts`: they run in the agent,
  keep no state and only rewrite a tool call into an `ozm` call.
- The listener's asynchronous states, the output filter, the audit log's text: not
  yet, see the plan.
- The audit entries of `ozm git`.
- `status`, `config`, `tips`, `version`, rendering: they change no state. `ozm app`
  builds, starts and stops a program.

## Plan

Done, in this order: `ApprovalCache`, `AtomicStore`, `ApprovalQueue`,
`CommandGate`, `GitGate`, each with its properties, promise where it has one, and
proofs; then `GitHubRequests`, `GitHubWrites` and `Installation`, likewise; the proofs of
the serial properties, and by induction those of `Configured` and of the GraphQL parser.

Next, in order of what is at stake:

1. A proof that `Configured` comes to rest after two installations.
2. `Listener`: start and stop of the app's listener with its asynchronous `.ready`,
   two starts, and the socket file; composed with `ApprovalQueue`.
3. `ScriptChecks`: the token-level classifiers of generated scripts, as recursive
   functions checked against reference definitions on bounded inputs.
4. `AuditLog`: formatting, escaping and parsing over a small alphabet;
   `OutputFilter`: grep, head and tail against a reference on sequences.

## Running

    tlc -workers 2 -config approval_cache.cfg MCApprovalCache
    tlapm ApprovalCache_proofs.tla

and likewise for the other runs: `MCAtomicStore`, `MCApprovalQueue`, `MCCommandGate`,
`MCCommandClasses`, `MCGitGate`, `MCGitHubWrites`, `MCInstallation` with the
configurations of the table (`rules_kept` with `MCCommandGate`, `reset_holds` and
`diff_base` with `MCApprovalCache`).
