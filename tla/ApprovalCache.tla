----------------------------- MODULE ApprovalCache -----------------------------
(***************************************************************************)
(* `ozm run` and `ozm reset` of src/ozm/run.py, with the part of           *)
(* src/ozm/approve.py that chooses what the review dialog shows.  Several  *)
(* ozm processes share ~/.ozm/hashes.yaml and ~/.ozm/snapshots/, with no   *)
(* lock: each loads the whole hash table before its dialog opens and       *)
(* writes the whole table back after the user's answer.                    *)
(*                                                                         *)
(* One pc value stands between two accesses to shared state.  The stores   *)
(* are single atomic registers here; AtomicStore shows why that holds.     *)
(*                                                                         *)
(* History variables (not in the code): approved, latest.                  *)
(*                                                                         *)
(* An operator named Action_Fault is Action with a plausible defect.  No   *)
(* specification uses it; it shows which property would catch the defect.  *)
(***************************************************************************)
CONSTANTS
    Proc,         \* slots in which an ozm process may run
    File,         \* persistent scripts, by project-scoped key
    Generated,    \* stdin: and shell: keys, whose content comes with the call
    ThisProject,  \* the keys under the project root `reset --all` is run in
    Content,      \* script contents
    Refused,      \* <<key, content>> pairs the static checks reject
    Index,        \* Index[f]: what git's index holds for f, or None
    Digest(_),    \* SHA-256
    All,          \* the target of `reset --all`
    None

Key == File \cup Generated

ASSUME KeysAreDistinct == File \cap Generated = {}
ASSUME ThisProjectIsKeys == ThisProject \subseteq Key
ASSUME RefusedIsTyped == Refused \subseteq Key \X Content
ASSUME IndexIsTyped == Index \in [File -> Content \cup {None}]
ASSUME DigestIsInjective ==
    \A c, d \in Content : Digest(c) = Digest(d) => c = d
ASSUME NoneIsFresh ==
    /\ None \notin Key \cup Content
    /\ None \notin Key \X Content
    /\ \A c \in Content : Digest(c) # None
    /\ All \notin Key \cup {None}

VARIABLES
    serial,     \* TRUE when the agent waits for one ozm process to end before the next
    disk,       \* disk[f]: the script's bytes now
    hashes,     \* hashes.yaml: digest per key, None where there is no entry
    snapshots,  \* snapshots/: last saved content per file
    pc,         \* where each process is
    key,        \* the key it works on
    content,    \* the bytes it read, once
    table,      \* the hash table it loaded
    shown,      \* what its dialog shows: target, and base when it is a diff
    approved,   \* <<key, content>> pairs the user has ever allowed
    latest      \* content last recorded for a key by its own approval, None after reset

stores == <<hashes, snapshots>>
process == <<pc, key, content, table, shown>>
history == <<approved, latest>>
vars == <<serial, disk, stores, process, history>>

HashTable == [Key -> {Digest(c) : c \in Content} \cup {None}]
NoTable == [k \in Key |-> None]
NotShown == [by |-> None, base |-> None, target |-> None]
Views == [by : {"ozm", "git", None}, base : Content \cup {None}, target : Content \cup {None}]

PC == {"idle", "start", "review", "ask", "dialog", "save", "snapshot",
       "audit", "launch", "running", "reset"}

TypeOK ==
    /\ serial \in BOOLEAN
    /\ disk \in [File -> Content]
    /\ hashes \in HashTable
    /\ snapshots \in [File -> Content \cup {None}]
    /\ pc \in [Proc -> PC]
    /\ key \in [Proc -> Key \cup {All, None}]
    /\ content \in [Proc -> Content \cup {None}]
    /\ table \in [Proc -> HashTable]
    /\ shown \in [Proc -> Views]
    /\ approved \subseteq Key \X Content
    /\ latest \in [Key -> Content \cup {None}]

Init ==
    /\ serial \in BOOLEAN
    /\ disk \in [File -> Content]
    /\ hashes = NoTable
    /\ snapshots = [f \in File |-> None]
    /\ pc = [p \in Proc |-> "idle"]
    /\ key = [p \in Proc |-> None]
    /\ content = [p \in Proc |-> None]
    /\ table = [p \in Proc |-> NoTable]
    /\ shown = [p \in Proc |-> NotShown]
    /\ approved = {}
    /\ latest = [k \in Key |-> None]

-------------------------------------------------------------------------------
(* Steps every process shares. *)

Goto(p, place) == pc' = [pc EXCEPT ![p] = place]

(* The process ends: its memory is gone, its private files are removed. *)
Exit(p) ==
    /\ Goto(p, "idle")
    /\ key' = [key EXCEPT ![p] = None]
    /\ content' = [content EXCEPT ![p] = None]
    /\ table' = [table EXCEPT ![p] = NoTable]
    /\ shown' = [shown EXCEPT ![p] = NotShown]

MayBegin(p) ==
    /\ pc[p] = "idle"
    /\ serial => \A q \in Proc : pc[q] = "idle"

-------------------------------------------------------------------------------
(* The agent. *)

EditScript(f) ==
    /\ \E c \in Content \ {disk[f]} : disk' = [disk EXCEPT ![f] = c]
    /\ UNCHANGED <<serial, stores, process, history>>

-------------------------------------------------------------------------------
(* ozm run. *)

Begin(p, k, c) ==
    /\ MayBegin(p)
    /\ Goto(p, "start")
    /\ key' = [key EXCEPT ![p] = k]
    /\ content' = [content EXCEPT ![p] = c]
    /\ UNCHANGED <<serial, disk, stores, table, shown, history>>

(* The bytes of a persistent script are read exactly once. *)
RunFile(p, f) == Begin(p, f, disk[f])

(* `run --stdin` and `bash --command`: the caller supplies the bytes. *)
RunGenerated(p, g) == \E c \in Content : Begin(p, g, c)

(* Wrapper, pipeline, one-line and ozm-only content never reaches the cache. *)
RefuseContent(p) ==
    /\ pc[p] = "start"
    /\ <<key[p], content[p]>> \in Refused
    /\ Exit(p)
    /\ UNCHANGED <<serial, disk, stores, history>>

LoadHashesFails(p) ==
    /\ pc[p] = "start"
    /\ <<key[p], content[p]>> \notin Refused
    /\ Exit(p)
    /\ UNCHANGED <<serial, disk, stores, history>>

LoadHashes_AnyHashMatches(p) ==
    /\ pc[p] = "start"
    /\ <<key[p], content[p]>> \notin Refused
    /\ table' = [table EXCEPT ![p] = hashes]
    /\ Goto(p, IF hashes[key[p]] # None THEN "audit" ELSE "review")
    /\ UNCHANGED <<serial, disk, stores, key, content, shown, history>>

LoadHashes(p) ==
    /\ pc[p] = "start"
    /\ <<key[p], content[p]>> \notin Refused
    /\ table' = [table EXCEPT ![p] = hashes]
    /\ IF hashes[key[p]] = Digest(content[p])
       THEN Goto(p, "audit")
       ELSE Goto(p, "review")
    /\ UNCHANGED <<serial, disk, stores, key, content, shown, history>>

CompareWithSnapshot_RereadsFile(p) ==
    LET now == IF key[p] \in File THEN disk[key[p]] ELSE content[p]
    IN  /\ pc[p] = "review"
        /\ shown' = [shown EXCEPT ![p] = [by |-> "ozm", base |-> None, target |-> now]]
        /\ Goto(p, "ask")
        /\ UNCHANGED <<serial, disk, stores, key, content, table, history>>

(* A changed file is compared with its snapshot, if one exists; generated  *)
(* and new content is shown whole.                                         *)
CompareWithSnapshot(p) ==
    LET old == IF key[p] \in File /\ table[p][key[p]] # None
               THEN snapshots[key[p]]
               ELSE None
    IN  /\ pc[p] = "review"
        /\ shown' = [shown EXCEPT ![p] =
                        [by |-> "ozm",
                         base |-> IF old = content[p] THEN None ELSE old,
                         target |-> content[p]]]
        /\ Goto(p, "ask")
        /\ UNCHANGED <<serial, disk, stores, key, content, table, history>>

(* git's diff of the file, when there is one, takes the snapshot's place;  *)
(* git compares its index with the disk as it is now.                      *)
GitDiffers(p) ==
    /\ key[p] \in File
    /\ table[p][key[p]] # None
    /\ Index[key[p]] \notin {None, disk[key[p]]}

OpenDialog(p) ==
    /\ pc[p] = "ask"
    /\ \/ /\ GitDiffers(p)
          /\ shown' = [shown EXCEPT ![p] =
                          [by |-> "git", base |-> Index[key[p]], target |-> disk[key[p]]]]
       \/ UNCHANGED shown  \* git sees no difference, or does not answer in 5 seconds
    /\ Goto(p, "dialog")
    /\ UNCHANGED <<serial, disk, stores, key, content, table, history>>

(* The user's answer.  A denial, a dialog that cannot be shown and one     *)
(* that times out all end the process without touching the stores.         *)
Allow(p) ==
    /\ pc[p] = "dialog"
    /\ approved' = approved \cup {<<key[p], content[p]>>}
    /\ Goto(p, "save")
    /\ UNCHANGED <<serial, disk, stores, key, content, table, shown, latest>>

DenyOrNoDialog(p) ==
    /\ pc[p] = "dialog"
    /\ Exit(p)
    /\ UNCHANGED <<serial, disk, stores, history>>

RecordApproval_KeepsNoOthers(p) ==
    /\ hashes' = [NoTable EXCEPT ![key[p]] = Digest(content[p])]
    /\ latest' = [latest EXCEPT ![key[p]] = content[p]]

RecordApproval_Undigested(p) ==
    /\ hashes' = [table[p] EXCEPT ![key[p]] = content[p]]
    /\ latest' = [latest EXCEPT ![key[p]] = content[p]]

RecordApproval_HashesDisk(p) ==
    /\ hashes' = [table[p] EXCEPT ![key[p]] =
                     Digest(IF key[p] \in File THEN disk[key[p]] ELSE content[p])]
    /\ latest' = [latest EXCEPT ![key[p]] = content[p]]

(* The table loaded before the dialog is written back whole. *)
RecordApproval(p) ==
    /\ hashes' = [table[p] EXCEPT ![key[p]] = Digest(content[p])]
    /\ latest' = [latest EXCEPT ![key[p]] = content[p]]

SaveHashes(p) ==
    /\ pc[p] = "save"
    /\ RecordApproval(p)
    /\ Goto(p, IF key[p] \in File THEN "snapshot" ELSE "audit")
    /\ UNCHANGED <<serial, disk, snapshots, key, content, table, shown, approved>>

SaveHashesFails(p) ==
    /\ pc[p] = "save"
    /\ Exit(p)
    /\ UNCHANGED <<serial, disk, stores, history>>

(* The directory sync fails after the file was replaced: the process       *)
(* reports a failed save and does not execute, yet the entry is there.     *)
SaveHashesUnsynced(p) ==
    /\ pc[p] = "save"
    /\ RecordApproval(p)
    /\ Exit(p)
    /\ UNCHANGED <<serial, disk, snapshots, approved>>

SaveSnapshot_RereadsFile(p) ==
    /\ pc[p] = "snapshot"
    /\ snapshots' = [snapshots EXCEPT ![key[p]] = disk[key[p]]]
    /\ Goto(p, "audit")
    /\ UNCHANGED <<serial, disk, hashes, key, content, table, shown, history>>

(* A failure to save the snapshot is ignored. *)
SaveSnapshot(p) ==
    /\ pc[p] = "snapshot"
    /\ \/ snapshots' = [snapshots EXCEPT ![key[p]] = content[p]]
       \/ UNCHANGED snapshots
    /\ Goto(p, "audit")
    /\ UNCHANGED <<serial, disk, hashes, key, content, table, shown, history>>

(* An audit entry comes before every execution; if it cannot be written,   *)
(* the process dies here.                                                  *)
Audit(p) ==
    /\ pc[p] = "audit"
    /\ Goto(p, "launch")
    /\ UNCHANGED <<serial, disk, stores, key, content, table, shown, history>>

AuditFails(p) ==
    /\ pc[p] = "audit"
    /\ Exit(p)
    /\ UNCHANGED <<serial, disk, stores, history>>

Execute_RereadsFile(p) ==
    /\ pc[p] = "launch"
    /\ content' = [content EXCEPT ![p] = IF key[p] \in File THEN disk[key[p]] ELSE @]
    /\ Goto(p, "running")
    /\ UNCHANGED <<serial, disk, stores, key, table, shown, history>>

(* What runs is the private copy of the bytes read at the start. *)
Execute(p) ==
    /\ pc[p] = "launch"
    /\ Goto(p, "running")
    /\ UNCHANGED <<serial, disk, stores, key, content, table, shown, history>>

Finish(p) ==
    /\ pc[p] = "running"
    /\ Exit(p)
    /\ UNCHANGED <<serial, disk, stores, history>>

-------------------------------------------------------------------------------
(* ozm reset: load, drop entries, write back. *)

Victims(target) == IF target = All THEN ThisProject ELSE {target}

ResetLoad_FilesOnly(p, target) ==
    /\ MayBegin(p)
    /\ target # All => hashes[target] # None
    /\ key' = [key EXCEPT ![p] = target]
    /\ table' = [table EXCEPT ![p] =
                    [k \in Key |-> IF k \in Victims(target) \cap File THEN None ELSE hashes[k]]]
    /\ Goto(p, "reset")
    /\ UNCHANGED <<serial, disk, stores, content, shown, history>>

ResetLoad(p, target) ==
    /\ MayBegin(p)
    /\ target # All => hashes[target] # None
    /\ key' = [key EXCEPT ![p] = target]
    /\ table' = [table EXCEPT ![p] =
                    [k \in Key |-> IF k \in Victims(target) THEN None ELSE hashes[k]]]
    /\ Goto(p, "reset")
    /\ UNCHANGED <<serial, disk, stores, content, shown, history>>

ResetSave(p) ==
    /\ pc[p] = "reset"
    /\ hashes' = table[p]
    /\ latest' = [k \in Key |-> IF k \in Victims(key[p]) THEN None ELSE latest[k]]
    /\ Exit(p)
    /\ UNCHANGED <<serial, disk, snapshots, approved>>

ResetSaveFails(p) ==
    /\ pc[p] = "reset"
    /\ Exit(p)
    /\ UNCHANGED <<serial, disk, stores, history>>

-------------------------------------------------------------------------------

(* The process is killed at any point. *)
Crash(p) ==
    /\ pc[p] # "idle"
    /\ Exit(p)
    /\ UNCHANGED <<serial, disk, stores, history>>

(* Everything a process that has begun can do next. *)
Progress(p) ==
    \/ RefuseContent(p) \/ LoadHashesFails(p) \/ LoadHashes(p)
    \/ CompareWithSnapshot(p) \/ OpenDialog(p)
    \/ Allow(p) \/ DenyOrNoDialog(p)
    \/ SaveHashes(p) \/ SaveHashesFails(p) \/ SaveHashesUnsynced(p)
    \/ SaveSnapshot(p) \/ Audit(p) \/ AuditFails(p) \/ Execute(p)
    \/ ResetSave(p) \/ ResetSaveFails(p)

Next ==
    \/ \E f \in File : EditScript(f)
    \/ \E p \in Proc :
         \/ \E f \in File : RunFile(p, f)
         \/ \E g \in Generated : RunGenerated(p, g)
         \/ \E t \in File \cup {All} : ResetLoad(p, t)
         \/ Progress(p)
         \/ Finish(p)
         \/ Crash(p)

Spec == Init /\ [][Next]_vars

-------------------------------------------------------------------------------
(* Properties. *)

(* Whatever runs, the user has allowed those very bytes under that key:    *)
(* neither a stale hash table, nor an edit made while the dialog was open, *)
(* nor a reset or a crash lets anything else through (run.py:543-547,      *)
(* 743-746, 775-795).                                                      *)
RunsOnlyApproved ==
    \A p \in Proc : pc[p] = "running" => <<key[p], content[p]>> \in approved

(* A hash anywhere, in the file or in the memory of a process that may     *)
(* write it back, stands for an approval of that key.                      *)
ApprovedTable(t) ==
    \A k \in Key : t[k] # None => \E c \in Content : t[k] = Digest(c) /\ <<k, c>> \in approved

HashesApproved == ApprovedTable(hashes)

(* The base of the next snapshot diff is content the user allowed for that *)
(* file once, whichever processes saved it and in whichever order          *)
(* (run.py:785-789).                                                       *)
SnapshotsApproved ==
    \A f \in File : snapshots[f] # None => <<f, snapshots[f]>> \in approved

(* Unless git's diff takes its place, the dialog shows the bytes that will *)
(* run: whole, or as a diff against content the user allowed for that file *)
(* before (run.py:752-773, approve.py:172-175).                            *)
AllowedAfterSeeing ==
    \A p \in Proc :
        /\ pc[p] \in {"dialog", "save", "snapshot"}
        /\ shown[p].by # "git"
        => /\ shown[p].target = content[p]
           /\ shown[p].base # None => <<key[p], shown[p].base>> \in approved

(* An agent that runs one ozm process at a time finds in the cache exactly *)
(* the approvals recorded and not reset since, through crashes and failed  *)
(* saves (run.py:776-784, 979-997).                                        *)
SerialCacheExact ==
    serial => \A k \in Key :
        hashes[k] = IF latest[k] = None THEN None ELSE Digest(latest[k])

(* And it is never asked again about the content it last approved.         *)
SerialNeverAsksAgain ==
    \A p \in Proc :
        serial /\ pc[p] \in {"review", "ask", "dialog"}
            => latest[key[p]] # content[p]

(* What a process runs and what the user agreed to, and nothing else.      *)
Gate == INSTANCE ReviewGate WITH
    consent <- approved,
    running <- [p \in Proc |-> IF pc[p] = "running"
                               THEN <<key[p], content[p]>> ELSE None]

ImplementsReviewGate == Gate!Spec

-------------------------------------------------------------------------------
(* What the documentation says and the code does not keep. *)

(* docs/commands.md:344: "After reset, the next `ozm run` or `ozm cmd`     *)
(* will prompt for approval again."  A forgotten entry stays forgotten     *)
(* until its own key is approved anew.                                     *)
ResetHolds == \A k \in Key : latest[k] = None => hashes[k] = None

(* README.md:97: "Changed persistent files show a diff against their last  *)
(* approved snapshot."  The base of the diff on screen is the content the  *)
(* cache holds the file's hash of.                                         *)
DiffFromLastApproved ==
    \A p \in Proc :
        pc[p] = "dialog" /\ shown[p].base # None
            => Digest(shown[p].base) = table[p][key[p]]
===============================================================================
