------------------------- MODULE ApprovalCache_proofs --------------------------
(***************************************************************************)
(* Proofs about ApprovalCache, for any number of processes, keys and       *)
(* contents and any injective Digest.                                      *)
(*                                                                         *)
(* RunsOnlyApproved is not inductive: a cached run trusts hashes.yaml, and *)
(* hashes.yaml is overwritten from the memory of other processes.  The     *)
(* inductive invariant therefore follows every hash to each place it can   *)
(* be written back from.                                                   *)
(***************************************************************************)
EXTENDS ApprovalCache, TLAPS

(* The places in which a process has a key and the bytes it read. *)
Engaged == {"start", "review", "ask", "dialog", "save", "snapshot",
            "audit", "launch", "running"}

(* The places past the user's answer, or past a cache hit. *)
Cleared == {"save", "snapshot", "audit", "launch", "running"}

EngagedTyped ==
    \A p \in Proc : pc[p] \in Engaged => key[p] \in Key /\ content[p] \in Content

SnapshotIsOfFile == \A p \in Proc : pc[p] = "snapshot" => key[p] \in File

ResetTyped == \A p \in Proc : pc[p] = "reset" => key[p] \in File \cup {All}

ClearedApproved ==
    \A p \in Proc : pc[p] \in Cleared => <<key[p], content[p]>> \in approved

TablesApproved == \A p \in Proc : ApprovedTable(table[p])

IInv ==
    /\ TypeOK
    /\ EngagedTyped
    /\ SnapshotIsOfFile
    /\ ResetTyped
    /\ ClearedApproved
    /\ HashesApproved
    /\ TablesApproved
    /\ SnapshotsApproved

-------------------------------------------------------------------------------
(* Hash tables. *)

LEMMA NoTableApproved ==
    NoTable \in HashTable /\ ApprovedTable(NoTable)
BY DEF NoTable, HashTable, ApprovedTable

(* Writing the digest of allowed content into an approved table keeps it   *)
(* approved.                                                               *)
LEMMA RecordKeepsApproved ==
    ASSUME NEW t \in HashTable, ApprovedTable(t),
           NEW k \in Key, NEW c \in Content, <<k, c>> \in approved
    PROVE  LET u == [t EXCEPT ![k] = Digest(c)]
           IN  u \in HashTable /\ ApprovedTable(u)
BY DEF HashTable, ApprovedTable

(* Dropping entries keeps a table approved. *)
LEMMA DropKeepsApproved ==
    ASSUME NEW t \in HashTable, ApprovedTable(t), NEW S
    PROVE  LET u == [k \in Key |-> IF k \in S THEN None ELSE t[k]]
           IN  u \in HashTable /\ ApprovedTable(u)
BY DEF HashTable, ApprovedTable

(* A hit in an approved table means the user allowed that content. *)
LEMMA HitIsApproved ==
    ASSUME NEW t, ApprovedTable(t),
           NEW k \in Key, NEW c \in Content, t[k] = Digest(c)
    PROVE  <<k, c>> \in approved
BY DigestIsInjective, NoneIsFresh DEF ApprovedTable

(* More approvals never invalidate a table. *)
LEMMA ApprovedTableMonotone ==
    ASSUME approved \subseteq approved', NEW t, ApprovedTable(t)
    PROVE  \A k \in Key : t[k] # None =>
              \E c \in Content : t[k] = Digest(c) /\ <<k, c>> \in approved'
BY DEF ApprovedTable

-------------------------------------------------------------------------------
(* Steps. *)

USE DEF Engaged, Cleared

(* The ends of a process: nothing shared changes, its memory is cleared. *)
LEMMA ExitKeepsIInv ==
    ASSUME IInv, NEW p \in Proc, Exit(p),
           UNCHANGED <<serial, disk, stores, history>>
    PROVE  IInv'
<1>1. TypeOK'
  BY NoTableApproved DEF IInv, TypeOK, Exit, Goto, stores, history, PC, Views, NotShown
<1>2. /\ EngagedTyped' /\ SnapshotIsOfFile' /\ ResetTyped' /\ ClearedApproved'
  BY DEF IInv, TypeOK, Exit, Goto, stores, history, PC,
         EngagedTyped, SnapshotIsOfFile, ResetTyped, ClearedApproved
<1>3. HashesApproved' /\ SnapshotsApproved'
  BY DEF IInv, stores, history, HashesApproved, SnapshotsApproved, ApprovedTable
<1>4. TablesApproved'
  BY NoTableApproved
  DEF IInv, TypeOK, Exit, history, TablesApproved, ApprovedTable
<1> QED
  BY <1>1, <1>2, <1>3, <1>4 DEF IInv

LEMMA EditScriptKeepsIInv ==
    ASSUME IInv, NEW f \in File, EditScript(f)
    PROVE  IInv'
BY DEF IInv, TypeOK, EditScript, stores, process, history,
       EngagedTyped, SnapshotIsOfFile, ResetTyped, ClearedApproved,
       HashesApproved, TablesApproved, SnapshotsApproved, ApprovedTable

LEMMA BeginKeepsIInv ==
    ASSUME IInv, NEW p \in Proc, NEW k \in Key, NEW c \in Content, Begin(p, k, c)
    PROVE  IInv'
BY DEF IInv, TypeOK, Begin, Goto, stores, history, PC,
       EngagedTyped, SnapshotIsOfFile, ResetTyped, ClearedApproved,
       HashesApproved, TablesApproved, SnapshotsApproved, ApprovedTable

LEMMA LoadHashesKeepsIInv ==
    ASSUME IInv, NEW p \in Proc, LoadHashes(p)
    PROVE  IInv'
<1> USE DEF IInv, TypeOK, LoadHashes, Goto, stores, history, PC
<1>1. TypeOK'
  OBVIOUS
<1>2. EngagedTyped' /\ SnapshotIsOfFile' /\ ResetTyped'
  BY DEF EngagedTyped, SnapshotIsOfFile, ResetTyped
<1>3. ClearedApproved'
  <2>1. pc'[p] \in Cleared => <<key[p], content[p]>> \in approved
    BY HitIsApproved DEF EngagedTyped, HashesApproved
  <2> QED
    BY <2>1 DEF ClearedApproved
<1>4. HashesApproved' /\ SnapshotsApproved'
  BY DEF HashesApproved, SnapshotsApproved, ApprovedTable
<1>5. TablesApproved'
  BY DEF TablesApproved, HashesApproved, ApprovedTable
<1> QED
  BY <1>1, <1>2, <1>3, <1>4, <1>5 DEF IInv

LEMMA CompareWithSnapshotKeepsIInv ==
    ASSUME IInv, NEW p \in Proc, CompareWithSnapshot(p)
    PROVE  IInv'
<1>1. TypeOK'
  BY DEF IInv, TypeOK, EngagedTyped, CompareWithSnapshot, Goto, stores, history, PC, Views
<1> QED
  BY <1>1 DEF IInv, TypeOK, CompareWithSnapshot, Goto, stores, history, PC,
       EngagedTyped, SnapshotIsOfFile, ResetTyped, ClearedApproved,
       HashesApproved, TablesApproved, SnapshotsApproved, ApprovedTable

LEMMA OpenDialogKeepsIInv ==
    ASSUME IInv, NEW p \in Proc, OpenDialog(p)
    PROVE  IInv'
<1>1. TypeOK'
  BY IndexIsTyped
  DEF IInv, TypeOK, EngagedTyped, OpenDialog, GitDiffers, Goto, stores, history, PC, Views
<1> QED
  BY <1>1 DEF IInv, TypeOK, OpenDialog, Goto, stores, history, PC,
       EngagedTyped, SnapshotIsOfFile, ResetTyped, ClearedApproved,
       HashesApproved, TablesApproved, SnapshotsApproved, ApprovedTable

LEMMA AllowKeepsIInv ==
    ASSUME IInv, NEW p \in Proc, Allow(p)
    PROVE  IInv'
<1>1. key[p] \in Key /\ content[p] \in Content
  BY DEF IInv, EngagedTyped, Allow
<1>2. TypeOK'
  BY <1>1 DEF IInv, TypeOK, Allow, Goto, stores, PC
<1>3. EngagedTyped' /\ SnapshotIsOfFile' /\ ResetTyped' /\ ClearedApproved'
  BY DEF IInv, TypeOK, Allow, Goto, stores, PC,
         EngagedTyped, SnapshotIsOfFile, ResetTyped, ClearedApproved
<1>4. HashesApproved' /\ SnapshotsApproved' /\ TablesApproved'
  BY ApprovedTableMonotone
  DEF IInv, Allow, stores, HashesApproved, SnapshotsApproved, TablesApproved, ApprovedTable
<1> QED
  BY <1>2, <1>3, <1>4 DEF IInv

(* What both outcomes of a save that reaches the file leave in it. *)
LEMMA RecordApprovalKeepsHashes ==
    ASSUME IInv, NEW p \in Proc, pc[p] = "save", RecordApproval(p), UNCHANGED approved
    PROVE  /\ hashes' \in HashTable
           /\ latest' \in [Key -> Content \cup {None}]
           /\ HashesApproved'
<1>1. /\ key[p] \in Key /\ content[p] \in Content
      /\ <<key[p], content[p]>> \in approved
      /\ table[p] \in HashTable /\ ApprovedTable(table[p])
  BY DEF IInv, TypeOK, EngagedTyped, ClearedApproved, TablesApproved
<1>2. hashes' \in HashTable /\ ApprovedTable(hashes')
  BY <1>1, RecordKeepsApproved DEF RecordApproval
<1> QED
  BY <1>1, <1>2 DEF IInv, TypeOK, RecordApproval, HashesApproved, ApprovedTable

LEMMA SaveHashesKeepsIInv ==
    ASSUME IInv, NEW p \in Proc, SaveHashes(p)
    PROVE  IInv'
<1>1. /\ hashes' \in HashTable
      /\ latest' \in [Key -> Content \cup {None}]
      /\ HashesApproved'
  BY RecordApprovalKeepsHashes DEF SaveHashes
<1>2. TypeOK'
  BY <1>1 DEF IInv, TypeOK, SaveHashes, Goto, PC
<1> QED
  BY <1>1, <1>2
  DEF IInv, TypeOK, SaveHashes, Goto, PC,
      EngagedTyped, SnapshotIsOfFile, ResetTyped, ClearedApproved,
      TablesApproved, SnapshotsApproved, ApprovedTable

LEMMA SaveHashesUnsyncedKeepsIInv ==
    ASSUME IInv, NEW p \in Proc, SaveHashesUnsynced(p)
    PROVE  IInv'
<1>1. /\ hashes' \in HashTable
      /\ latest' \in [Key -> Content \cup {None}]
      /\ HashesApproved'
  BY RecordApprovalKeepsHashes DEF SaveHashesUnsynced
<1>2. TypeOK'
  BY <1>1, NoTableApproved
  DEF IInv, TypeOK, SaveHashesUnsynced, Exit, Goto, PC, Views, NotShown
<1>3. EngagedTyped' /\ SnapshotIsOfFile' /\ ResetTyped' /\ ClearedApproved' /\ SnapshotsApproved'
  BY DEF IInv, TypeOK, SaveHashesUnsynced, Exit, Goto, PC,
         EngagedTyped, SnapshotIsOfFile, ResetTyped, ClearedApproved, SnapshotsApproved
<1>4. TablesApproved'
  BY NoTableApproved
  DEF IInv, TypeOK, SaveHashesUnsynced, Exit, TablesApproved, ApprovedTable
<1> QED
  BY <1>1, <1>2, <1>3, <1>4 DEF IInv

LEMMA SaveSnapshotKeepsIInv ==
    ASSUME IInv, NEW p \in Proc, SaveSnapshot(p)
    PROVE  IInv'
<1>1. /\ key[p] \in File /\ content[p] \in Content
      /\ <<key[p], content[p]>> \in approved
  BY DEF IInv, SaveSnapshot, EngagedTyped, SnapshotIsOfFile, ClearedApproved
<1>2. TypeOK' /\ SnapshotsApproved'
  BY <1>1 DEF IInv, TypeOK, SaveSnapshot, Goto, history, PC, SnapshotsApproved
<1> QED
  BY <1>2 DEF IInv, TypeOK, SaveSnapshot, Goto, history, PC,
      EngagedTyped, SnapshotIsOfFile, ResetTyped, ClearedApproved,
      HashesApproved, TablesApproved, ApprovedTable

(* Audit and Execute only move the process on. *)
LEMMA MoveOnKeepsIInv ==
    ASSUME IInv, NEW p \in Proc, Audit(p) \/ Execute(p)
    PROVE  IInv'
<1>1. /\ pc[p] \in {"audit", "launch"}
      /\ \/ pc' = [pc EXCEPT ![p] = "launch"]
         \/ pc' = [pc EXCEPT ![p] = "running"]
      /\ UNCHANGED <<serial, disk, hashes, snapshots, key, content, table, shown,
                     approved, latest>>
  BY DEF Audit, Execute, Goto, stores, history
<1>2. TypeOK'
  BY <1>1 DEF IInv, TypeOK, PC
<1>3. EngagedTyped' /\ SnapshotIsOfFile' /\ ResetTyped' /\ ClearedApproved'
  BY <1>1 DEF IInv, TypeOK, PC, EngagedTyped, SnapshotIsOfFile, ResetTyped, ClearedApproved
<1>4. HashesApproved' /\ TablesApproved' /\ SnapshotsApproved'
  BY <1>1 DEF IInv, HashesApproved, TablesApproved, SnapshotsApproved, ApprovedTable
<1> QED
  BY <1>2, <1>3, <1>4 DEF IInv

LEMMA ResetLoadKeepsIInv ==
    ASSUME IInv, NEW p \in Proc, NEW t \in File \cup {All}, ResetLoad(p, t)
    PROVE  IInv'
<1>1. table'[p] \in HashTable /\ ApprovedTable(table'[p])
  BY DropKeepsApproved DEF IInv, TypeOK, ResetLoad, HashesApproved
<1>2. TypeOK'
  BY <1>1 DEF IInv, TypeOK, ResetLoad, Goto, stores, history, PC, Key
<1>3. TablesApproved'
  BY <1>1 DEF IInv, TypeOK, ResetLoad, history, TablesApproved, ApprovedTable
<1> QED
  BY <1>2, <1>3
  DEF IInv, TypeOK, ResetLoad, Goto, stores, history, PC,
      EngagedTyped, SnapshotIsOfFile, ResetTyped, ClearedApproved,
      HashesApproved, SnapshotsApproved, ApprovedTable

LEMMA ResetSaveKeepsIInv ==
    ASSUME IInv, NEW p \in Proc, ResetSave(p)
    PROVE  IInv'
<1>1. hashes' \in HashTable /\ HashesApproved'
  BY DEF IInv, TypeOK, ResetSave, TablesApproved, HashesApproved, ApprovedTable
<1>2. TypeOK'
  BY <1>1, NoTableApproved DEF IInv, TypeOK, ResetSave, Exit, Goto, PC, Views, NotShown
<1>3. EngagedTyped' /\ SnapshotIsOfFile' /\ ResetTyped' /\ ClearedApproved' /\ SnapshotsApproved'
  BY DEF IInv, TypeOK, ResetSave, Exit, Goto, PC,
         EngagedTyped, SnapshotIsOfFile, ResetTyped, ClearedApproved, SnapshotsApproved
<1>4. TablesApproved'
  BY NoTableApproved DEF IInv, TypeOK, ResetSave, Exit, TablesApproved, ApprovedTable
<1> QED
  BY <1>1, <1>2, <1>3, <1>4 DEF IInv

-------------------------------------------------------------------------------

LEMMA InitIInv == Init => IInv
BY NoTableApproved
DEF Init, IInv, TypeOK, PC, Views, NotShown, EngagedTyped, SnapshotIsOfFile, ResetTyped,
    ClearedApproved, HashesApproved, TablesApproved, SnapshotsApproved, ApprovedTable

LEMMA StutterKeepsIInv ==
    ASSUME IInv, UNCHANGED vars
    PROVE  IInv'
BY DEF IInv, TypeOK, vars, stores, process, history,
       EngagedTyped, SnapshotIsOfFile, ResetTyped, ClearedApproved,
       HashesApproved, TablesApproved, SnapshotsApproved, ApprovedTable

LEMMA NextIInv ==
    ASSUME IInv, [Next]_vars
    PROVE  IInv'
<1>1. ASSUME NEW f \in File, EditScript(f) PROVE IInv'
  BY <1>1, EditScriptKeepsIInv
<1>2. ASSUME NEW p \in Proc, NEW f \in File, RunFile(p, f) PROVE IInv'
  BY <1>2, BeginKeepsIInv DEF RunFile, IInv, TypeOK, Key
<1>3. ASSUME NEW p \in Proc, NEW g \in Generated, RunGenerated(p, g) PROVE IInv'
  BY <1>3, BeginKeepsIInv DEF RunGenerated, Key
<1>4. ASSUME NEW p \in Proc, NEW t \in File \cup {All}, ResetLoad(p, t) PROVE IInv'
  BY <1>4, ResetLoadKeepsIInv
<1>5. ASSUME NEW p \in Proc, Progress(p) PROVE IInv'
  <2>1. CASE \/ RefuseContent(p) \/ LoadHashesFails(p) \/ DenyOrNoDialog(p)
             \/ SaveHashesFails(p) \/ AuditFails(p) \/ ResetSaveFails(p)
    BY <2>1, ExitKeepsIInv
    DEF RefuseContent, LoadHashesFails, DenyOrNoDialog, SaveHashesFails, AuditFails,
        ResetSaveFails
  <2>2. CASE LoadHashes(p)
    BY <2>2, LoadHashesKeepsIInv
  <2>3. CASE CompareWithSnapshot(p) \/ OpenDialog(p)
    BY <2>3, CompareWithSnapshotKeepsIInv, OpenDialogKeepsIInv
  <2>4. CASE Allow(p)
    BY <2>4, AllowKeepsIInv
  <2>5. CASE SaveHashes(p) \/ SaveHashesUnsynced(p)
    BY <2>5, SaveHashesKeepsIInv, SaveHashesUnsyncedKeepsIInv
  <2>6. CASE SaveSnapshot(p)
    BY <2>6, SaveSnapshotKeepsIInv
  <2>7. CASE Audit(p) \/ Execute(p)
    BY <2>7, MoveOnKeepsIInv
  <2>8. CASE ResetSave(p)
    BY <2>8, ResetSaveKeepsIInv
  <2> QED
    BY <1>5, <2>1, <2>2, <2>3, <2>4, <2>5, <2>6, <2>7, <2>8 DEF Progress
<1>6. ASSUME NEW p \in Proc, Finish(p) \/ Crash(p) PROVE IInv'
  BY <1>6, ExitKeepsIInv DEF Finish, Crash
<1>7. CASE UNCHANGED vars
  BY <1>7, StutterKeepsIInv
<1> QED
  BY <1>1, <1>2, <1>3, <1>4, <1>5, <1>6, <1>7 DEF Next

(* The inductive invariant holds of every behaviour. *)
THEOREM SpecIInv == Spec => []IInv
BY InitIInv, NextIInv, PTL DEF Spec

(* Every variable keeps its type, for any number of processes. *)
THEOREM SpecTypeOK == Spec => []TypeOK
<1>1. IInv => TypeOK
  BY DEF IInv
<1> QED
  BY <1>1, SpecIInv, PTL

(* No process ever executes bytes the user has not allowed under that key. *)
THEOREM SpecRunsOnlyApproved == Spec => []RunsOnlyApproved
<1>1. IInv => RunsOnlyApproved
  BY DEF IInv, ClearedApproved, RunsOnlyApproved
<1> QED
  BY <1>1, SpecIInv, PTL

(* Every hash in hashes.yaml stands for an approval of its key. *)
THEOREM SpecHashesApproved == Spec => []HashesApproved
<1>1. IInv => HashesApproved
  BY DEF IInv
<1> QED
  BY <1>1, SpecIInv, PTL

(* Every saved snapshot is content the user allowed for that file. *)
THEOREM SpecSnapshotsApproved == Spec => []SnapshotsApproved
<1>1. IInv => SnapshotsApproved
  BY DEF IInv
<1> QED
  BY <1>1, SpecIInv, PTL

-------------------------------------------------------------------------------
(* The dialog shows what will run. *)

SeenInv ==
    \A p \in Proc :
        pc[p] \in {"ask", "dialog", "save", "snapshot"} /\ shown[p].by # "git"
        => /\ shown[p].target = content[p]
           /\ shown[p].base # None => <<key[p], shown[p].base>> \in approved

LEMMA NextSeenInv ==
    ASSUME IInv, SeenInv, [Next]_vars
    PROVE  SeenInv'
<1> USE DEF IInv, TypeOK, PC, SeenInv
<1>1. ASSUME NEW p \in Proc, Exit(p), UNCHANGED approved PROVE SeenInv'
  BY <1>1 DEF Exit, Goto
<1>2. ASSUME NEW f \in File, EditScript(f) PROVE SeenInv'
  BY <1>2 DEF EditScript, process, history
<1>3. ASSUME NEW p \in Proc, NEW k, NEW c, Begin(p, k, c) PROVE SeenInv'
  BY <1>3 DEF Begin, Goto, history
<1>4. ASSUME NEW p \in Proc, NEW t, ResetLoad(p, t) PROVE SeenInv'
  BY <1>4 DEF ResetLoad, Goto, history
<1>5. ASSUME NEW p \in Proc, LoadHashes(p) PROVE SeenInv'
  BY <1>5 DEF LoadHashes, Goto, history
<1>6. ASSUME NEW p \in Proc, CompareWithSnapshot(p) PROVE SeenInv'
  <2>1. /\ shown'[p].target = content[p]
        /\ shown'[p].base # None => <<key[p], shown'[p].base>> \in approved
    BY <1>6 DEF CompareWithSnapshot, SnapshotsApproved
  <2> QED
    BY <1>6, <2>1 DEF CompareWithSnapshot, Goto, history
<1>7. ASSUME NEW p \in Proc, OpenDialog(p) PROVE SeenInv'
  BY <1>7 DEF OpenDialog, Goto, history
<1>8. ASSUME NEW p \in Proc, Allow(p) PROVE SeenInv'
  BY <1>8 DEF Allow, Goto
<1>9. ASSUME NEW p \in Proc, SaveHashes(p) PROVE SeenInv'
  BY <1>9 DEF SaveHashes, Goto
<1>10. ASSUME NEW p \in Proc, SaveSnapshot(p) \/ Audit(p) \/ Execute(p) PROVE SeenInv'
  BY <1>10 DEF SaveSnapshot, Audit, Execute, Goto, history
<1>11. CASE UNCHANGED vars
  BY <1>11 DEF vars, process, history
<1> QED
  BY <1>1, <1>2, <1>3, <1>4, <1>5, <1>6, <1>7, <1>8, <1>9, <1>10, <1>11
  DEF Next, Progress, RunFile, RunGenerated, RefuseContent, LoadHashesFails, DenyOrNoDialog,
      SaveHashesFails, SaveHashesUnsynced, AuditFails, ResetSave, ResetSaveFails, Finish,
      Crash, history

(* Unless git's diff is shown, the user's answer is about the bytes that   *)
(* run, and a diff starts from content allowed before.                     *)
THEOREM SpecAllowedAfterSeeing == Spec => []AllowedAfterSeeing
<1>1. Init => SeenInv
  BY DEF Init, SeenInv
<1>2. SeenInv => AllowedAfterSeeing
  BY DEF SeenInv, AllowedAfterSeeing
<1> QED
  BY <1>1, <1>2, NextSeenInv, SpecIInv, PTL DEF Spec

-------------------------------------------------------------------------------
(* One process at a time.                                                  *)
(*                                                                         *)
(* That the cache is exact is not inductive either: a save writes back     *)
(* what was loaded before the dialog.  When processes take turns, that is  *)
(* still what the file holds.                                              *)

OneAtATime == \A p, q \in Proc : pc[p] # "idle" /\ pc[q] # "idle" => p = q

(* What a process will write back is what is there, but for its own change. *)
TableFresh ==
    \A p \in Proc :
        /\ pc[p] \in {"review", "ask", "dialog", "save"} => table[p] = hashes
        /\ pc[p] = "reset" =>
             table[p] = [k \in Key |-> IF k \in Victims(key[p]) THEN None ELSE hashes[k]]

(* Whoever is about to ask has found no entry for what it read. *)
AsksOnMiss ==
    \A p \in Proc :
        pc[p] \in {"review", "ask", "dialog"} => hashes[key[p]] # Digest(content[p])

CacheExact == \A k \in Key : hashes[k] = IF latest[k] = None THEN None ELSE Digest(latest[k])

SerialInv == serial => OneAtATime /\ TableFresh /\ AsksOnMiss /\ CacheExact

(* The steps that leave the stores alone, and bring no process to a place  *)
(* where it has something to write back.                                   *)
LEMMA StoresStaySerial ==
    ASSUME IInv, SerialInv, NEW p \in Proc,
           \A q \in Proc \ {p} : /\ pc'[q] = pc[q] /\ key'[q] = key[q]
                                 /\ content'[q] = content[q] /\ table'[q] = table[q],
           UNCHANGED <<serial, hashes, latest>>,
           \/ pc'[p] \notin {"review", "ask", "dialog", "save", "reset"}
           \/ /\ pc[p] \in {"review", "ask", "dialog"}
              /\ pc'[p] \in {"review", "ask", "dialog", "save"}
              /\ key'[p] = key[p] /\ content'[p] = content[p] /\ table'[p] = table[p],
           pc'[p] # "idle" => pc[p] # "idle" \/ MayBegin(p)
    PROVE  SerialInv'
<1> SUFFICES ASSUME serial PROVE (OneAtATime /\ TableFresh /\ AsksOnMiss /\ CacheExact)'
  BY DEF SerialInv
<1>1. OneAtATime'
  BY DEF SerialInv, OneAtATime, MayBegin
<1>2. TableFresh'
  BY DEF SerialInv, TableFresh
<1>3. AsksOnMiss'
  BY DEF SerialInv, AsksOnMiss
<1>4. CacheExact'
  BY DEF SerialInv, CacheExact
<1> QED
  BY <1>1, <1>2, <1>3, <1>4

LEMMA LoadHashesSerial ==
    ASSUME IInv, SerialInv, NEW p \in Proc, LoadHashes(p)
    PROVE  SerialInv'
<1> SUFFICES ASSUME serial PROVE (OneAtATime /\ TableFresh /\ AsksOnMiss /\ CacheExact)'
  BY DEF SerialInv, LoadHashes
<1> USE DEF IInv, TypeOK, LoadHashes, Goto, stores, history, PC
<1>1. OneAtATime'
  BY DEF SerialInv, OneAtATime
<1>2. TableFresh'
  BY DEF SerialInv, TableFresh
<1>3. AsksOnMiss'
  BY DEF SerialInv, AsksOnMiss
<1>4. CacheExact'
  BY DEF SerialInv, CacheExact
<1> QED
  BY <1>1, <1>2, <1>3, <1>4

LEMMA ResetLoadSerial ==
    ASSUME IInv, SerialInv, NEW p \in Proc, NEW t, ResetLoad(p, t)
    PROVE  SerialInv'
<1> SUFFICES ASSUME serial PROVE (OneAtATime /\ TableFresh /\ AsksOnMiss /\ CacheExact)'
  BY DEF SerialInv, ResetLoad
<1> USE DEF IInv, TypeOK, ResetLoad, Goto, stores, history, PC
<1>1. OneAtATime'
  BY DEF SerialInv, OneAtATime, MayBegin
<1>2. TableFresh'
  BY DEF SerialInv, TableFresh
<1>3. AsksOnMiss'
  BY DEF SerialInv, AsksOnMiss
<1>4. CacheExact'
  BY DEF SerialInv, CacheExact
<1> QED
  BY <1>1, <1>2, <1>3, <1>4

(* A save, whether it is synced or not: nobody else has a table.           *)
LEMMA SaveSerial ==
    ASSUME IInv, SerialInv, NEW p \in Proc, pc[p] = "save", RecordApproval(p),
           \A q \in Proc \ {p} : pc'[q] = pc[q],
           pc'[p] \in {"snapshot", "audit", "idle"},
           UNCHANGED serial
    PROVE  SerialInv'
<1> SUFFICES ASSUME serial PROVE (OneAtATime /\ TableFresh /\ AsksOnMiss /\ CacheExact)'
  BY DEF SerialInv
<1>1. /\ key[p] \in Key /\ content[p] \in Content /\ content[p] # None
      /\ hashes \in HashTable /\ latest \in [Key -> Content \cup {None}]
  BY NoneIsFresh DEF IInv, TypeOK, EngagedTyped
<1>2. \A q \in Proc \ {p} : pc[q] = "idle" /\ pc'[q] = "idle"
  BY DEF SerialInv, OneAtATime
<1>3. OneAtATime' /\ TableFresh' /\ AsksOnMiss'
  BY <1>2 DEF OneAtATime, TableFresh, AsksOnMiss
<1>4. table[p] = hashes
  BY DEF SerialInv, TableFresh
<1>5. CacheExact'
  BY <1>1, <1>4 DEF SerialInv, CacheExact, RecordApproval, HashTable
<1> QED
  BY <1>3, <1>5

LEMMA ResetSaveSerial ==
    ASSUME IInv, SerialInv, NEW p \in Proc, ResetSave(p)
    PROVE  SerialInv'
<1> SUFFICES ASSUME serial PROVE (OneAtATime /\ TableFresh /\ AsksOnMiss /\ CacheExact)'
  BY DEF SerialInv, ResetSave
<1>1. pc[p] = "reset" /\ pc' = [pc EXCEPT ![p] = "idle"]
  BY DEF ResetSave, Exit, Goto
<1>2. \A q \in Proc : pc'[q] = "idle"
  BY <1>1 DEF SerialInv, OneAtATime, IInv, TypeOK
<1>3. OneAtATime' /\ TableFresh' /\ AsksOnMiss'
  BY <1>2 DEF OneAtATime, TableFresh, AsksOnMiss
<1>4. hashes' = [k \in Key |-> IF k \in Victims(key[p]) THEN None ELSE hashes[k]]
  BY <1>1 DEF ResetSave, SerialInv, TableFresh
<1>5. CacheExact'
  BY <1>4 DEF ResetSave, SerialInv, CacheExact
<1> QED
  BY <1>3, <1>5

LEMMA NextSerialInv ==
    ASSUME IInv, SerialInv, [Next]_vars
    PROVE  SerialInv'
<1> USE DEF IInv, TypeOK, PC
<1>1. ASSUME NEW p \in Proc, Exit(p), UNCHANGED <<serial, hashes, latest>> PROVE SerialInv'
  BY <1>1, StoresStaySerial DEF Exit, Goto
<1>2. CASE UNCHANGED vars \/ \E f \in File : EditScript(f)
  <2>1. UNCHANGED <<serial, hashes, latest, pc, key, content, table>>
    BY <1>2 DEF vars, EditScript, stores, process, history
  <2> QED
    BY <2>1 DEF SerialInv, OneAtATime, TableFresh, AsksOnMiss, CacheExact
<1>3. ASSUME NEW p \in Proc, NEW k, NEW c, Begin(p, k, c) PROVE SerialInv'
  BY <1>3, StoresStaySerial DEF Begin, Goto, stores, history
<1>4. ASSUME NEW p \in Proc,
             CompareWithSnapshot(p) \/ OpenDialog(p) \/ Allow(p) \/ SaveSnapshot(p)
               \/ Audit(p) \/ Execute(p)
      PROVE  SerialInv'
  BY <1>4, StoresStaySerial
  DEF CompareWithSnapshot, OpenDialog, Allow, SaveSnapshot, Audit, Execute, Goto, stores, history
<1>5. ASSUME NEW p \in Proc, SaveHashes(p) \/ SaveHashesUnsynced(p) PROVE SerialInv'
  BY <1>5, SaveSerial DEF SaveHashes, SaveHashesUnsynced, Exit, Goto
<1>6. ASSUME NEW p \in Proc,
             \/ RefuseContent(p) \/ LoadHashesFails(p) \/ DenyOrNoDialog(p)
             \/ SaveHashesFails(p) \/ AuditFails(p) \/ ResetSaveFails(p)
             \/ Finish(p) \/ Crash(p)
      PROVE  SerialInv'
  BY <1>1, <1>6
  DEF RefuseContent, LoadHashesFails, DenyOrNoDialog, SaveHashesFails, AuditFails,
      ResetSaveFails, Finish, Crash, stores, history
<1> QED
  BY <1>2, <1>3, <1>4, <1>5, <1>6, LoadHashesSerial, ResetLoadSerial, ResetSaveSerial
  DEF Next, Progress, RunFile, RunGenerated

LEMMA SpecSerialInv == Spec => []SerialInv
<1>1. Init => SerialInv
  BY DEF Init, SerialInv, OneAtATime, TableFresh, AsksOnMiss, CacheExact, NoTable
<1> QED
  BY <1>1, NextSerialInv, SpecIInv, PTL DEF Spec

(* When processes take turns, hashes.yaml holds exactly the approvals      *)
(* recorded and not reset since, whatever crashed and whichever save       *)
(* failed before or after it had replaced the file (run.py:776-784).       *)
THEOREM SpecSerialCacheExact == Spec => []SerialCacheExact
<1>1. SerialInv => SerialCacheExact
  BY DEF SerialInv, CacheExact, SerialCacheExact
<1> QED
  BY <1>1, SpecSerialInv, PTL

(* Nor is the user then asked about the content last approved for a key    *)
(* (run.py:743-746).                                                       *)
THEOREM SpecSerialNeverAsksAgain == Spec => []SerialNeverAsksAgain
<1>1. IInv /\ SerialInv => SerialNeverAsksAgain
  BY NoneIsFresh
  DEF IInv, EngagedTyped, SerialInv, AsksOnMiss, CacheExact, SerialNeverAsksAgain
<1> QED
  BY <1>1, SpecIInv, SpecSerialInv, PTL

(* What the documentation says of `ozm reset` (docs/commands.md:344) the   *)
(* code keeps when processes take turns: the run reset_holds shows that    *)
(* two at once break it.                                                   *)
THEOREM SpecResetHoldsSerially == Spec => [](serial => ResetHolds)
<1>1. SerialInv => (serial => ResetHolds)
  BY DEF SerialInv, CacheExact, ResetHolds
<1> QED
  BY <1>1, SpecSerialInv, PTL

-------------------------------------------------------------------------------
(* ApprovalCache implements ReviewGate. *)

LEMMA StepImplementsGate ==
    ASSUME IInv, IInv', [Next]_vars
    PROVE  [Gate!Next]_(Gate!vars)
<1> DEFINE run == [p \in Proc |-> IF pc[p] = "running" THEN <<key[p], content[p]>> ELSE None]
<1> USE DEF IInv, TypeOK
<1>1. SUFFICES \/ UNCHANGED <<approved, run>>
               \/ \E k \in Key, c \in Content :
                      approved' = approved \cup {<<k, c>>} /\ UNCHANGED run
               \/ \E p \in Proc :
                      /\ run[p] = None
                      /\ \E kc \in approved : run' = [run EXCEPT ![p] = kc]
                      /\ UNCHANGED approved
               \/ \E p \in Proc :
                      /\ run[p] # None
                      /\ run' = [run EXCEPT ![p] = None]
                      /\ UNCHANGED approved
  BY DEF Gate!Next, Gate!vars, Gate!Consent, Gate!Launch, Gate!Finish
<1>2. ASSUME NEW p \in Proc, Exit(p), UNCHANGED approved
      PROVE  UNCHANGED <<approved, run>> \/ (run[p] # None /\ run' = [run EXCEPT ![p] = None])
  <2>1. CASE pc[p] = "running"
    <3>1. run[p] # None
      BY <2>1, NoneIsFresh DEF EngagedTyped
    <3>2. run' = [run EXCEPT ![p] = None]
      BY <1>2 DEF Exit, Goto
    <3> QED
      BY <3>1, <3>2
  <2>2. CASE pc[p] # "running"
    BY <1>2, <2>2 DEF Exit, Goto
  <2> QED
    BY <2>1, <2>2
<1>3. ASSUME NEW p \in Proc, UNCHANGED approved, pc[p] # "running",
             \A q \in Proc \ {p} : /\ pc'[q] = pc[q] /\ key'[q] = key[q]
                                   /\ content'[q] = content[q],
             pc'[p] # "running"
      PROVE  UNCHANGED <<approved, run>>
  BY <1>3
<1>4. ASSUME NEW p \in Proc, Allow(p)
      PROVE  \E k \in Key, c \in Content :
                approved' = approved \cup {<<k, c>>} /\ UNCHANGED run
  <2>1. key[p] \in Key /\ content[p] \in Content
    BY <1>4 DEF Allow, EngagedTyped
  <2> QED
    BY <1>4, <2>1 DEF Allow, Goto
<1>5. ASSUME NEW p \in Proc, Execute(p)
      PROVE  /\ run[p] = None
             /\ \E kc \in approved : run' = [run EXCEPT ![p] = kc]
             /\ UNCHANGED approved
  <2>1. <<key[p], content[p]>> \in approved
    BY <1>5 DEF Execute, ClearedApproved
  <2>2. run' = [run EXCEPT ![p] = <<key[p], content[p]>>]
    BY <1>5 DEF Execute, Goto
  <2> QED
    BY <1>5, <2>1, <2>2 DEF Execute, history
<1>6. CASE UNCHANGED vars \/ \E f \in File : EditScript(f)
  BY <1>6 DEF vars, EditScript, process, history
<1>7. ASSUME NEW p \in Proc,
             \/ \E k, c : Begin(p, k, c)
             \/ \E t : ResetLoad(p, t)
             \/ LoadHashes(p) \/ CompareWithSnapshot(p) \/ OpenDialog(p)
             \/ SaveHashes(p) \/ SaveSnapshot(p) \/ Audit(p)
      PROVE  UNCHANGED <<approved, run>>
  BY <1>3, <1>7
  DEF Begin, MayBegin, ResetLoad, LoadHashes, CompareWithSnapshot, OpenDialog, SaveHashes,
      SaveSnapshot, Audit, Goto, history
<1>8. ASSUME NEW p \in Proc,
             \/ RefuseContent(p) \/ LoadHashesFails(p) \/ DenyOrNoDialog(p)
             \/ SaveHashesFails(p) \/ SaveHashesUnsynced(p) \/ AuditFails(p)
             \/ ResetSave(p) \/ ResetSaveFails(p) \/ Finish(p) \/ Crash(p)
      PROVE  Exit(p) /\ UNCHANGED approved
  BY <1>8
  DEF RefuseContent, LoadHashesFails, DenyOrNoDialog, SaveHashesFails, SaveHashesUnsynced,
      AuditFails, ResetSave, ResetSaveFails, Finish, Crash, history
<1> HIDE DEF run
<1>9. CASE Next
  BY <1>2, <1>4, <1>5, <1>6, <1>7, <1>8, <1>9
  DEF Next, Progress, RunFile, RunGenerated
<1> QED
  BY <1>1, <1>6, <1>9

(* The design keeps the promise: every behaviour of ApprovalCache is one   *)
(* of ReviewGate.                                                          *)
THEOREM SpecImplementsReviewGate == Spec => ImplementsReviewGate
<1>1. Init => Gate!Init
  BY DEF Init, Gate!Init
<1>2. IInv /\ IInv' /\ [Next]_vars => [Gate!Next]_(Gate!vars)
  BY StepImplementsGate
<1> QED
  BY <1>1, <1>2, SpecIInv, PTL DEF Spec, Gate!Spec, ImplementsReviewGate
===============================================================================
