------------------------------ MODULE AtomicStore ------------------------------
(***************************************************************************)
(* Saving and loading one file of ~/.ozm (src/ozm/storage.py): a writer    *)
(* fills a private temporary file, syncs it, renames it over the target    *)
(* and syncs the directory.  Writers and readers run in processes that     *)
(* know nothing of each other.  A system call may fail, a process may be   *)
(* killed between two of them, and the machine may lose power, after which *)
(* what was not synced is there, gone, or half there.                      *)
(*                                                                         *)
(* History variables (not in the code): littered, installed, older, stale. *)
(*                                                                         *)
(* An operator named Action_Fault is Action with a plausible defect.  No   *)
(* specification uses it; it shows which property would catch the defect.  *)
(***************************************************************************)
CONSTANTS
    Writer,      \* processes that save the file
    Reader,      \* processes that load it
    Data,        \* what they save
    Inode,       \* files that may ever be created: the bound on the number of saves
    TempName,    \* the temporary names a save may try
    CanSyncDir,  \* FALSE on file systems that refuse to sync a directory
    Absent,      \* what a load returns when there is no file
    None

ASSUME CanSyncDirIsTyped == CanSyncDir \in BOOLEAN
ASSUME ContentsAreDistinct ==
    /\ Data \cap {"unused", "empty", "part", Absent, None} = {}
    /\ Absent \notin {"unused", "empty", "part", None}
    /\ None \notin {"unused", "empty", "part"}
    /\ None \notin Inode \cup TempName

VARIABLES
    home,       \* the directory: "missing", "unsynced" (in its parent), "durable"
    entry,      \* the inode the target name refers to
    onDisk,     \* the inodes it may refer to after a power loss
    names,      \* names[n]: the inode a temporary name refers to
    file,       \* file[i]: the bytes of an inode
    synced,     \* the inodes whose bytes have reached the disk
    pc, data, temp, fd,  \* each writer: place, what it saves, temporary name, open file
    opened,     \* the inode a reader has open
    got,        \* what a reader's last load returned
    littered,   \* a temporary file was left behind by a crash or a failed unlink
    installed,  \* every inode the target has referred to
    older,      \* older[i]: those it had referred to before i
    stale       \* those older than a save that was reported as done

directory == <<home, entry, onDisk, names>>
inodes == <<file, synced>>
writer == <<pc, data, temp, fd>>
reader == <<opened, got>>
history == <<littered, installed, older, stale>>
vars == <<directory, inodes, writer, reader, history>>

Bytes == Data \cup {"unused", "empty", "part"}

TypeOK ==
    /\ home \in {"missing", "unsynced", "durable"}
    /\ entry \in Inode \cup {None}
    /\ onDisk \subseteq Inode \cup {None}
    /\ names \in [TempName -> Inode \cup {None}]
    /\ file \in [Inode -> Bytes]
    /\ synced \subseteq Inode
    /\ pc \in [Writer ->
                {"idle", "create", "write", "rest", "sync", "replace", "syncdir", "cleanup"}]
    /\ data \in [Writer -> Data \cup {None}]
    /\ temp \in [Writer -> TempName \cup {None}]
    /\ fd \in [Writer -> Inode \cup {None}]
    /\ opened \in [Reader -> Inode \cup {None}]
    /\ got \in [Reader -> Bytes \cup {Absent, None}]
    /\ littered \in BOOLEAN
    /\ installed \subseteq Inode \cup {None}
    /\ older \in [Inode -> SUBSET (Inode \cup {None})]
    /\ stale \subseteq Inode \cup {None}

Init ==
    /\ home \in {"missing", "durable"}
    /\ entry = None
    /\ onDisk = {None}
    /\ names = [n \in TempName |-> None]
    /\ file = [i \in Inode |-> "unused"]
    /\ synced = {}
    /\ pc = [w \in Writer |-> "idle"]
    /\ data = [w \in Writer |-> None]
    /\ temp = [w \in Writer |-> None]
    /\ fd = [w \in Writer |-> None]
    /\ opened = [r \in Reader |-> None]
    /\ got = [r \in Reader |-> None]
    /\ littered = FALSE
    /\ installed = {None}
    /\ older = [i \in Inode |-> {}]
    /\ stale = {}

-------------------------------------------------------------------------------
(* save_bytes_atomic_no_follow *)

At(w, here, there) == pc[w] = here /\ pc' = [pc EXCEPT ![w] = there]

(* The call returns or raises: its locals are gone. *)
Return(w) ==
    /\ pc' = [pc EXCEPT ![w] = "idle"]
    /\ data' = [data EXCEPT ![w] = None]
    /\ temp' = [temp EXCEPT ![w] = None]
    /\ fd' = [fd EXCEPT ![w] = None]

(* A missing directory is created; its own entry is not synced. *)
OpenStorageDirectory(w, d) ==
    /\ At(w, "idle", "create")
    /\ data' = [data EXCEPT ![w] = d]
    /\ home' = IF home = "missing" THEN "unsynced" ELSE home
    /\ UNCHANGED <<entry, onDisk, names, inodes, temp, fd, reader, history>>

CreateTempFile_NotExclusive(w) ==
    /\ At(w, "create", "write")
    /\ \E n \in TempName, i \in Inode :
         /\ IF names[n] = None THEN file[i] = "unused" ELSE i = names[n]
         /\ names' = [names EXCEPT ![n] = i]
         /\ file' = [file EXCEPT ![i] = "empty"]
         /\ temp' = [temp EXCEPT ![w] = n]
         /\ fd' = [fd EXCEPT ![w] = i]
    /\ UNCHANGED <<home, entry, onDisk, synced, data, reader, history>>

(* O_EXCL: a name that exists is skipped and another one tried. *)
CreateTempFile(w) ==
    /\ At(w, "create", "write")
    /\ \E n \in TempName, i \in Inode :
         /\ names[n] = None
         /\ file[i] = "unused"
         /\ names' = [names EXCEPT ![n] = i]
         /\ file' = [file EXCEPT ![i] = "empty"]
         /\ temp' = [temp EXCEPT ![w] = n]
         /\ fd' = [fd EXCEPT ![w] = i]
    /\ UNCHANGED <<home, entry, onDisk, synced, data, reader, history>>

CreateTempFileFails(w) ==
    /\ pc[w] = "create"
    /\ Return(w)
    /\ UNCHANGED <<directory, inodes, reader, history>>

WriteSome(w) ==
    /\ At(w, "write", "rest")
    /\ file' = [file EXCEPT ![fd[w]] = "part"]
    /\ UNCHANGED <<directory, synced, data, temp, fd, reader, history>>

WriteRest(w) ==
    /\ At(w, "rest", "sync")
    /\ file' = [file EXCEPT ![fd[w]] = data[w]]
    /\ UNCHANGED <<directory, synced, data, temp, fd, reader, history>>

Sync_Skipped(w) ==
    /\ At(w, "sync", "replace")
    /\ UNCHANGED <<directory, inodes, data, temp, fd, reader, history>>

Sync(w) ==
    /\ At(w, "sync", "replace")
    /\ synced' = synced \cup {fd[w]}
    /\ UNCHANGED <<directory, file, data, temp, fd, reader, history>>

Replace_ByName(w) ==
    /\ At(w, "replace", "syncdir")
    /\ entry' = temp[w]
    /\ onDisk' = onDisk \cup {fd[w]}
    /\ names' = [names EXCEPT ![temp[w]] = None]
    /\ temp' = [temp EXCEPT ![w] = None]
    /\ older' = [older EXCEPT ![fd[w]] = installed]
    /\ installed' = installed \cup {fd[w]}
    /\ UNCHANGED <<home, inodes, data, fd, reader, littered, stale>>

(* From here on tmp_name is None: there is nothing left to clean up. *)
Replace(w) ==
    /\ At(w, "replace", "syncdir")
    /\ entry' = fd[w]
    /\ onDisk' = onDisk \cup {fd[w]}
    /\ names' = [names EXCEPT ![temp[w]] = None]
    /\ temp' = [temp EXCEPT ![w] = None]
    /\ older' = [older EXCEPT ![fd[w]] = installed]
    /\ installed' = installed \cup {fd[w]}
    /\ UNCHANGED <<home, inodes, data, fd, reader, littered, stale>>

WriteSyncOrReplaceFails_LeavesTemp(w) ==
    /\ pc[w] \in {"write", "rest", "sync", "replace"}
    /\ Return(w)
    /\ UNCHANGED <<directory, inodes, reader, history>>

WriteSyncOrReplaceFails(w) ==
    /\ pc[w] \in {"write", "rest", "sync", "replace"}
    /\ pc' = [pc EXCEPT ![w] = "cleanup"]
    /\ UNCHANGED <<directory, inodes, data, temp, fd, reader, history>>

SyncDirectory_Skipped(w) ==
    /\ pc[w] = "syncdir"
    /\ Return(w)
    /\ stale' = stale \cup older[fd[w]]
    /\ UNCHANGED <<directory, inodes, reader, littered, installed, older>>

(* The save is reported as done, also where the directory cannot be synced. *)
SyncDirectory(w) ==
    /\ pc[w] = "syncdir"
    /\ Return(w)
    /\ onDisk' = IF CanSyncDir THEN {entry} ELSE onDisk
    /\ stale' = stale \cup older[fd[w]]
    /\ UNCHANGED <<home, entry, names, inodes, reader, littered, installed, older>>

(* The save raises, although readers already see what it stored. *)
SyncDirectoryFails(w) ==
    /\ pc[w] = "syncdir"
    /\ Return(w)
    /\ UNCHANGED <<directory, inodes, reader, history>>

(* A failure to unlink is ignored. *)
Cleanup(w) ==
    /\ pc[w] = "cleanup"
    /\ \/ names' = [names EXCEPT ![temp[w]] = None] /\ UNCHANGED littered
       \/ UNCHANGED names /\ littered' = TRUE
    /\ Return(w)
    /\ UNCHANGED <<home, entry, onDisk, inodes, reader, installed, older, stale>>

-------------------------------------------------------------------------------
(* load_yaml_no_follow *)

OpenFile(r) ==
    /\ opened[r] = None
    /\ IF entry = None
       THEN got' = [got EXCEPT ![r] = Absent] /\ UNCHANGED opened
       ELSE opened' = [opened EXCEPT ![r] = entry] /\ UNCHANGED got
    /\ UNCHANGED <<directory, inodes, writer, history>>

ReadFile(r) ==
    /\ opened[r] # None
    /\ got' = [got EXCEPT ![r] = file[opened[r]]]
    /\ opened' = [opened EXCEPT ![r] = None]
    /\ UNCHANGED <<directory, inodes, writer, history>>

-------------------------------------------------------------------------------
(* The machine. *)

Kill(w) ==
    /\ pc[w] # "idle"
    /\ Return(w)
    /\ littered' = (littered \/ temp[w] # None)
    /\ UNCHANGED <<directory, inodes, reader, installed, older, stale>>

(* The kernel writes the directory's own entry back when it likes. *)
SettleHome ==
    /\ home = "unsynced"
    /\ home' = "durable"
    /\ UNCHANGED <<entry, onDisk, names, inodes, writer, reader, history>>

Reboot ==
    /\ pc' = [w \in Writer |-> "idle"]
    /\ data' = [w \in Writer |-> None]
    /\ temp' = [w \in Writer |-> None]
    /\ fd' = [w \in Writer |-> None]
    /\ opened' = [r \in Reader |-> None]
    /\ got' = [r \in Reader |-> None]

(* Some files that were not synced have lost some of their bytes. *)
PowerLoss ==
    /\ Reboot
    /\ home # "missing"
    /\ home' = "durable"
    /\ entry' \in onDisk
    /\ onDisk' = {entry'}
    /\ \E lost \in SUBSET TempName :
         names' = [n \in TempName |-> IF n \in lost THEN None ELSE names[n]]
    /\ \E torn \in SUBSET {i \in Inode \ synced : file[i] # "unused"} :
         file' = [i \in Inode |-> IF i \in torn THEN "part" ELSE file[i]]
    /\ synced' = {i \in Inode : file[i] # "unused"}
    /\ littered' = TRUE
    /\ UNCHANGED <<installed, older, stale>>

(* The directory was new and is lost with everything in it. *)
PowerLossWithoutHome ==
    /\ Reboot
    /\ home = "unsynced"
    /\ home' = "missing"
    /\ entry' = None
    /\ onDisk' = {None}
    /\ names' = [n \in TempName |-> None]
    /\ installed' = installed \cup {None}
    /\ stale' = {}
    /\ UNCHANGED <<inodes, littered, older>>

Next ==
    \/ \E w \in Writer :
         \/ \E d \in Data : OpenStorageDirectory(w, d)
         \/ CreateTempFile(w) \/ CreateTempFileFails(w)
         \/ WriteSome(w) \/ WriteRest(w) \/ Sync(w) \/ Replace(w)
         \/ WriteSyncOrReplaceFails(w) \/ Cleanup(w)
         \/ SyncDirectory(w) \/ SyncDirectoryFails(w)
         \/ Kill(w)
    \/ \E r \in Reader : OpenFile(r) \/ ReadFile(r)
    \/ SettleHome
    \/ PowerLoss
    \/ PowerLossWithoutHome

Spec == Init /\ [][Next]_vars

-------------------------------------------------------------------------------
(* Properties. *)

(* Whatever the target name refers to, now or after a power loss, and      *)
(* whatever a reader still has open, is the whole of something saved: no   *)
(* reader ever gets a torn file (storage.py:173-180).                      *)
TargetWhole ==
    /\ \A i \in (onDisk \cup {entry}) \ {None} : file[i] \in Data /\ i \in synced
    /\ \A r \in Reader : opened[r] # None => file[opened[r]] \in Data

(* Once a save has been reported as done, no power loss brings back        *)
(* anything older, whichever writers were under way, provided the          *)
(* directory can be synced and is not itself lost (storage.py:180-182).    *)
SavedSurvives == CanSyncDir => onDisk \cap stale = {}

(* A failed save removes its temporary file: one is left only by a crash   *)
(* or by an unlink that fails too (storage.py:183-192).                    *)
NoLitter ==
    ~littered => \A n \in TempName :
        names[n] # None => \E w \in Writer : temp[w] = n

(* To its readers the file is an atomic register: a load returns what was  *)
(* there when it opened the file, and a save takes effect all at once.     *)
Content(i) == IF i = None THEN Absent ELSE file[i]

Register == INSTANCE AtomicRegister WITH
    value <- Content(entry),
    may <- {Content(i) : i \in onDisk} \cup (IF home = "unsynced" THEN {Absent} ELSE {}),
    reads <- [r \in Reader |-> IF opened[r] # None THEN file[opened[r]] ELSE got[r]]

ImplementsRegister == Register!Spec
===============================================================================
