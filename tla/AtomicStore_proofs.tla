-------------------------- MODULE AtomicStore_proofs ---------------------------
(***************************************************************************)
(* Proofs about AtomicStore, for any number of writers, readers, files and *)
(* contents, on file systems that can and cannot sync a directory.         *)
(*                                                                         *)
(* TargetWhole says nothing about the files being written, so it is not    *)
(* inductive.  The inductive invariant adds who owns those files: a writer *)
(* that has not renamed its temporary file yet shares it with nobody, and  *)
(* the target has never referred to it.                                    *)
(***************************************************************************)
EXTENDS AtomicStore, TLAPS

(* The places where a writer owns a temporary file. *)
Filling == {"write", "rest", "sync", "replace", "cleanup"}

WriterState ==
    \A w \in Writer :
        /\ pc[w] # "idle" => data[w] \in Data /\ home # "missing"
        /\ pc[w] \in Filling =>
              /\ temp[w] \in TempName /\ fd[w] \in Inode
              /\ names[temp[w]] = fd[w]
              /\ file[fd[w]] # "unused"
              /\ fd[w] \notin installed
        /\ pc[w] \notin Filling => temp[w] = None
        /\ pc[w] \in {"sync", "replace"} => file[fd[w]] = data[w]
        /\ pc[w] = "replace" => fd[w] \in synced
        /\ pc[w] = "syncdir" =>
              fd[w] \in Inode /\ fd[w] \in installed /\ entry \notin older[fd[w]]

TempsPrivate ==
    \A v, w \in Writer :
        v # w /\ pc[v] \in Filling /\ pc[w] \in Filling
            => temp[v] # temp[w] /\ fd[v] # fd[w]

InstalledWhole ==
    /\ \A i \in installed \ {None} : file[i] \in Data /\ i \in synced
    /\ entry \in onDisk
    /\ onDisk \subseteq installed
    /\ \A r \in Reader : opened[r] # None => opened[r] \in installed
    /\ home = "missing" => onDisk = {None}

StaleIsOld ==
    /\ stale \subseteq installed
    /\ \A i \in Inode : older[i] \subseteq installed

IInv ==
    /\ TypeOK
    /\ WriterState
    /\ TempsPrivate
    /\ InstalledWhole
    /\ StaleIsOld
    /\ SavedSurvives
    /\ NoLitter

-------------------------------------------------------------------------------
USE DEF Filling

LEMMA InitIInv == Init => IInv
<1> SUFFICES ASSUME Init PROVE IInv
  OBVIOUS
<1> USE DEF Init
<1>1. TypeOK
  BY DEF TypeOK, Bytes
<1>2. WriterState /\ TempsPrivate
  BY DEF WriterState, TempsPrivate
<1>3. InstalledWhole /\ StaleIsOld /\ SavedSurvives /\ NoLitter
  BY DEF InstalledWhole, StaleIsOld, SavedSurvives, NoLitter
<1> QED
  BY <1>1, <1>2, <1>3 DEF IInv

LEMMA StutterKeepsIInv ==
    ASSUME IInv, UNCHANGED vars
    PROVE  IInv'
BY DEF IInv, vars, directory, inodes, writer, reader, history, TypeOK, WriterState,
    TempsPrivate, InstalledWhole, StaleIsOld, SavedSurvives, NoLitter

LEMMA OpenStorageDirectoryKeepsIInv ==
    ASSUME IInv, NEW w \in Writer, NEW d \in Data, OpenStorageDirectory(w, d)
    PROVE  IInv'
<1> USE DEF IInv, OpenStorageDirectory, At, inodes, reader, history
<1>1. TypeOK'
  BY DEF TypeOK
<1>2. WriterState' /\ TempsPrivate'
  BY DEF TypeOK, WriterState, TempsPrivate
<1>3. InstalledWhole' /\ StaleIsOld' /\ SavedSurvives' /\ NoLitter'
  BY DEF TypeOK, InstalledWhole, StaleIsOld, SavedSurvives, NoLitter
<1> QED
  BY <1>1, <1>2, <1>3

LEMMA CreateTempFileKeepsIInv ==
    ASSUME IInv, NEW w \in Writer, CreateTempFile(w)
    PROVE  IInv'
<1> USE DEF IInv, At, reader, history
<1>1. PICK n \in TempName, i \in Inode :
        /\ pc[w] = "create" /\ pc' = [pc EXCEPT ![w] = "write"]
        /\ names[n] = None
        /\ file[i] = "unused"
        /\ names' = [names EXCEPT ![n] = i]
        /\ file' = [file EXCEPT ![i] = "empty"]
        /\ temp' = [temp EXCEPT ![w] = n]
        /\ fd' = [fd EXCEPT ![w] = i]
        /\ UNCHANGED <<home, entry, onDisk, synced, data, reader, history>>
  BY DEF CreateTempFile
<1>2. i \notin installed
  BY <1>1, ContentsAreDistinct DEF InstalledWhole
<1>3. TypeOK'
  BY <1>1 DEF TypeOK, Bytes
<1>4. WriterState'
  BY <1>1, <1>2, ContentsAreDistinct DEF TypeOK, WriterState
<1>5. TempsPrivate'
  BY <1>1, ContentsAreDistinct DEF TypeOK, WriterState, TempsPrivate
<1>6. InstalledWhole' /\ StaleIsOld' /\ SavedSurvives'
  BY <1>1, <1>2 DEF TypeOK, InstalledWhole, StaleIsOld, SavedSurvives
<1>7. NoLitter'
  BY <1>1, ContentsAreDistinct DEF TypeOK, NoLitter, WriterState
<1> QED
  BY <1>3, <1>4, <1>5, <1>6, <1>7

(* Writing changes only the writer's own file. *)
LEMMA WriteKeepsIInv ==
    ASSUME IInv, NEW w \in Writer, WriteSome(w) \/ WriteRest(w)
    PROVE  IInv'
<1> USE DEF IInv, WriteSome, WriteRest, At, directory, reader, history
<1>1. fd[w] \in Inode /\ fd[w] \notin installed /\ data[w] \in Data
  BY DEF WriterState
<1>2. TypeOK'
  BY <1>1 DEF TypeOK, Bytes
<1>3. WriterState' /\ TempsPrivate'
  BY <1>1, ContentsAreDistinct DEF TypeOK, WriterState, TempsPrivate
<1>4. InstalledWhole' /\ StaleIsOld' /\ SavedSurvives' /\ NoLitter'
  BY <1>1 DEF TypeOK, InstalledWhole, StaleIsOld, SavedSurvives, NoLitter
<1> QED
  BY <1>2, <1>3, <1>4

LEMMA SyncKeepsIInv ==
    ASSUME IInv, NEW w \in Writer, Sync(w)
    PROVE  IInv'
<1> USE DEF IInv, Sync, At, directory, reader, history
<1>1. TypeOK'
  BY DEF TypeOK, WriterState
<1>2. WriterState' /\ TempsPrivate'
  BY DEF TypeOK, WriterState, TempsPrivate
<1>3. InstalledWhole' /\ StaleIsOld' /\ SavedSurvives' /\ NoLitter'
  BY DEF TypeOK, InstalledWhole, StaleIsOld, SavedSurvives, NoLitter
<1> QED
  BY <1>1, <1>2, <1>3

LEMMA ReplaceKeepsIInv ==
    ASSUME IInv, NEW w \in Writer, Replace(w)
    PROVE  IInv'
<1> USE DEF IInv, Replace, At, inodes, reader
<1>1. /\ fd[w] \in Inode /\ fd[w] \notin installed /\ fd[w] \in synced
      /\ file[fd[w]] \in Data /\ temp[w] \in TempName /\ home # "missing"
  BY DEF WriterState
<1>2. TypeOK'
  BY <1>1 DEF TypeOK
<1>3. WriterState'
  BY <1>1, ContentsAreDistinct DEF TypeOK, WriterState, TempsPrivate, StaleIsOld
<1>4. TempsPrivate'
  BY DEF TypeOK, TempsPrivate
<1>5. InstalledWhole' /\ StaleIsOld' /\ SavedSurvives'
  BY <1>1 DEF TypeOK, InstalledWhole, StaleIsOld, SavedSurvives
<1>6. NoLitter'
  BY <1>1 DEF TypeOK, NoLitter
<1> QED
  BY <1>2, <1>3, <1>4, <1>5, <1>6

LEMMA WriteSyncOrReplaceFailsKeepsIInv ==
    ASSUME IInv, NEW w \in Writer, WriteSyncOrReplaceFails(w)
    PROVE  IInv'
<1> USE DEF IInv, WriteSyncOrReplaceFails, directory, inodes, reader, history
<1>1. TypeOK'
  BY DEF TypeOK
<1>2. WriterState' /\ TempsPrivate'
  BY DEF TypeOK, WriterState, TempsPrivate
<1>3. InstalledWhole' /\ StaleIsOld' /\ SavedSurvives' /\ NoLitter'
  BY DEF TypeOK, InstalledWhole, StaleIsOld, SavedSurvives, NoLitter
<1> QED
  BY <1>1, <1>2, <1>3

(* What the end of a save leaves of the other writers. *)
LEMMA ReturnKeepsWriters ==
    ASSUME IInv, NEW w \in Writer, Return(w),
           UNCHANGED <<home, entry, inodes, installed, older>>,
           \A n \in TempName : n # temp[w] => names'[n] = names[n]
    PROVE  WriterState' /\ TempsPrivate'
<1> USE DEF IInv, TypeOK, Return, inodes
<1>1. ASSUME NEW v \in Writer, v # w, pc[v] \in Filling
      PROVE  names'[temp[v]] = names[temp[v]]
  BY <1>1, ContentsAreDistinct DEF WriterState, TempsPrivate
<1>2. WriterState'
  BY <1>1 DEF WriterState
<1>3. TempsPrivate'
  BY DEF TempsPrivate
<1> QED
  BY <1>2, <1>3

LEMMA SyncDirectoryKeepsIInv ==
    ASSUME IInv, NEW w \in Writer, SyncDirectory(w)
    PROVE  IInv'
<1> USE DEF IInv, SyncDirectory, reader
<1>1. fd[w] \in Inode /\ entry \notin older[fd[w]] /\ temp[w] = None
  BY DEF WriterState
<1>2. TypeOK'
  BY <1>1 DEF TypeOK, Return, inodes
<1>3. WriterState' /\ TempsPrivate'
  BY ReturnKeepsWriters
<1>4. InstalledWhole' /\ StaleIsOld' /\ SavedSurvives'
  BY <1>1 DEF TypeOK, Return, inodes, InstalledWhole, StaleIsOld, SavedSurvives
<1>5. NoLitter'
  BY <1>1, ContentsAreDistinct DEF TypeOK, Return, NoLitter
<1> QED
  BY <1>2, <1>3, <1>4, <1>5

(* The other ends of a save change nothing but, perhaps, one temporary name. *)
LEMMA EndKeepsIInv ==
    ASSUME IInv, NEW w \in Writer,
           \/ CreateTempFileFails(w) \/ SyncDirectoryFails(w) \/ Cleanup(w) \/ Kill(w)
    PROVE  IInv'
<1>1. /\ Return(w)
      /\ UNCHANGED <<home, entry, onDisk, inodes, reader, installed, older, stale>>
  BY DEF CreateTempFileFails, SyncDirectoryFails, Cleanup, Kill, directory, history
<1>2. /\ names' \in [TempName -> Inode \cup {None}]
      /\ littered' \in BOOLEAN
      /\ \A n \in TempName : n # temp[w] => names'[n] = names[n]
  BY DEF IInv, TypeOK, CreateTempFileFails, SyncDirectoryFails, Cleanup, Kill, directory, history
<1>3. ~littered' => ~littered /\ (temp[w] = None \/ names'[temp[w]] = None)
  BY DEF IInv, TypeOK, WriterState, CreateTempFileFails, SyncDirectoryFails, Cleanup, Kill,
     directory, history
<1>4. TypeOK'
  BY <1>1, <1>2 DEF IInv, TypeOK, Return, inodes, reader
<1>5. WriterState' /\ TempsPrivate'
  BY <1>1, <1>2, ReturnKeepsWriters
<1>6. InstalledWhole' /\ StaleIsOld' /\ SavedSurvives'
  BY <1>1 DEF IInv, inodes, reader, InstalledWhole, StaleIsOld, SavedSurvives
<1>7. NoLitter'
  BY <1>1, <1>2, <1>3, ContentsAreDistinct DEF IInv, TypeOK, Return, NoLitter
<1> QED
  BY <1>4, <1>5, <1>6, <1>7 DEF IInv

LEMMA ReaderKeepsIInv ==
    ASSUME IInv, NEW r \in Reader, OpenFile(r) \/ ReadFile(r)
    PROVE  IInv'
<1> USE DEF IInv, OpenFile, ReadFile, directory, inodes, writer, history
<1>1. TypeOK'
  BY DEF TypeOK
<1>2. WriterState' /\ TempsPrivate' /\ StaleIsOld' /\ SavedSurvives' /\ NoLitter'
  BY DEF WriterState, TempsPrivate, StaleIsOld, SavedSurvives, NoLitter
<1>3. InstalledWhole'
  BY DEF TypeOK, InstalledWhole
<1> QED
  BY <1>1, <1>2, <1>3

LEMMA SettleHomeKeepsIInv ==
    ASSUME IInv, SettleHome
    PROVE  IInv'
BY DEF IInv, SettleHome, inodes, writer, reader, history, TypeOK, WriterState,
    TempsPrivate, InstalledWhole, StaleIsOld, SavedSurvives, NoLitter

LEMMA PowerLossKeepsIInv ==
    ASSUME IInv, PowerLoss
    PROVE  IInv'
<1> USE DEF IInv, PowerLoss, Reboot
<1>1. PICK lost \in SUBSET TempName :
        names' = [n \in TempName |-> IF n \in lost THEN None ELSE names[n]]
  OBVIOUS
<1>2. PICK torn \in SUBSET {i \in Inode \ synced : file[i] # "unused"} :
        file' = [i \in Inode |-> IF i \in torn THEN "part" ELSE file[i]]
  OBVIOUS
<1>3. TypeOK'
  <2>1. names' \in [TempName -> Inode \cup {None}] /\ file' \in [Inode -> Bytes]
    BY <1>1, <1>2 DEF TypeOK, Bytes
  <2> QED
    BY <2>1 DEF TypeOK
<1>4. WriterState' /\ TempsPrivate'
  BY DEF WriterState, TempsPrivate
<1>5. InstalledWhole'
  BY <1>2, ContentsAreDistinct DEF TypeOK, InstalledWhole
<1>6. StaleIsOld' /\ SavedSurvives' /\ NoLitter'
  BY DEF StaleIsOld, SavedSurvives, NoLitter
<1> QED
  BY <1>3, <1>4, <1>5, <1>6

LEMMA PowerLossWithoutHomeKeepsIInv ==
    ASSUME IInv, PowerLossWithoutHome
    PROVE  IInv'
<1> USE DEF IInv, PowerLossWithoutHome, Reboot, inodes
<1>1. TypeOK'
  BY DEF TypeOK
<1>2. WriterState' /\ TempsPrivate'
  BY DEF WriterState, TempsPrivate
<1>3. InstalledWhole' /\ StaleIsOld' /\ SavedSurvives' /\ NoLitter'
  BY DEF TypeOK, InstalledWhole, StaleIsOld, SavedSurvives, NoLitter
<1> QED
  BY <1>1, <1>2, <1>3

LEMMA NextIInv ==
    ASSUME IInv, [Next]_vars
    PROVE  IInv'
BY OpenStorageDirectoryKeepsIInv, CreateTempFileKeepsIInv, WriteKeepsIInv, SyncKeepsIInv,
   ReplaceKeepsIInv, WriteSyncOrReplaceFailsKeepsIInv, SyncDirectoryKeepsIInv, EndKeepsIInv,
   ReaderKeepsIInv, SettleHomeKeepsIInv, PowerLossKeepsIInv, PowerLossWithoutHomeKeepsIInv,
   StutterKeepsIInv
DEF Next

(* The inductive invariant holds of every behaviour. *)
THEOREM SpecIInv == Spec => []IInv
BY InitIInv, NextIInv, PTL DEF Spec

(* Every variable keeps its type. *)
THEOREM SpecTypeOK == Spec => []TypeOK
<1>1. IInv => TypeOK
  BY DEF IInv
<1> QED
  BY <1>1, SpecIInv, PTL

(* No reader ever gets a torn file, before or after a power loss. *)
THEOREM SpecTargetWhole == Spec => []TargetWhole
<1>1. IInv => TargetWhole
  BY DEF IInv, TypeOK, InstalledWhole, TargetWhole
<1> QED
  BY <1>1, SpecIInv, PTL

(* No power loss undoes a save that was reported as done. *)
THEOREM SpecSavedSurvives == Spec => []SavedSurvives
<1>1. IInv => SavedSurvives
  BY DEF IInv
<1> QED
  BY <1>1, SpecIInv, PTL

(* Failed saves leave no temporary file behind. *)
THEOREM SpecNoLitter == Spec => []NoLitter
<1>1. IInv => NoLitter
  BY DEF IInv
<1> QED
  BY <1>1, SpecIInv, PTL

-------------------------------------------------------------------------------
(* AtomicStore implements AtomicRegister. *)

(* What AtomicRegister sees of a state. *)
Possible == {Content(i) : i \in onDisk} \cup (IF home = "unsynced" THEN {Absent} ELSE {})
Reads == [r \in Reader |-> IF opened[r] # None THEN file[opened[r]] ELSE got[r]]

(* Nothing a reader sees depends on files the target never referred to. *)
LEMMA SeenUnchanged ==
    ASSUME IInv,
           UNCHANGED <<entry, onDisk, opened, got>>,
           \A i \in installed \ {None} : file'[i] = file[i],
           \/ UNCHANGED home
           \/ home = "missing" /\ home' = "unsynced"
    PROVE  UNCHANGED <<Content(entry), Possible, Reads>>
<1>1. \A i \in onDisk : Content(i)' = Content(i)
  BY DEF IInv, InstalledWhole, Content
<1>2. Content(entry)' = Content(entry)
  BY <1>1 DEF IInv, InstalledWhole, Content
<1>3. home = "missing" => Absent \in {Content(i) : i \in onDisk}
  BY DEF IInv, InstalledWhole, Content
<1>4. {Content(i) : i \in onDisk}' = {Content(i) : i \in onDisk}
  BY <1>1
<1>5. UNCHANGED Possible
  BY <1>3, <1>4 DEF Possible, IInv, TypeOK
<1>6. UNCHANGED Reads
  BY DEF IInv, InstalledWhole, Reads
<1> QED
  BY <1>2, <1>5, <1>6

LEMMA StepImplementsRegister ==
    ASSUME IInv, IInv', [Next]_vars
    PROVE  [Register!Next]_(Register!vars)
<1> USE DEF IInv
<1>1. SUFFICES \/ UNCHANGED <<Content(entry), Possible, Reads>>
               \/ \E d \in Data :
                      /\ Content(entry)' = d
                      /\ Possible' = Possible \cup {d}
                      /\ UNCHANGED Reads
               \/ \E r \in Reader :
                      /\ Reads' = [Reads EXCEPT ![r] = Content(entry)]
                      /\ UNCHANGED <<Content(entry), Possible>>
               \/ /\ \E S \in SUBSET Possible : Content(entry) \in S /\ Possible' = S
                  /\ UNCHANGED <<Content(entry), Reads>>
               \/ /\ Content(entry)' \in Possible
                  /\ Possible' = {Content(entry)'}
                  /\ Reads' = [r \in Reader |-> None]
  BY DEF Register!Next, Register!vars, Register!Store, Register!Read, Register!Settle,
         Register!PowerLoss, Possible, Reads
<1>2. ASSUME NEW w \in Writer, NEW d \in Data, OpenStorageDirectory(w, d)
      PROVE  UNCHANGED <<Content(entry), Possible, Reads>>
  BY <1>2, SeenUnchanged DEF OpenStorageDirectory, inodes, reader
<1>3. ASSUME NEW w \in Writer,
             \/ CreateTempFile(w) \/ WriteSome(w) \/ WriteRest(w) \/ Sync(w)
             \/ WriteSyncOrReplaceFails(w) \/ CreateTempFileFails(w) \/ Cleanup(w)
             \/ SyncDirectoryFails(w) \/ Kill(w)
      PROVE  UNCHANGED <<Content(entry), Possible, Reads>>
  <2>1. UNCHANGED <<home, entry, onDisk, opened, got>>
    BY <1>3 DEF CreateTempFile, WriteSome, WriteRest, Sync, WriteSyncOrReplaceFails,
       CreateTempFileFails, Cleanup, SyncDirectoryFails, Kill, directory, reader
  <2>2. \A i \in installed \ {None} : file'[i] = file[i]
    <3>1. CASE CreateTempFile(w)
      BY <3>1, ContentsAreDistinct DEF CreateTempFile, TypeOK, InstalledWhole
    <3>2. CASE WriteSome(w) \/ WriteRest(w)
      BY <3>2 DEF WriteSome, WriteRest, At, TypeOK, WriterState
    <3>3. CASE \/ Sync(w) \/ WriteSyncOrReplaceFails(w) \/ CreateTempFileFails(w)
               \/ Cleanup(w) \/ SyncDirectoryFails(w) \/ Kill(w)
      BY <3>3 DEF Sync, WriteSyncOrReplaceFails, CreateTempFileFails, Cleanup,
         SyncDirectoryFails, Kill, inodes
    <3> QED
      BY <1>3, <3>1, <3>2, <3>3
  <2> QED
    BY <2>1, <2>2, SeenUnchanged
<1>4. ASSUME NEW w \in Writer, Replace(w)
      PROVE  /\ Content(entry)' = data[w] /\ data[w] \in Data
             /\ Possible' = Possible \cup {data[w]}
             /\ UNCHANGED Reads
  <2>1. /\ fd[w] \in Inode /\ file[fd[w]] = data[w] /\ data[w] \in Data /\ fd[w] # None
    BY <1>4, ContentsAreDistinct DEF Replace, At, WriterState
  <2>2. UNCHANGED Reads
    BY <1>4 DEF Replace, inodes, reader, Reads
  <2>3. Content(entry)' = data[w]
    BY <1>4, <2>1 DEF Replace, inodes, Content
  <2>4. Possible' = Possible \cup {data[w]}
    BY <1>4, <2>1 DEF Replace, inodes, Content, Possible
  <2> QED
    BY <2>1, <2>2, <2>3, <2>4
<1>5. ASSUME (\E w \in Writer : SyncDirectory(w)) \/ SettleHome
      PROVE  /\ \E S \in SUBSET Possible : Content(entry) \in S /\ Possible' = S
             /\ UNCHANGED <<Content(entry), Reads>>
  <2>1. UNCHANGED <<entry, file, opened, got>>
    BY <1>5 DEF SyncDirectory, SettleHome, inodes, reader
  <2>2. UNCHANGED <<Content(entry), Reads>>
    BY <2>1 DEF Content, Reads
  <2>3. onDisk' \subseteq onDisk /\ entry \in onDisk'
    BY <1>5 DEF SyncDirectory, SettleHome, InstalledWhole
  <2>4. Possible' \subseteq Possible /\ Content(entry) \in Possible'
    BY <1>5, <2>1, <2>3 DEF SyncDirectory, SettleHome, Content, Possible
  <2> QED
    BY <2>2, <2>4
<1>6. ASSUME NEW r \in Reader, OpenFile(r)
      PROVE  /\ Reads' = [Reads EXCEPT ![r] = Content(entry)]
             /\ UNCHANGED <<Content(entry), Possible>>
  <2>1. UNCHANGED <<Content(entry), Possible>>
    BY <1>6 DEF OpenFile, directory, inodes, Content, Possible
  <2>2. Reads' = [Reads EXCEPT ![r] = Content(entry)]
    BY <1>6, ZenonT(30) DEF OpenFile, directory, inodes, Content, Reads, TypeOK
  <2> QED
    BY <2>1, <2>2
<1>7. ASSUME NEW r \in Reader, ReadFile(r)
      PROVE  UNCHANGED <<Content(entry), Possible, Reads>>
  BY <1>7 DEF ReadFile, directory, inodes, Content, Possible, Reads, TypeOK
<1>8. ASSUME PowerLoss \/ PowerLossWithoutHome
      PROVE  /\ Content(entry)' \in Possible
             /\ Possible' = {Content(entry)'}
             /\ Reads' = [r \in Reader |-> None]
  <2>1. Reads' = [r \in Reader |-> None]
    BY <1>8 DEF PowerLoss, PowerLossWithoutHome, Reboot, Reads
  <2>2. Possible' = {Content(entry)'}
    BY <1>8 DEF PowerLoss, PowerLossWithoutHome, Content, Possible
  <2>3. CASE PowerLoss
    <3>1. entry' \in onDisk /\ (entry' # None => file'[entry'] = file[entry'])
      BY <2>3 DEF PowerLoss, TypeOK, InstalledWhole
    <3>2. Content(entry)' \in Possible
      BY <3>1 DEF Content, Possible
    <3> QED
      BY <2>1, <2>2, <3>2
  <2>4. CASE PowerLossWithoutHome
    <3>1. Content(entry)' = Absent /\ Absent \in Possible
      BY <2>4 DEF PowerLossWithoutHome, Content, Possible
    <3> QED
      BY <2>1, <2>2, <3>1
  <2> QED
    BY <1>8, <2>3, <2>4
<1>9. CASE UNCHANGED vars
  BY <1>9 DEF vars, directory, inodes, reader, Content, Possible, Reads
<1>10. CASE Next
  <2>1. CASE \E r \in Reader : OpenFile(r) \/ ReadFile(r)
    BY <2>1, <1>6, <1>7
  <2>2. CASE SettleHome \/ (\E w \in Writer : SyncDirectory(w))
    BY <2>2, <1>5
  <2>3. CASE PowerLoss \/ PowerLossWithoutHome
    BY <2>3, <1>8
  <2>4. CASE \E w \in Writer : Replace(w)
    BY <2>4, <1>4
  <2>5. CASE \E w \in Writer :
               \/ \E d \in Data : OpenStorageDirectory(w, d)
               \/ CreateTempFile(w) \/ WriteSome(w) \/ WriteRest(w) \/ Sync(w)
               \/ WriteSyncOrReplaceFails(w) \/ CreateTempFileFails(w) \/ Cleanup(w)
               \/ SyncDirectoryFails(w) \/ Kill(w)
    BY <2>5, <1>2, <1>3
  <2> QED
    BY <1>10, <2>1, <2>2, <2>3, <2>4, <2>5 DEF Next
<1> QED
  BY <1>1, <1>9, <1>10

(* To its readers the file is an atomic register that a power loss can     *)
(* only take back to a whole value not yet ruled out.                      *)
THEOREM SpecImplementsRegister == Spec => ImplementsRegister
<1>1. Init => Register!Init
  BY DEF Init, Register!Init, Content
<1>2. IInv /\ IInv' /\ [Next]_vars => [Register!Next]_(Register!vars)
  BY StepImplementsRegister
<1> QED
  BY <1>1, <1>2, SpecIInv, PTL DEF Spec, Register!Spec, ImplementsRegister
===============================================================================
