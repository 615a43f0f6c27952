------------------------------- MODULE Backup -------------------------------
(* BackupManager and BackupTask of mediaservo-common: snapshots written to a  *)
(* temporary file and renamed into place, by the task that does so every      *)
(* period and by callers of save(), all with the same temporary file; load()  *)
(* at the next start, with its limit on the age.                              *)
EXTENDS Naturals

CONSTANTS
  Savers,         \* managers saving to the same path
  MaxSnaps,       \* bound: snapshots taken
  MaxStale,       \* max_stale, in ticks
  MaxAge,         \* bound: ticks of the clock
  NoFile

ASSUME BackupAssumption ==
  /\ MaxSnaps \in Nat /\ MaxStale \in Nat /\ MaxAge \in Nat
  /\ NoFile \notin [snap : Nat, whole : BOOLEAN]

VARIABLES
  snaps,          \* snapshots taken so far: the number of the newest
  saver,          \* saver[w]: how far save() is, and with which snapshot
  backupTmp,      \* the temporary file: snapshot and whether it is all there
  backupFile,     \* the backup
  age,            \* ticks since the backup was written
  savedLast,      \* ghost: the newest snapshot whose save() returned Ok
  deletedLast,    \* ghost: delete() came after that
  running,        \* the process is up
  loaded          \* what load() returned at the last start

backupVars == <<snaps, saver, backupTmp, backupFile, age, savedLast, deletedLast, running, loaded>>
backupDisk == <<backupTmp, backupFile, age>>

Whole(n) == [snap |-> n, whole |-> TRUE]
Part(n) == [snap |-> n, whole |-> FALSE]
Nothing == 0                        \* load() returned None
Damaged == MaxSnaps + 1             \* or an error
SaverIdle == [step |-> "idle", snap |-> 0]

BackupTypeOK ==
  /\ snaps \in 0 .. MaxSnaps /\ age \in 0 .. MaxAge /\ savedLast \in 0 .. snaps
  /\ \A w \in Savers : saver[w].step \in {"idle", "open", "write", "rename"} /\ saver[w].snap <= snaps
  /\ running \in BOOLEAN /\ deletedLast \in BOOLEAN
  /\ loaded \in (0 .. snaps) \cup {Damaged}

BackupInit ==
  /\ snaps = 0 /\ saver = [w \in Savers |-> SaverIdle]
  /\ backupTmp = NoFile /\ backupFile = NoFile /\ age = 0
  /\ savedLast = 0 /\ deletedLast = FALSE /\ running = TRUE /\ loaded = Nothing
----------------------------------------------------------------------------
SaverAt(w, here) == running /\ saver[w].step = here
SaverGoes(w, there) == saver' = [saver EXCEPT ![w].step = there]

(* A tick of the task, or a call: the state is taken and serialised.          *)
TakeSnapshot(w) ==
  /\ SaverAt(w, "idle") /\ snaps < MaxSnaps
  /\ snaps' = snaps + 1
  /\ saver' = [saver EXCEPT ![w] = [step |-> "open", snap |-> snaps']]
  /\ UNCHANGED <<backupDisk, savedLast, deletedLast, running, loaded>>

(* Wrong variant: written where load() looks for it.                          *)
OpenInPlace(w) ==
  /\ SaverAt(w, "open") /\ SaverGoes(w, "write")
  /\ backupTmp' = Part(saver[w].snap) /\ backupFile' = Part(saver[w].snap) /\ age' = 0
  /\ UNCHANGED <<snaps, savedLast, deletedLast, running, loaded>>

(* fs::write truncates the temporary file, then fills it.                     *)
OpenTmp(w) ==
  /\ SaverAt(w, "open") /\ SaverGoes(w, "write")
  /\ backupTmp' = Part(saver[w].snap)
  /\ UNCHANGED <<snaps, backupFile, age, savedLast, deletedLast, running, loaded>>

WriteTmp(w) ==
  /\ SaverAt(w, "write") /\ SaverGoes(w, "rename")
  /\ backupTmp' = Whole(saver[w].snap)
  /\ UNCHANGED <<snaps, backupFile, age, savedLast, deletedLast, running, loaded>>

RenameTmp(w) ==
  /\ SaverAt(w, "rename") /\ SaverGoes(w, "idle")
  /\ backupTmp # NoFile
  /\ backupFile' = backupTmp /\ backupTmp' = NoFile /\ age' = 0
  /\ savedLast' = saver[w].snap /\ deletedLast' = FALSE
  /\ UNCHANGED <<snaps, running, loaded>>

(* A step that fails: the caller gets an error, the task logs a warning.      *)
SaveFails(w) ==
  /\ running /\ saver[w].step # "idle" /\ SaverGoes(w, "idle")
  /\ UNCHANGED <<snaps, backupDisk, savedLast, deletedLast, running, loaded>>

DeleteBackup ==
  /\ running /\ backupFile # NoFile
  /\ backupFile' = NoFile /\ deletedLast' = TRUE
  /\ UNCHANGED <<snaps, saver, backupTmp, age, savedLast, running, loaded>>
----------------------------------------------------------------------------
(* The process dies between two steps; what was written so far stays.         *)
ProcessDies ==
  /\ running /\ running' = FALSE
  /\ saver' = [w \in Savers |-> SaverIdle]
  /\ UNCHANGED <<snaps, backupDisk, savedLast, deletedLast, loaded>>

TimePasses ==
  /\ age < MaxAge /\ age' = age + 1
  /\ UNCHANGED <<snaps, saver, backupTmp, backupFile, savedLast, deletedLast, running, loaded>>

(* load(): a backup too old is as good as none, one that does not parse is an *)
(* error, not an empty state.                                                 *)
LoadResult ==
  IF backupFile = NoFile \/ age > MaxStale THEN Nothing
  ELSE IF backupFile.whole THEN backupFile.snap ELSE Damaged

StartAndLoad ==
  /\ ~running /\ running' = TRUE
  /\ loaded' = LoadResult
  /\ UNCHANGED <<snaps, saver, backupDisk, savedLast, deletedLast>>

SaveStep(w) ==
  TakeSnapshot(w) \/ OpenTmp(w) \/ WriteTmp(w) \/ RenameTmp(w) \/ SaveFails(w)
BackupNext ==
  \/ \E w \in Savers : SaveStep(w)
  \/ DeleteBackup \/ ProcessDies \/ TimePasses \/ StartAndLoad
BackupSpec == BackupInit /\ [][BackupNext]_backupVars
----------------------------------------------------------------------------
(* A start finds a whole snapshot, the newest whose save() had returned Ok,   *)
(* wherever the process died before: no half-written file is loaded, and      *)
(* nothing saved is lost but to its age or to delete().                       *)
LoadFindsLastSave ==
  [][StartAndLoad =>
       \/ savedLast # 0 /\ ~deletedLast /\ age <= MaxStale /\ loaded' = savedLast
       \/ (savedLast = 0 \/ deletedLast \/ age > MaxStale) /\ loaded' = Nothing]_backupVars
=============================================================================
