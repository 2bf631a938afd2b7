---------------------------- MODULE WorkingCopy ----------------------------
(***************************************************************************)
(* A stored file working copy (an editor's unsaved document), the file it  *)
(* belongs to, the manager that reloads it, and the backup of its unsaved  *)
(* content: storedFileWorkingCopy.ts and storedFileWorkingCopyManager.ts,  *)
(* workingCopyBackupTracker.ts and workingCopyBackupService.ts, with the   *)
(* TaskSequentializer of async.ts.                                         *)
(*                                                                         *)
(* Other programs write the file, writes and reads take time and may fail, *)
(* the window may crash or be shut down, and a restart restores what was   *)
(* backed up.                                                              *)
(*                                                                         *)
(* A text is a number; each edit and each write by another program makes a *)
(* new one. No two texts have the same length (the length is all that an   *)
(* etag tells of a content) and no two writes the same mtime. The version  *)
(* id of the editor's model is its text, so that undoing returns to an     *)
(* earlier version.                                                        *)
(***************************************************************************)
EXTENDS Integers, Sequences, FiniteSets, SequencesExt

CONSTANTS MaxEdits,     \* edits of the user and of save participants
          MaxExternal,  \* writes by other programs
          MaxFaults,    \* failed writes and reads, crashes and shutdowns
          Nothing       \* no operation, no backup, no file

ASSUME BoundsAssumption ==
  /\ MaxEdits \in Nat /\ MaxExternal \in Nat /\ MaxFaults \in Nat
  /\ Nothing \notin Nat /\ Nothing \notin BOOLEAN

VARIABLES
  file,       \* the file on disk: its text and mtime
  event,      \* a change of the file is still to be reported by the watcher
  copy,       \* the working copy
  saving,     \* its save operations and its TaskSequentializer
  reading,    \* the resolve from file under way, at most one
  reverting,  \* the revert under way
  reloads,    \* workingCopyResolveQueue: reloads running and queued
  tracker,    \* the backup tracker and the service's queue of I/O
  backup,     \* the backup file
  life,       \* the window: open, closing or closed
  edits, externals, faults

fileVars == <<file, event, externals>>
backupVars == <<tracker, backup>>
vars == <<file, event, copy, saving, reading, reverting, reloads, tracker, backup, life, edits, externals, faults>>

Text == 0..(MaxEdits + MaxExternal)
Stat == [text : Text, mtime : Nat]

(***************************************************************************)
(* The backup tracker. next is its pending operation: a backup to be made  *)
(* of what the copy holds when the timer fires, or a request for I/O. A    *)
(* new operation cancels it; what has begun is no longer cancelled.        *)
(***************************************************************************)
Idle == [next |-> Nothing, io |-> Nothing, cache |-> Nothing]

WriteOp(c) == [kind |-> "write", text |-> c.text, version |-> c.versionId, stat |-> c.stat]
DeleteOp == [kind |-> "delete"]
Scheduled == [kind |-> "scheduled"]

CancelBackupOperation(t) == [t EXCEPT !.next = Nothing]
ScheduleBackup(t) == [t EXCEPT !.next = Scheduled]
DiscardBackup(t) == [t EXCEPT !.next = DeleteOp]

\* Mutant: only a change of the dirty flag is followed.
TrackDirtyOnly(t, c, d) ==
  IF life # "open" THEN t
  ELSE IF d.dirty /\ ~c.dirty THEN ScheduleBackup(t)
  ELSE IF c.dirty /\ ~d.dirty THEN DiscardBackup(t)
  ELSE t

\* Of a copy that changes from c to d: onDidChangeDirty, onDidChangeContent.
Track(t, c, d) ==
  IF life # "open" THEN t  \* suspended
  ELSE IF d.dirty /\ (~c.dirty \/ c.versionId # d.versionId) THEN ScheduleBackup(t)
  ELSE IF c.dirty /\ ~d.dirty THEN DiscardBackup(t)
  ELSE t

ChangeCopy(d) == copy' = d /\ tracker' = Track(tracker, copy, d)

(***************************************************************************)
(* The working copy. by tells what set the dirty flag last; it is read by  *)
(* properties only.                                                        *)
(***************************************************************************)
SetDirty(c, dirty, by) ==
  IF dirty
  THEN [c EXCEPT !.dirty = TRUE, !.by = IF c.dirty THEN @ ELSE by]
  ELSE [c EXCEPT !.dirty = FALSE, !.conflict = FALSE, !.error = FALSE, !.saved = c.text, !.by = by]

UpdateLastResolvedFileStat(c, stat) ==
  IF c.stat.mtime <= stat.mtime THEN [c EXCEPT !.stat = stat] ELSE c

\* A new content of the model; undo is what undoing returns to.
OnModelContentChanged(c, text, undo) ==
  LET d == [c EXCEPT !.text = text, !.undo = undo, !.versionId = @ + 1]
  IN  IF text = d.saved THEN SetDirty(d, FALSE, "undo") ELSE [SetDirty(d, TRUE, "edit") EXCEPT !.by = "edit"]

\* The content of the file loaded into the model.
ResolveFromContent(c, stat) ==
  LET d == [UpdateLastResolvedFileStat(c, stat) EXCEPT
              !.text = stat.text, !.undo = Append(c.undo, c.text), !.versionId = @ + 1]
  IN  SetDirty(d, FALSE, "load")

\* A window's first resolve, from the file or from a backup.
Resolved(text, stat, dirty) ==
  [text |-> text, undo |-> <<>>, versionId |-> 0, dirty |-> dirty, saved |-> IF dirty THEN Nothing ELSE text,
   conflict |-> FALSE, error |-> FALSE, stat |-> stat, by |-> IF dirty THEN "backup" ELSE "load",
   known |-> {stat.text}, leaving |-> Nothing]

(***************************************************************************)
(* TaskSequentializer and doSave. A running operation is known by its task *)
(* id, the version it saves; a save begins as a task and becomes another   *)
(* one when its participants are done.                                     *)
(***************************************************************************)
NoSaves == [ops |-> {}, running |-> Nothing, queued |-> Nothing]

CancelRunning(s) ==
  [s EXCEPT !.ops = {IF s.running \in {op.task, op.version} /\ op.phase = "snapshot"
                     THEN [op EXCEPT !.cancelled = TRUE] ELSE op : op \in @}]

BeginSave(s, c, overwrite) ==
  [s EXCEPT !.running = c.versionId,
            !.ops = @ \cup {[task |-> c.versionId, version |-> c.versionId, phase |-> "participants",
                             overwrite |-> overwrite, cancelled |-> FALSE, text |-> c.text, base |-> c.stat]}]

\* What doSave returns early for: a save made while save participants run, one
\* of a version being saved, one of a clean copy.
NothingToSave(s, c) ==
  \/ \E op \in s.ops : op.phase = "participants"
  \/ s.running = c.versionId
  \/ ~c.dirty

\* Mutant: the running save is cancelled and not waited for.
DoSaveWithoutQueue(s, c, overwrite) ==
  IF NothingToSave(s, c) THEN s ELSE BeginSave(CancelRunning(s), c, overwrite)

DoSave(s, c, overwrite) ==
  IF NothingToSave(s, c) THEN s
  ELSE IF s.running # Nothing THEN [CancelRunning(s) EXCEPT !.queued = overwrite]
  ELSE BeginSave(s, c, overwrite)

RunQueued(s, c) ==
  IF s.queued = Nothing THEN s ELSE DoSave([s EXCEPT !.queued = Nothing], c, s.queued)

DoneRunning(s, c, task) ==
  IF s.running = task THEN RunQueued([s EXCEPT !.running = Nothing], c) ELSE s

\* Both promises of a save settle, the inner one first.
EndSave(op, c) ==
  saving' = DoneRunning(DoneRunning([saving EXCEPT !.ops = @ \ {op}], c, op.version), c, op.task)

Advance(op, next) == saving' = [saving EXCEPT !.ops = (@ \ {op}) \cup {next}]

----------------------------------------------------------------------------
Init ==
  /\ file = [text |-> 0, mtime |-> 0]
  /\ event = FALSE
  /\ copy = Resolved(0, file, FALSE)
  /\ saving = NoSaves
  /\ reading = Nothing /\ reverting = Nothing /\ reloads = 0
  /\ tracker = Idle
  /\ backup = Nothing
  /\ life = "open"
  /\ edits = 0 /\ externals = 0 /\ faults = 0

Running == life # "closed"

\* The user or a save participant changes the content.
Edit ==
  /\ Running /\ edits < MaxEdits
  /\ edits' = edits + 1
  /\ ChangeCopy(OnModelContentChanged(copy, edits + 1, Append(copy.undo, copy.text)))
  /\ UNCHANGED <<fileVars, saving, reading, reverting, reloads, backup, life, faults>>

Undo ==
  /\ Running /\ copy.undo # <<>>
  /\ ChangeCopy(OnModelContentChanged(copy, Last(copy.undo), Front(copy.undo)))
  /\ UNCHANGED <<fileVars, saving, reading, reverting, reloads, backup, life, edits, faults>>

\* save(): an auto save is refused in conflict or error; overwriting is what
\* the user may choose after a conflict.
Save(auto, overwrite) ==
  /\ Running
  /\ auto => ~copy.conflict /\ ~copy.error
  /\ overwrite => copy.conflict /\ ~auto
  /\ saving' = DoSave(saving, copy, overwrite)
  /\ saving' # saving
  /\ UNCHANGED <<fileVars, copy, reading, reverting, reloads, backupVars, life, edits, faults>>

\* The participants are done: the save becomes one of the present version.
ParticipantsDone(op) ==
  /\ op.phase = "participants"
  /\ copy' = [copy EXCEPT !.error = FALSE]
  /\ saving' = [saving EXCEPT
       !.running = copy.versionId,
       !.ops = (@ \ {op}) \cup {[op EXCEPT !.phase = "snapshot", !.version = copy.versionId,
                                           !.text = copy.text, !.base = copy.stat]}]
  /\ UNCHANGED <<fileVars, reading, reverting, reloads, backupVars, life, edits, faults>>

\* Mutant: a copy being saved is taken to be dirty.
HandleErrorOfDirty(op, conflict) ==
  LET d == [copy EXCEPT !.error = TRUE, !.conflict = @ \/ conflict]
  IN  ChangeCopy(d) /\ EndSave(op, d)

HandleSaveError(op, conflict) ==
  LET d == [SetDirty(copy, TRUE, "error") EXCEPT !.error = TRUE, !.conflict = @ \/ conflict]
  IN  ChangeCopy(d) /\ EndSave(op, d)

ModifiedSince(op) ==
  ~op.overwrite /\ op.base.mtime < file.mtime /\ op.base.text # file.text /\ op.text # file.text

\* The snapshot is there: writeFile, unless the save was cancelled meanwhile.
\* The file is written if its stat passes the dirty write prevention.
WriteFile(op) ==
  /\ op.phase = "snapshot"
  /\ \/ /\ op.cancelled
        /\ EndSave(op, copy)
        /\ UNCHANGED <<file, event, copy, tracker, faults>>
     \/ /\ ~op.cancelled /\ ModifiedSince(op)
        /\ HandleSaveError(op, TRUE)
        /\ UNCHANGED <<file, event, faults>>
     \/ /\ ~op.cancelled /\ ~ModifiedSince(op)
        /\ file' = [text |-> op.text, mtime |-> file.mtime + 1]
        /\ event' = TRUE
        /\ copy' = [copy EXCEPT !.known = @ \cup {op.text}]
        /\ Advance(op, [op EXCEPT !.phase = "written"])
        /\ UNCHANGED <<tracker, faults>>
     \/ /\ ~op.cancelled /\ faults < MaxFaults
        /\ faults' = faults + 1
        /\ HandleSaveError(op, FALSE)
        /\ UNCHANGED <<file, event>>
  /\ UNCHANGED <<externals, reading, reverting, reloads, backup, life, edits>>

\* Mutant: edits made during the save are forgotten.
HandleAnySuccess(op) ==
  LET d == SetDirty(UpdateLastResolvedFileStat(copy, file), FALSE, IF file.text = op.text THEN "save" ELSE "late write")
  IN  /\ op.phase = "written"
      /\ ChangeCopy(d)
      /\ EndSave(op, d)
      /\ UNCHANGED <<fileVars, reading, reverting, reloads, backup, life, edits, faults>>

\* handleSaveSuccess, with the stat the file service took after the write.
HandleSaveSuccess(op) ==
  LET c == UpdateLastResolvedFileStat(copy, file)
      d == IF op.version = copy.versionId
           THEN SetDirty(c, FALSE, IF file.text = op.text THEN "save" ELSE "late write") ELSE c
  IN  /\ op.phase = "written"
      /\ ChangeCopy(d)
      /\ EndSave(op, d)
      /\ UNCHANGED <<fileVars, reading, reverting, reloads, backup, life, edits, faults>>

\* Another program writes the file. Between the file service's write and its
\* stat nothing notices that: known contains such texts too.
ExternalWrite ==
  /\ externals < MaxExternal
  /\ externals' = externals + 1
  /\ file' = [text |-> MaxEdits + externals + 1, mtime |-> file.mtime + 1]
  /\ event' = TRUE
  /\ copy' = IF \E op \in saving.ops : op.phase = "written"
             THEN [copy EXCEPT !.known = @ \cup {file'.text}] ELSE copy
  /\ UNCHANGED <<saving, reading, reverting, reloads, backupVars, life, edits, faults>>

----------------------------------------------------------------------------
\* Mutant: reloads accumulate.
FileEventAlwaysQueues ==
  /\ Running /\ event
  /\ event' = FALSE
  /\ reloads' = IF copy.dirty THEN reloads ELSE reloads + 1
  /\ UNCHANGED <<file, externals, copy, saving, reading, reverting, backupVars, life, edits, faults>>

\* onDidFilesChange: a copy that is not dirty is reloaded.
FileEvent ==
  /\ Running /\ event
  /\ event' = FALSE
  /\ reloads' = IF ~copy.dirty /\ reloads <= 1 THEN reloads + 1 ELSE reloads
  /\ UNCHANGED <<file, externals, copy, saving, reading, reverting, backupVars, life, edits, faults>>

\* What resolve() refuses.
Busy == copy.dirty \/ saving.running # Nothing

\* resolveFromFile. The manager passes reload.force on as forceReadFromFile,
\* and a revert sets only the latter: it reads with the etag as well.
StartReading(for) ==
  reading' = [for |-> for, version |-> copy.versionId, etag |-> copy.stat]

StartReload ==
  /\ Running /\ reloads > 0 /\ reading = Nothing
  /\ \/ /\ Busy
        /\ reloads' = reloads - 1
        /\ UNCHANGED reading
     \/ /\ ~Busy
        /\ StartReading("reload")
        /\ UNCHANGED reloads
  /\ UNCHANGED <<fileVars, copy, saving, reverting, backupVars, life, edits, faults>>

\* revert() of a dirty copy, one at a time: its flags are cleared at once.
Revert ==
  /\ Running /\ copy.dirty /\ reverting = Nothing
  /\ copy' = SetDirty(copy, FALSE, "revert")
  /\ reverting' = [conflict |-> copy.conflict, error |-> copy.error, saved |-> copy.saved]
  /\ UNCHANGED <<fileVars, saving, reading, reloads, backupVars, life, edits, faults>>

\* What is due when a reload or revert ends; a revert tells of the dirty flag
\* whether or not the copy is dirty again.
EndReading(c) ==
  /\ reading' = Nothing
  /\ copy' = c
  /\ IF reading # Nothing /\ reading.for = "reload"
     THEN reloads' = reloads - 1 /\ tracker' = Track(tracker, copy, c) /\ UNCHANGED reverting
     ELSE /\ reverting' = Nothing
          /\ tracker' = IF life # "open" THEN tracker
                        ELSE IF c.dirty THEN ScheduleBackup(tracker) ELSE DiscardBackup(tracker)
          /\ UNCHANGED reloads

StartRevertReading ==
  /\ Running /\ reverting # Nothing /\ reading = Nothing
  /\ \/ /\ Busy
        /\ EndReading(copy)
     \/ /\ ~Busy
        /\ StartReading("revert")
        /\ UNCHANGED <<copy, reverting, reloads, tracker>>
  /\ UNCHANGED <<fileVars, saving, backup, life, edits, faults>>

\* Mutant: the stat is taken over although the content is not.
ReadStatFirst ==
  /\ Running /\ reading # Nothing
  /\ \/ /\ reading.etag = file \/ reading.version # copy.versionId
        /\ EndReading(UpdateLastResolvedFileStat(copy, file))
     \/ /\ reading.etag # file /\ reading.version = copy.versionId
        /\ EndReading([ResolveFromContent(copy, file) EXCEPT !.known = @ \cup {file.text}])
  /\ UNCHANGED <<fileVars, saving, backup, life, edits, faults>>

\* The file is read: not modified since, or too late, or loaded.
ReadFile ==
  /\ Running /\ reading # Nothing
  /\ \/ /\ reading.etag = file \/ reading.version # copy.versionId
        /\ EndReading(copy)
     \/ /\ reading.etag # file /\ reading.version = copy.versionId
        /\ EndReading([ResolveFromContent(copy, file) EXCEPT !.known = @ \cup {file.text}])
  /\ UNCHANGED <<fileVars, saving, backup, life, edits, faults>>

\* A failed revert restores the flags, telling nobody.
ReadFails ==
  /\ Running /\ reading # Nothing /\ faults < MaxFaults
  /\ faults' = faults + 1
  /\ reading' = Nothing
  /\ \/ /\ reading.for = "reload"
        /\ reloads' = reloads - 1
        /\ copy' = [copy EXCEPT !.by = "failed reload"]
        /\ UNCHANGED reverting
     \/ /\ reading.for = "revert"
        /\ reverting' = Nothing
        /\ copy' = [copy EXCEPT !.dirty = TRUE, !.conflict = reverting.conflict,
                                !.error = reverting.error, !.saved = reverting.saved, !.by = "failed revert"]
        /\ UNCHANGED reloads
  /\ UNCHANGED <<fileVars, saving, backupVars, life, edits>>

----------------------------------------------------------------------------
BeginIo(op) ==
  /\ tracker' = [tracker EXCEPT !.next = Nothing, !.io = op]
  /\ backup' = IF op.kind = "write" THEN Nothing ELSE backup  \* truncated first

\* The timer of scheduleBackup fires and I/O is idle: a backup is written of a
\* copy that is dirty still, unless the service has it.
ScheduledBackup ==
  /\ Running /\ tracker.next = Scheduled /\ tracker.io = Nothing
  /\ \/ /\ copy.dirty
        /\ tracker.cache # [version |-> copy.versionId, stat |-> copy.stat]
        /\ BeginIo(WriteOp(copy))
     \/ /\ ~copy.dirty \/ tracker.cache = [version |-> copy.versionId, stat |-> copy.stat]
        /\ tracker' = CancelBackupOperation(tracker)
        /\ UNCHANGED backup
  /\ UNCHANGED <<fileVars, copy, saving, reading, reverting, reloads, life, edits, faults>>

\* ioOperationQueues: one operation at a time.
BackupIoStarts ==
  /\ Running /\ tracker.next \notin {Nothing, Scheduled} /\ tracker.io = Nothing
  /\ BeginIo(tracker.next)
  /\ UNCHANGED <<fileVars, copy, saving, reading, reverting, reloads, life, edits, faults>>

BackupIoEnds ==
  /\ Running /\ tracker.io # Nothing
  /\ LET op == tracker.io
     IN  IF op.kind = "write"
         THEN /\ backup' = [text |-> op.text, stat |-> op.stat]
              /\ tracker' = [tracker EXCEPT !.io = Nothing, !.cache = [version |-> op.version, stat |-> op.stat]]
         ELSE /\ backup' = Nothing
              /\ tracker' = [tracker EXCEPT !.io = Nothing, !.cache = Nothing]
  /\ UNCHANGED <<fileVars, copy, saving, reading, reverting, reloads, life, edits, faults>>

----------------------------------------------------------------------------
\* Mutant: any backup will do.
BeforeShutdownAnyBackup ==
  /\ life = "open" /\ faults < MaxFaults
  /\ faults' = faults + 1
  /\ life' = "closing"
  /\ tracker' = [CancelBackupOperation(tracker) EXCEPT
       !.next = IF ~copy.dirty THEN DeleteOp ELSE IF tracker.cache # Nothing THEN Nothing ELSE WriteOp(copy)]
  /\ copy' = [copy EXCEPT !.leaving = IF copy.dirty /\ tracker.io # DeleteOp THEN copy.versionId ELSE Nothing]
  /\ UNCHANGED <<fileVars, saving, reading, reverting, reloads, backup, edits>>

\* onFinalBeforeShutdown with hot exit: backups are cancelled and suspended,
\* a dirty copy is backed up unless it has a backup of its version, and the
\* backups of a window without one are discarded.
BeforeShutdown ==
  /\ life = "open" /\ faults < MaxFaults
  /\ faults' = faults + 1
  /\ life' = "closing"
  /\ tracker' = [CancelBackupOperation(tracker) EXCEPT
       !.next = IF ~copy.dirty THEN DeleteOp
                ELSE IF tracker.cache # Nothing /\ tracker.cache.version = copy.versionId THEN Nothing
                ELSE WriteOp(copy)]
  /\ copy' = [copy EXCEPT !.leaving = IF copy.dirty /\ tracker.io # DeleteOp THEN copy.versionId ELSE Nothing]
  /\ UNCHANGED <<fileVars, saving, reading, reverting, reloads, backup, edits>>

\* The window is gone. What other programs and the watcher do goes on.
Leave ==
  /\ life' = "closed"
  /\ saving' = NoSaves
  /\ reading' = Nothing /\ reverting' = Nothing /\ reloads' = 0
  /\ tracker' = Idle
  /\ copy' = Resolved(file.text, file, FALSE)
  /\ UNCHANGED <<fileVars, backup, edits>>

Shutdown ==
  /\ life = "closing" /\ tracker.next = Nothing /\ tracker.io = Nothing
  /\ Leave
  /\ UNCHANGED faults

Crash ==
  /\ Running /\ faults < MaxFaults
  /\ faults' = faults + 1
  /\ Leave

\* A new window resolves the copy, from its backup if there is one.
Restart ==
  /\ life = "closed"
  /\ life' = "open"
  /\ event' = FALSE
  /\ \/ /\ backup # Nothing
        /\ copy' = Resolved(backup.text, backup.stat, TRUE)
        /\ tracker' = ScheduleBackup([Idle EXCEPT !.cache = [version |-> 0, stat |-> backup.stat]])
     \/ /\ backup = Nothing
        /\ copy' = Resolved(file.text, file, FALSE)
        /\ UNCHANGED tracker
  /\ UNCHANGED <<file, externals, saving, reading, reverting, reloads, backup, edits, faults>>

SaveStep ==
  \E op \in saving.ops :
    ParticipantsDone(op) \/ WriteFile(op) \/ HandleSaveSuccess(op)

Next ==
  \/ Edit \/ Undo
  \/ \E auto, overwrite \in BOOLEAN : Save(auto, overwrite)
  \/ SaveStep
  \/ ExternalWrite \/ FileEvent
  \/ StartReload \/ Revert \/ StartRevertReading \/ ReadFile \/ ReadFails
  \/ ScheduledBackup \/ BackupIoStarts \/ BackupIoEnds
  \/ BeforeShutdown \/ Shutdown \/ Crash \/ Restart

Spec == Init /\ [][Next]_vars

----------------------------------------------------------------------------
Op == [task : Nat, version : Nat, phase : {"participants", "snapshot", "written"},
       overwrite : BOOLEAN, cancelled : BOOLEAN, text : Text, base : Stat]

BackupOp == [kind : {"write"}, text : Text, version : Nat, stat : Stat] \cup {DeleteOp}

Backup == [text : Text, stat : Stat]
Cached == [version : Nat, stat : Stat]
Reading == [for : {"reload", "revert"}, version : Nat, etag : Stat]
Reverting == [conflict : BOOLEAN, error : BOOLEAN, saved : Text \cup {Nothing}]

\* Nothing is no operation and no content.
ASSUME NothingAssumption ==
  Nothing \notin BackupOp \cup {Scheduled} \cup Backup \cup Cached \cup Reading \cup Reverting

Saving == [ops : SUBSET Op, running : Nat \cup {Nothing}, queued : BOOLEAN \cup {Nothing}]
Tracker == [next : BackupOp \cup {Scheduled, Nothing}, io : BackupOp \cup {Nothing}, cache : Cached \cup {Nothing}]

Cause == {"edit", "undo", "load", "save", "late write", "error", "revert", "failed revert", "failed reload", "backup"}

Copy == [text : Text, undo : Seq(Text), versionId : Nat, dirty : BOOLEAN, saved : Text \cup {Nothing},
         conflict : BOOLEAN, error : BOOLEAN, stat : Stat, by : Cause, known : SUBSET Text,
         leaving : Nat \cup {Nothing}]

\* Every variable has its type.
TypeOK ==
  /\ file \in Stat /\ event \in BOOLEAN
  /\ copy \in Copy
  /\ saving \in Saving
  /\ reading \in Reading \cup {Nothing} /\ reverting \in Reverting \cup {Nothing} /\ reloads \in 0..2
  /\ tracker \in Tracker
  /\ backup \in Backup \cup {Nothing}
  /\ life \in {"open", "closing", "closed"}
  /\ edits \in 0..MaxEdits /\ externals \in 0..MaxExternal /\ faults \in 0..MaxFaults

\* Never ever do two saves execute at the same time, whatever is cancelled,
\* queued or renamed by save participants meanwhile.
SavesDoNotOverlap == Cardinality(saving.ops) <= 1

\* A working copy in conflict or error mode is dirty, also when a revert or an
\* undo crosses the save that fails.
ErrorIsDirty == copy.conflict \/ copy.error => copy.dirty

Quiet == saving.ops = {} /\ reading = Nothing /\ reverting = Nothing /\ reloads = 0 /\ ~event

\* A copy that is clean because it was loaded or saved shows what the file
\* holds, once changes of the file are reported: edits made while it was being
\* read or written are not mistaken for saved ones. (A file written by another
\* program between a save's write and its stat stays unnoticed: "late write".)
CleanIsOnDisk ==
  life = "open" /\ ~copy.dirty /\ copy.by \in {"load", "save"} /\ Quiet => copy.text = file.text

\* With no backup operation pending, a dirty copy has its content backed up
\* and a clean one has no backup, through edits, saves, reloads and restarts.
\* A revert that fails restores the dirty flag silently, and a backup that was
\* due meanwhile has been dropped: not until the next change is it made.
BackupIsCurrent ==
  /\ life = "open" /\ tracker.next = Nothing /\ tracker.io = Nothing
  /\ reverting = Nothing /\ copy.by # "failed revert"
  => IF copy.dirty THEN backup # Nothing /\ backup.text = copy.text ELSE backup = Nothing

\* Unless the user chose to overwrite, a save never replaces what another
\* program wrote and this copy has neither shown nor written, not even a copy
\* restored from its backup by a new window.
NothingUnknownIsOverwritten ==
  [][\A op \in saving.ops :
       WriteFile(op) /\ file' # file /\ ~op.overwrite => file.text \in copy.known \cup {op.text}]_vars

\* Hot exit: what was dirty when the shutdown began and is so still when the
\* window goes is in the backup. Not covered are edits made after the backup
\* and a copy that became dirty again while its backup was being deleted.
HotExit ==
  [][Shutdown /\ copy.dirty /\ copy.leaving = copy.versionId
       => backup # Nothing /\ backup.text = copy.text]_vars

\* What a revert leaves shows what the file holds: "Force read from disk unless
\* reverting soft".
RevertedIsOnDisk ==
  life = "open" /\ ~copy.dirty /\ copy.by = "revert" /\ Quiet => copy.text = file.text
=============================================================================
