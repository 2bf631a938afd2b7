------------------------- MODULE WorkingCopyProofs -------------------------
(***************************************************************************)
(* Proofs about WorkingCopy, for any number of edits, writes by other      *)
(* programs and faults.                                                    *)
(*                                                                         *)
(* The inductive invariant Inv has one part per question: which save runs  *)
(* and which is queued (SavesAreQueued); that every stat held anywhere is  *)
(* one the file had (StatsAreSeen) and its text known to the copy          *)
(* (StatsAreKnown); what a resolve under way will find when it ends        *)
(* (ReadingIsStale, CleanIsUpToDate); and what the backup tracker still    *)
(* owes (TrackerFollows, BackupsAreOfVersions, LeavingIsBackedUp).         *)
(***************************************************************************)
EXTENDS WorkingCopy, TLAPS, FiniteSetTheorems, SequenceTheorems

USE BoundsAssumption, NothingAssumption

BackupWrite == [kind : {"write"}, text : Text, version : Nat, stat : Stat]

(* One save runs at a time, known to the sequentializer by its version;    *)
(* one is queued only if the copy has changed since.                       *)
SavesAreQueued ==
  /\ \A a, b \in saving.ops : a = b
  /\ saving.ops = {} => saving.running = Nothing /\ saving.queued = Nothing
  /\ \A op \in saving.ops :
       /\ saving.running = op.version /\ op.task <= op.version /\ op.version <= copy.versionId
       /\ op.phase = "participants" => saving.queued = Nothing
       /\ op.phase # "participants" /\ op.version = copy.versionId => op.text = copy.text
       /\ saving.queued # Nothing => op.version < copy.versionId

(* A stat that anybody holds is older than the file or is the file's.      *)
Seen(s, f) == s.mtime <= f.mtime /\ (s.mtime = f.mtime => s = f)

StatsAreSeen ==
  /\ Seen(copy.stat, file)
  /\ \A op \in saving.ops : Seen(op.base, file)
  /\ reading # Nothing => Seen(reading.etag, file)
  /\ backup # Nothing => Seen(backup.stat, file)
  /\ tracker.next \in BackupWrite => Seen(tracker.next.stat, file)
  /\ tracker.io \in BackupWrite => Seen(tracker.io.stat, file)

(* The copy has shown or written what its stats are stats of, and the file *)
(* between a save's write and its stat.                                    *)
StatsAreKnown ==
  /\ copy.stat.text \in copy.known
  /\ \A op \in saving.ops :
       /\ op.base.text \in copy.known
       /\ op.phase = "written" => file.text \in copy.known

(* What a resolve finds is of no use once the copy was edited or saved.    *)
ReadingIsStale ==
  reading # Nothing =>
    /\ reading.version <= copy.versionId
    /\ copy.dirty \/ saving.ops # {} => reading.version < copy.versionId
    /\ reading.for = "reload" => reloads > 0
    /\ reading.for = "revert" => reverting # Nothing

(* A reload that has not begun to read, and a resolve that will load.      *)
ReloadQueued ==
  IF reading # Nothing /\ reading.for = "reload" THEN reloads > 1 ELSE reloads > 0
WillLoad == reading # Nothing /\ reading.version = copy.versionId /\ reading.etag # file

(* A copy loaded or saved has the text of its stat, which is the file's    *)
(* unless a change is to be reported or a resolve to take place.           *)
CleanIsUpToDate ==
  ~copy.dirty /\ copy.by \in {"load", "save"} =>
    /\ saving.ops = {}
    /\ copy.text = copy.stat.text
    /\ copy.stat = file \/ event \/ ReloadQueued \/ WillLoad

BackedUp == backup # Nothing /\ backup.text = copy.text

(* The tracker's pending and running operations make the backup follow the *)
(* dirty flag.                                                             *)
Followed == life = "open" /\ reverting = Nothing /\ copy.by # "failed revert"

TrackerFollows ==
  /\ life = "open" => tracker.next \in {Nothing, Scheduled, DeleteOp}
  /\ life # "open" => tracker.next # Scheduled
  /\ copy.by = "failed revert" => copy.dirty /\ reading = Nothing
  /\ Followed /\ tracker.next = Scheduled => copy.dirty
  /\ Followed /\ tracker.next = DeleteOp => ~copy.dirty
  /\ Followed /\ tracker.next = Nothing /\ tracker.io = DeleteOp => ~copy.dirty
  /\ Followed /\ tracker.next = Nothing /\ tracker.io \in BackupWrite =>
       copy.dirty /\ tracker.io.version = copy.versionId
  /\ Followed /\ tracker.next = Nothing /\ tracker.io = Nothing =>
       IF copy.dirty THEN BackedUp ELSE backup = Nothing

(* A backup of the present version has the present content.                *)
BackupsAreOfVersions ==
  /\ \A op \in {tracker.next, tracker.io} : op \in BackupWrite =>
       op.version <= copy.versionId /\ (op.version = copy.versionId => op.text = copy.text)
  /\ tracker.cache # Nothing => tracker.cache.version <= copy.versionId
  /\ tracker.cache # Nothing /\ life = "open" /\ tracker.io \in BackupWrite =>
       tracker.cache.version <= tracker.io.version
  /\ tracker.cache # Nothing /\ tracker.io = Nothing /\ tracker.cache.version = copy.versionId => BackedUp

(* What a shutdown found dirty is being backed up or is backed up, unless  *)
(* it changes.                                                             *)
LeavingIsBackedUp ==
  /\ copy.leaving # Nothing => copy.leaving <= copy.versionId
  /\ life = "closing" /\ copy.leaving = copy.versionId =>
       \/ tracker.next \in BackupWrite /\ tracker.next.version = copy.versionId
       \/ /\ tracker.next = Nothing /\ tracker.io \in BackupWrite
          /\ tracker.io.version = copy.versionId
       \/ tracker.next = Nothing /\ tracker.io = Nothing /\ BackedUp

ClosedIsIdle ==
  life = "closed" =>
    saving = NoSaves /\ reading = Nothing /\ reverting = Nothing /\ reloads = 0 /\ tracker = Idle

Inv ==
  /\ TypeOK /\ ErrorIsDirty /\ ClosedIsIdle
  /\ SavesAreQueued /\ StatsAreSeen /\ StatsAreKnown
  /\ ReadingIsStale /\ CleanIsUpToDate
  /\ TrackerFollows /\ BackupsAreOfVersions /\ LeavingIsBackedUp

----------------------------------------------------------------------------
(* Types, and what the operators do to the copy, the tracker and the saves. *)

LEMMA Texts ==
  /\ Text \subseteq Int /\ 0 \in Text
  /\ \A n \in Nat : n < MaxEdits => n + 1 \in Text
  /\ \A n \in Nat : n < MaxExternal => MaxEdits + n + 1 \in Text
BY DEF Text

LEMMA BackupOps ==
  /\ BackupOp = BackupWrite \cup {DeleteOp}
  /\ DeleteOp \notin BackupWrite /\ Scheduled \notin BackupWrite /\ Nothing \notin BackupWrite
  /\ DeleteOp # Scheduled /\ DeleteOp # Nothing /\ Scheduled # Nothing
  /\ \A op \in BackupWrite : op.kind = "write" /\ op.text \in Text /\ op.version \in Nat /\ op.stat \in Stat
  /\ DeleteOp.kind = "delete"
<1>1. \A op \in BackupWrite : op.kind = "write" /\ op.text \in Text /\ op.version \in Nat /\ op.stat \in Stat
  BY DEF BackupWrite
<1>2. DeleteOp.kind = "delete" /\ Scheduled.kind = "scheduled"
  BY DEF DeleteOp, Scheduled
<1>3. BackupOp = BackupWrite \cup {DeleteOp}
  BY DEF BackupOp, BackupWrite
<1> QED
  BY <1>1, <1>2, <1>3

LEMMA Ends ==
  ASSUME NEW q \in Seq(Text), q # <<>>
  PROVE  Last(q) \in Text /\ Front(q) \in Seq(Text)
<1>1. Len(q) \in Nat /\ Len(q) > 0
  OBVIOUS
<1>2. SubSeq(q, 1, Len(q) - 1) \in Seq(Text)
  BY <1>1
<1>3. q[Len(q)] \in Text
  BY <1>1
<1> QED
  BY <1>2, <1>3 DEF Last, Front

LEMMA SetDirtyType ==
  ASSUME NEW c \in Copy, NEW dirty \in BOOLEAN, NEW by \in Cause
  PROVE  SetDirty(c, dirty, by) \in Copy
BY DEF SetDirty, Copy

LEMMA SetDirtyEffect ==
  ASSUME NEW c \in Copy, NEW by \in Cause
  PROVE  /\ SetDirty(c, TRUE, by) = [c EXCEPT !.dirty = TRUE, !.by = IF c.dirty THEN c.by ELSE by]
         /\ SetDirty(c, FALSE, by) =
              [c EXCEPT !.dirty = FALSE, !.conflict = FALSE, !.error = FALSE, !.saved = c.text, !.by = by]
BY DEF SetDirty, Copy

(* What two copies differ in.                                              *)
SameContent(c, d) == d.text = c.text /\ d.undo = c.undo /\ d.versionId = c.versionId
SameStat(c, d) == d.stat = c.stat /\ d.known = c.known
SameFlags(c, d) ==
  /\ d.dirty = c.dirty /\ d.conflict = c.conflict /\ d.error = c.error /\ d.saved = c.saved /\ d.by = c.by
  /\ d.leaving = c.leaving

LEMMA CleanEffect ==
  ASSUME NEW c \in Copy, NEW by \in Cause
  PROVE  LET d == SetDirty(c, FALSE, by)
         IN  /\ d \in Copy /\ SameContent(c, d) /\ SameStat(c, d) /\ d.leaving = c.leaving
             /\ ~d.dirty /\ ~d.conflict /\ ~d.error /\ d.by = by
BY DEF SetDirty, Copy, SameContent, SameStat

LEMMA DirtyEffect ==
  ASSUME NEW c \in Copy, NEW by \in Cause
  PROVE  LET d == SetDirty(c, TRUE, by)
         IN  /\ d \in Copy /\ SameContent(c, d) /\ SameStat(c, d) /\ d.leaving = c.leaving
             /\ d.dirty /\ d.by = (IF c.dirty THEN c.by ELSE by)
BY DEF SetDirty, Copy, SameContent, SameStat

LEMMA UpdateStatEffect ==
  ASSUME NEW c \in Copy, NEW stat \in Stat, c.stat.mtime <= stat.mtime
  PROVE  LET d == UpdateLastResolvedFileStat(c, stat)
         IN  d \in Copy /\ SameContent(c, d) /\ SameFlags(c, d) /\ d.stat = stat /\ d.known = c.known
BY DEF UpdateLastResolvedFileStat, Copy, SameContent, SameFlags

LEMMA ContentChangedEffect ==
  ASSUME NEW c \in Copy, NEW text \in Text, NEW undo \in Seq(Text)
  PROVE  LET d == OnModelContentChanged(c, text, undo)
         IN  /\ d \in Copy /\ SameStat(c, d) /\ d.leaving = c.leaving
             /\ d.text = text /\ d.versionId = c.versionId + 1
             /\ \/ ~d.dirty /\ ~d.conflict /\ ~d.error /\ d.by = "undo"
                \/ d.dirty /\ d.by = "edit"
<1> DEFINE d == [c EXCEPT !.text = text, !.undo = undo, !.versionId = @ + 1]
           e == SetDirty(d, FALSE, "undo")
           f == SetDirty(d, TRUE, "edit")
           g == [f EXCEPT !.by = "edit"]
<1>1. c.versionId + 1 \in Nat
  BY DEF Copy
<1>2. d \in Copy
  BY <1>1 DEF Copy
<1>3. d.stat = c.stat /\ d.known = c.known /\ d.leaving = c.leaving
  BY DEF Copy
<1>4. d.text = text /\ d.versionId = c.versionId + 1
  BY DEF Copy
<1>5. OnModelContentChanged(c, text, undo) = e \/ OnModelContentChanged(c, text, undo) = g
  BY DEF OnModelContentChanged
<1> HIDE DEF d
<1>6. /\ e \in Copy /\ SameContent(d, e) /\ SameStat(d, e) /\ e.leaving = d.leaving
      /\ ~e.dirty /\ ~e.conflict /\ ~e.error /\ e.by = "undo"
  BY <1>2, CleanEffect DEF Cause
<1>7. f \in Copy /\ SameContent(d, f) /\ SameStat(d, f) /\ f.leaving = d.leaving /\ f.dirty
  BY <1>2, DirtyEffect DEF Cause
<1> HIDE DEF e, f
<1>8. g \in Copy /\ SameContent(f, g) /\ SameStat(f, g) /\ g.leaving = f.leaving /\ g.dirty = f.dirty /\ g.by = "edit"
  BY <1>7 DEF Cause, Copy, SameContent, SameStat
<1> HIDE DEF g
<1> QED
  BY <1>3, <1>4, <1>5, <1>6, <1>7, <1>8 DEF SameContent, SameStat

LEMMA LoadEffect ==
  ASSUME NEW c \in Copy, NEW stat \in Stat, c.stat.mtime <= stat.mtime
  PROVE  LET d == ResolveFromContent(c, stat)
         IN  /\ d \in Copy /\ d.leaving = c.leaving
             /\ d.text = stat.text /\ d.versionId = c.versionId + 1 /\ d.stat = stat /\ d.known = c.known
             /\ ~d.dirty /\ ~d.conflict /\ ~d.error /\ d.by = "load"
<1> DEFINE u == UpdateLastResolvedFileStat(c, stat)
           d == [u EXCEPT !.text = stat.text, !.undo = Append(c.undo, c.text), !.versionId = @ + 1]
           e == SetDirty(d, FALSE, "load")
<1>1. u \in Copy /\ SameContent(c, u) /\ SameFlags(c, u) /\ u.stat = stat /\ u.known = c.known
  BY UpdateStatEffect
<1>2. stat.text \in Text /\ Append(c.undo, c.text) \in Seq(Text)
  BY DEF Stat, Copy
<1>3. ResolveFromContent(c, stat) = e
  BY DEF ResolveFromContent
<1> HIDE DEF u
<1>4. u.versionId + 1 \in Nat
  BY <1>1 DEF Copy
<1>5. d \in Copy
  BY <1>1, <1>2, <1>4 DEF Copy
<1>6. d.stat = u.stat /\ d.known = u.known /\ d.leaving = u.leaving
  BY <1>1 DEF Copy
<1>7. d.text = stat.text /\ d.versionId = u.versionId + 1
  BY <1>1 DEF Copy
<1> HIDE DEF d
<1>8. /\ e \in Copy /\ SameContent(d, e) /\ SameStat(d, e) /\ e.leaving = d.leaving
      /\ ~e.dirty /\ ~e.conflict /\ ~e.error /\ e.by = "load"
  BY <1>5, CleanEffect DEF Cause
<1> QED
  BY <1>1, <1>3, <1>6, <1>7, <1>8 DEF SameContent, SameStat, SameFlags

(* d is a copy of a window that opens.                                     *)
IsResolved(d, text, stat, dirty) ==
  /\ d \in Copy /\ d.text = text /\ d.versionId = 0 /\ d.dirty = dirty /\ d.stat = stat
  /\ d.known = {stat.text} /\ d.leaving = Nothing /\ ~d.conflict /\ ~d.error
  /\ d.by = IF dirty THEN "backup" ELSE "load"

LEMMA ResolvedEffect ==
  ASSUME NEW text \in Text, NEW stat \in Stat, NEW dirty \in BOOLEAN
  PROVE  IsResolved(Resolved(text, stat, dirty), text, stat, dirty)
<1>1. {stat.text} \in SUBSET Text /\ <<>> \in Seq(Text) /\ Nothing \in Nat \cup {Nothing}
  BY DEF Stat
<1>2. (IF dirty THEN "backup" ELSE "load") \in Cause /\ (IF dirty THEN Nothing ELSE text) \in Text \cup {Nothing}
  BY DEF Cause
<1>3. Resolved(text, stat, dirty) \in Copy
  BY <1>1, <1>2 DEF Resolved, Copy
<1> QED
  BY <1>3 DEF Resolved, IsResolved

(* What the tracker t becomes when the copy changes from c to d.           *)
Tracks(c, d, t, u) ==
  /\ u \in Tracker /\ u.io = t.io /\ u.cache = t.cache
  /\ u.next \in {t.next, Scheduled, DeleteOp}
  /\ life # "open" => u = t
  /\ d.dirty = c.dirty /\ d.versionId = c.versionId => u = t
  /\ ~c.dirty /\ ~d.dirty => u = t
  /\ life = "open" /\ d.dirty /\ (~c.dirty \/ c.versionId # d.versionId) => u.next = Scheduled
  /\ life = "open" /\ c.dirty /\ ~d.dirty => u.next = DeleteOp

LEMMA TrackEffect ==
  ASSUME NEW t \in Tracker, NEW c \in Copy, NEW d \in Copy
  PROVE  Tracks(c, d, t, Track(t, c, d))
<1> USE DEF Tracks
<1>1. c.dirty \in BOOLEAN /\ d.dirty \in BOOLEAN
  BY DEF Copy
<1>2. /\ ScheduleBackup(t) \in Tracker /\ ScheduleBackup(t).io = t.io /\ ScheduleBackup(t).cache = t.cache
      /\ ScheduleBackup(t).next = Scheduled
  BY DEF ScheduleBackup, Tracker
<1>3. /\ DiscardBackup(t) \in Tracker /\ DiscardBackup(t).io = t.io /\ DiscardBackup(t).cache = t.cache
      /\ DiscardBackup(t).next = DeleteOp
  BY BackupOps DEF DiscardBackup, Tracker
<1>4. CASE life # "open"
  BY <1>4 DEF Track
<1>5. CASE life = "open" /\ d.dirty /\ (~c.dirty \/ c.versionId # d.versionId)
  <2>1. Track(t, c, d) = ScheduleBackup(t)
    BY <1>5 DEF Track
  <2> QED
    BY <1>1, <1>2, <1>5, <2>1
<1>6. CASE life = "open" /\ c.dirty /\ ~d.dirty
  <2>1. Track(t, c, d) = DiscardBackup(t)
    BY <1>6 DEF Track
  <2> QED
    BY <1>1, <1>3, <1>6, <2>1
<1>7. CASE life = "open" /\ ~(d.dirty /\ (~c.dirty \/ c.versionId # d.versionId)) /\ ~(c.dirty /\ ~d.dirty)
  BY <1>1, <1>7 DEF Track
<1> QED
  BY <1>4, <1>5, <1>6, <1>7

(* The save that begins of a copy, and a sequentializer that runs one save. *)
Begun(c, overwrite) ==
  [task |-> c.versionId, version |-> c.versionId, phase |-> "participants",
   overwrite |-> overwrite, cancelled |-> FALSE, text |-> c.text, base |-> c.stat]

OneSave(op, queued) == [ops |-> {op}, running |-> op.version, queued |-> queued]

LEMMA BegunType ==
  ASSUME NEW c \in Copy, NEW overwrite \in BOOLEAN
  PROVE  /\ Begun(c, overwrite) \in Op
         /\ OneSave(Begun(c, overwrite), Nothing) \in Saving
<1>1. Begun(c, overwrite) \in Op
  BY DEF Begun, Op, Copy
<1>2. Begun(c, overwrite).version \in Nat
  BY DEF Begun, Copy
<1> QED
  BY <1>1, <1>2 DEF OneSave, Saving

LEMMA SavingIs ==
  ASSUME TypeOK, SavesAreQueued
  PROVE  /\ saving.ops = {} => saving = NoSaves
         /\ \A op \in saving.ops :
              /\ op \in Op /\ saving.ops = {op}
              /\ saving = OneSave(op, saving.queued)
<1>1. saving = [ops |-> saving.ops, running |-> saving.running, queued |-> saving.queued]
  BY DEF TypeOK, Saving
<1>2. ASSUME NEW op \in saving.ops
      PROVE  op \in Op /\ saving.ops = {op} /\ saving.running = op.version
  BY DEF TypeOK, Saving, SavesAreQueued
<1> QED
  BY <1>1, <1>2 DEF SavesAreQueued, NoSaves, OneSave

LEMMA ExceptRunning ==
  ASSUME NEW ops, NEW running, NEW x, NEW y, NEW q
  PROVE  [[ops |-> x, running |-> y, queued |-> q] EXCEPT !.running = running, !.ops = ops] =
           [ops |-> ops, running |-> running, queued |-> q]
<1> DEFINE r == [ops |-> x, running |-> y, queued |-> q]
<1>1. [r EXCEPT !.running = running] = [ops |-> x, running |-> running, queued |-> q]
  OBVIOUS
<1>2. [[ops |-> x, running |-> running, queued |-> q] EXCEPT !.ops = ops] =
        [ops |-> ops, running |-> running, queued |-> q]
  OBVIOUS
<1> HIDE DEF r
<1>3. [r EXCEPT !.running = running, !.ops = ops] = [[r EXCEPT !.running = running] EXCEPT !.ops = ops]
  OBVIOUS
<1>4. [r EXCEPT !.running = running, !.ops = ops] = [ops |-> ops, running |-> running, queued |-> q]
  BY <1>1, <1>2, <1>3
<1> QED
  BY <1>4 DEF r

LEMMA BeginSaveEffect ==
  ASSUME NEW c \in Copy, NEW overwrite \in BOOLEAN
  PROVE  BeginSave(NoSaves, c, overwrite) = OneSave(Begun(c, overwrite), Nothing)
<1> DEFINE b == Begun(c, overwrite)
<1>1. b.version = c.versionId
  BY DEF Begun
<1>2. BeginSave(NoSaves, c, overwrite) = [NoSaves EXCEPT !.running = c.versionId, !.ops = @ \cup {b}]
  BY DEF BeginSave, Begun
<1> HIDE DEF b
<1>3. NoSaves.ops \cup {b} = {b}
  BY DEF NoSaves
<1>4. ASSUME NEW ops, NEW running
      PROVE  [NoSaves EXCEPT !.running = running, !.ops = ops] = [ops |-> ops, running |-> running, queued |-> Nothing]
  <2>1. [NoSaves EXCEPT !.running = running] = [ops |-> {}, running |-> running, queued |-> Nothing]
    BY DEF NoSaves
  <2>2. [NoSaves EXCEPT !.running = running, !.ops = ops] = [[NoSaves EXCEPT !.running = running] EXCEPT !.ops = ops]
    OBVIOUS
  <2>3. [[ops |-> {}, running |-> running, queued |-> Nothing] EXCEPT !.ops = ops] =
          [ops |-> ops, running |-> running, queued |-> Nothing]
    OBVIOUS
  <2> QED
    BY <2>1, <2>2, <2>3
<1>5. OneSave(b, Nothing) = [ops |-> {b}, running |-> c.versionId, queued |-> Nothing]
  BY <1>1 DEF OneSave
<1>6. BeginSave(NoSaves, c, overwrite) = OneSave(b, Nothing)
  BY <1>2, <1>3, <1>4, <1>5
<1> QED
  BY <1>6 DEF b

(* A save that ends leaves none, or the queued one begins.                 *)
LEMMA EndSaveEffect ==
  ASSUME TypeOK, SavesAreQueued, NEW op \in saving.ops, NEW c \in Copy,
         c.versionId = copy.versionId, EndSave(op, c)
  PROVE  \/ saving' = NoSaves
         \/ c.dirty /\ \E overwrite \in BOOLEAN : saving' = OneSave(Begun(c, overwrite), Nothing)
<1> DEFINE q == saving.queued
           none == [ops |-> {}, running |-> Nothing, queued |-> q]
<1>1. /\ op \in Op /\ saving = OneSave(op, q) /\ q \in BOOLEAN \cup {Nothing}
      /\ op.task \in Nat /\ op.version \in Nat /\ op.task <= op.version
      /\ q # Nothing => op.version < c.versionId
      /\ c.versionId \in Nat
  BY SavingIs DEF TypeOK, Saving, SavesAreQueued, Op, Copy
<1>2. [saving EXCEPT !.ops = @ \ {op}] = [ops |-> {}, running |-> op.version, queued |-> q]
  BY <1>1 DEF OneSave
<1> DEFINE rest == [ops |-> {}, running |-> op.version, queued |-> q]
<1>3. DoneRunning(rest, c, op.version) = RunQueued(none, c)
  <2>1. [rest EXCEPT !.running = Nothing] = none /\ rest.running = op.version
    OBVIOUS
  <2> HIDE DEF rest, none
  <2> QED
    BY <2>1 DEF DoneRunning
<1>4. saving' = DoneRunning(RunQueued(none, c), c, op.task)
  BY <1>2, <1>3 DEF EndSave
<1>5. CASE q = Nothing
  <2>1. RunQueued(none, c) = NoSaves
    BY <1>5 DEF RunQueued, NoSaves
  <2>2. DoneRunning(NoSaves, c, op.task) = NoSaves
    BY <1>1 DEF DoneRunning, NoSaves
  <2> QED
    BY <1>4, <2>1, <2>2
<1>6. CASE q # Nothing
  <2>1. q \in BOOLEAN /\ op.task # c.versionId
    BY <1>1, <1>6
  <2>2. RunQueued(none, c) = DoSave(NoSaves, c, q)
    BY <1>6 DEF RunQueued, NoSaves
  <2>3. DoSave(NoSaves, c, q) = IF ~c.dirty THEN NoSaves ELSE OneSave(Begun(c, q), Nothing)
    <3>1. NothingToSave(NoSaves, c) <=> ~c.dirty
      BY <1>1 DEF NothingToSave, NoSaves
    <3>2. BeginSave(NoSaves, c, q) = OneSave(Begun(c, q), Nothing)
      BY <2>1, BeginSaveEffect
    <3> QED
      BY <3>1, <3>2 DEF DoSave, NoSaves
  <2>4. DoneRunning(NoSaves, c, op.task) = NoSaves
    BY <1>1 DEF DoneRunning, NoSaves
  <2>5. DoneRunning(OneSave(Begun(c, q), Nothing), c, op.task) = OneSave(Begun(c, q), Nothing)
    BY <2>1 DEF DoneRunning, OneSave, Begun
  <2> QED
    BY <1>4, <2>1, <2>2, <2>3, <2>4, <2>5
<1> QED
  BY <1>5, <1>6

(* What save() does: a save begins, or waits for the one it cancels.       *)
LEMMA DoSaveEffect ==
  ASSUME TypeOK, SavesAreQueued, NEW overwrite \in BOOLEAN,
         saving' = DoSave(saving, copy, overwrite), saving' # saving
  PROVE  /\ copy.dirty
         /\ \/ saving.ops = {} /\ saving' = OneSave(Begun(copy, overwrite), Nothing)
            \/ \E op \in saving.ops :
                 /\ op.phase # "participants" /\ op.version # copy.versionId
                 /\ \/ saving' = OneSave(op, overwrite)
                    \/ saving' = OneSave([op EXCEPT !.cancelled = TRUE], overwrite)
<1>1. ~NothingToSave(saving, copy)
  BY DEF DoSave
<1>2. copy.dirty /\ saving.running # copy.versionId /\ \A op \in saving.ops : op.phase # "participants"
  BY <1>1 DEF NothingToSave
<1>3. CASE saving.ops = {}
  <2>1. saving = NoSaves
    BY <1>3, SavingIs
  <2>2. saving' = BeginSave(NoSaves, copy, overwrite)
    BY <1>1, <2>1 DEF DoSave, NoSaves
  <2>3. BeginSave(NoSaves, copy, overwrite) = OneSave(Begun(copy, overwrite), Nothing)
    BY BeginSaveEffect DEF TypeOK
  <2> QED
    BY <1>2, <1>3, <2>2, <2>3
<1>4. ASSUME NEW op \in saving.ops
      PROVE  \/ saving' = OneSave(op, overwrite)
             \/ saving' = OneSave([op EXCEPT !.cancelled = TRUE], overwrite)
  <2> DEFINE op2 == IF op.phase = "snapshot" THEN [op EXCEPT !.cancelled = TRUE] ELSE op
  <2>1. op \in Op /\ saving.ops = {op} /\ saving.running = op.version /\ saving = OneSave(op, saving.queued)
    BY SavingIs DEF SavesAreQueued
  <2>2. op.version \in Nat /\ op2.version = op.version
    BY <2>1 DEF Op
  <2>3. saving.running # Nothing
    BY <2>1, <2>2
  <2>4. saving' = [CancelRunning(saving) EXCEPT !.queued = overwrite]
    BY <1>1, <2>3 DEF DoSave
  <2>5. {IF saving.running \in {o.task, o.version} /\ o.phase = "snapshot"
         THEN [o EXCEPT !.cancelled = TRUE] ELSE o : o \in saving.ops} = {op2}
    BY <2>1
  <2>6. CancelRunning(saving) = [saving EXCEPT !.ops = {op2}]
    BY <2>5 DEF CancelRunning
  <2> HIDE DEF op2
  <2>7. saving' = [ops |-> {op2}, running |-> op.version, queued |-> overwrite]
    BY <2>1, <2>4, <2>6 DEF OneSave
  <2>8. saving' = OneSave(op2, overwrite)
    BY <2>2, <2>7 DEF OneSave
  <2> QED
    BY <2>8 DEF op2
<1> QED
  BY <1>2, <1>3, <1>4 DEF SavesAreQueued

----------------------------------------------------------------------------
(* What several actions do to a part of the invariant.                     *)

LEMMA NoSavesEffect ==
  ASSUME saving' = NoSaves
  PROVE  saving' \in Saving /\ saving'.ops = {} /\ SavesAreQueued'
BY DEF NoSaves, Saving, SavesAreQueued

LEMMA OneSaveEffect ==
  ASSUME NEW op \in Op, NEW q \in BOOLEAN \cup {Nothing}, saving' = OneSave(op, q),
         op.task <= op.version, op.version <= copy'.versionId,
         op.phase = "participants" => q = Nothing,
         op.phase # "participants" /\ op.version = copy'.versionId => op.text = copy'.text,
         q # Nothing => op.version < copy'.versionId
  PROVE  saving' \in Saving /\ saving'.ops = {op} /\ SavesAreQueued'
<1>1. saving'.ops = {op} /\ saving'.running = op.version /\ saving'.queued = q
  BY DEF OneSave
<1>2. saving' \in Saving
  BY DEF OneSave, Saving, Op
<1> QED
  BY <1>1, <1>2 DEF SavesAreQueued

LEMMA BegunEffect ==
  ASSUME NEW c \in Copy, NEW overwrite \in BOOLEAN, saving' = OneSave(Begun(c, overwrite), Nothing),
         copy'.versionId = c.versionId
  PROVE  saving' \in Saving /\ saving'.ops = {Begun(c, overwrite)} /\ SavesAreQueued'
<1> DEFINE op == Begun(c, overwrite)
<1>1. op \in Op /\ op.task = c.versionId /\ op.version = c.versionId /\ op.phase = "participants"
  BY BegunType DEF Begun
<1>2. c.versionId \in Nat
  BY DEF Copy
<1> HIDE DEF op
<1>3. saving' = OneSave(op, Nothing)
  BY DEF op
<1>4. saving' \in Saving /\ saving'.ops = {op} /\ SavesAreQueued'
  BY <1>1, <1>2, <1>3, OneSaveEffect
<1> QED
  BY <1>4 DEF op

LEMMA SavesStayQueued ==
  ASSUME TypeOK, SavesAreQueued, copy' \in Copy, saving' = saving,
         copy.versionId <= copy'.versionId,
         copy'.versionId = copy.versionId => copy'.text = copy.text
  PROVE  SavesAreQueued'
<1>1. ASSUME NEW op \in saving.ops
      PROVE  op.version \in Nat /\ copy.versionId \in Nat /\ copy'.versionId \in Nat
  BY DEF TypeOK, Saving, Op, Copy
<1> QED
  BY <1>1 DEF SavesAreQueued

(* The tracker's running operation and cache stay; its pending operation    *)
(* may be replaced as long as the window is not closing.                    *)
Kept(t, u) ==
  /\ u \in Tracker /\ u.io = t.io /\ u.cache = t.cache
  /\ u.next \in {t.next, Scheduled, DeleteOp}
  /\ life # "open" => u = t

LEMMA VersionsAreFollowed ==
  ASSUME TypeOK, BackupsAreOfVersions, LeavingIsBackedUp, NEW d \in Copy, copy' = d, Kept(tracker, tracker'),
         copy.versionId <= d.versionId, d.versionId = copy.versionId => d.text = copy.text,
         d.leaving = copy.leaving, UNCHANGED <<backup, life>>
  PROVE  BackupsAreOfVersions' /\ LeavingIsBackedUp'
<1>1. tracker \in Tracker /\ copy \in Copy
  BY DEF TypeOK
<1>2. /\ tracker' \in Tracker /\ tracker'.io = tracker.io /\ tracker'.cache = tracker.cache
      /\ tracker'.next \in {tracker.next, Scheduled, DeleteOp}
  BY DEF Kept
<1>3. copy.versionId \in Nat /\ d.versionId \in Nat
  BY <1>1 DEF Copy
<1>6. copy.versionId <= d.versionId /\ (d.versionId = copy.versionId => d.text = copy.text)
  OBVIOUS
<1> USE DEF BackedUp
<1>4. BackupsAreOfVersions'
  <2>1. ASSUME NEW op \in {tracker'.next, tracker'.io}, op \in BackupWrite
        PROVE  op.version <= d.versionId /\ (op.version = d.versionId => op.text = d.text)
    <3>1. op \in {tracker.next, tracker.io} /\ op.version \in Nat
      BY <1>2, <2>1, BackupOps
    <3>2. op.version <= copy.versionId /\ (op.version = copy.versionId => op.text = copy.text)
      BY <2>1, <3>1 DEF BackupsAreOfVersions
    <3> QED
      BY <1>3, <1>6, <3>1, <3>2
  <2>2. tracker'.cache # Nothing => tracker'.cache \in Cached /\ tracker'.cache.version \in Nat
    BY <1>2 DEF Tracker, Cached
  <2>3. tracker'.cache # Nothing => tracker'.cache.version <= copy.versionId
    BY <1>2 DEF BackupsAreOfVersions
  <2>4. tracker'.cache # Nothing /\ tracker'.io = Nothing /\ tracker'.cache.version = d.versionId => BackedUp'
    BY <1>2, <1>6, <1>3, <2>2, <2>3 DEF BackupsAreOfVersions
  <2>5. tracker'.cache # Nothing => tracker'.cache.version <= d.versionId
    BY <1>3, <1>6, <2>2, <2>3
  <2>6. tracker'.cache # Nothing /\ life' = "open" /\ tracker'.io \in BackupWrite => tracker'.cache.version <= tracker'.io.version
    BY <1>2 DEF BackupsAreOfVersions
  <2> QED
    BY <2>1, <2>4, <2>5, <2>6 DEF BackupsAreOfVersions
<1>5. LeavingIsBackedUp'
  <2>1. d.leaving # Nothing => d.leaving \in Nat /\ d.leaving <= copy.versionId /\ d.leaving <= d.versionId
    BY <1>1, <1>3, <1>6 DEF LeavingIsBackedUp, Copy
  <2>2. ASSUME life' = "closing", d.leaving = d.versionId
        PROVE  tracker' = tracker /\ d.leaving = copy.leaving /\ copy.leaving = copy.versionId /\ d.versionId = copy.versionId
               /\ d.text = copy.text
    BY <1>3, <1>6, <2>1, <2>2 DEF Kept
  <2> QED
    BY <2>1, <2>2 DEF LeavingIsBackedUp
<1> QED
  BY <1>4, <1>5

(* The changes of a copy that the tracker can follow: a new text is a new  *)
(* version, and what a failed revert left dirty is saved, reverted or      *)
(* edited before anything else.                                            *)
Followable(c, d) ==
  /\ c.versionId <= d.versionId /\ (d.versionId = c.versionId => d.text = c.text)
  /\ d.leaving = c.leaving
  /\ d.by = "failed revert" => c.by = "failed revert" /\ d.dirty
  /\ c.by = "failed revert" /\ d.by # "failed revert" => ~d.dirty \/ d.versionId # c.versionId

LEMMA ChangeIsFollowed ==
  ASSUME TypeOK, TrackerFollows, BackupsAreOfVersions, LeavingIsBackedUp,
         NEW d \in Copy, copy' = d, tracker' = Track(tracker, copy, d), Followable(copy, d),
         UNCHANGED <<backup, life, reverting>>, reading' \in {reading, Nothing}
  PROVE  /\ tracker' \in Tracker
         /\ TrackerFollows' /\ BackupsAreOfVersions' /\ LeavingIsBackedUp'
<1>1. tracker \in Tracker /\ copy \in Copy
  BY DEF TypeOK
<1>2. Tracks(copy, d, tracker, tracker')
  BY <1>1, TrackEffect
<1>3. copy.versionId \in Nat /\ d.versionId \in Nat /\ copy.dirty \in BOOLEAN /\ d.dirty \in BOOLEAN
  BY <1>1 DEF Copy
<1>4. /\ tracker' \in Tracker /\ tracker'.io = tracker.io /\ tracker'.cache = tracker.cache
      /\ tracker'.next \in {tracker.next, Scheduled, DeleteOp}
  BY <1>2 DEF Tracks
<1>5. copy.versionId <= d.versionId /\ (d.versionId = copy.versionId => d.text = copy.text) /\ d.leaving = copy.leaving
  BY DEF Followable
<1> USE DEF BackedUp
<1>6. TrackerFollows'
  <2>1. life' = "open" => tracker'.next \in {Nothing, Scheduled, DeleteOp}
    BY <1>4 DEF TrackerFollows
  <2>2. life' # "open" => tracker'.next # Scheduled
    BY <1>2 DEF Tracks, TrackerFollows
  <2>3. d.by = "failed revert" => d.dirty /\ reading' = Nothing
    BY DEF TrackerFollows, Followable
  <2>4. ASSUME Followed', d.dirty # copy.dirty \/ (d.dirty /\ d.versionId # copy.versionId)
        PROVE  tracker'.next = IF d.dirty THEN Scheduled ELSE DeleteOp
    BY <1>2, <1>3, <2>4 DEF Followed, Tracks
  <2>5. ASSUME Followed', d.dirty = copy.dirty, d.dirty => d.versionId = copy.versionId
        PROVE  Followed /\ tracker' = tracker /\ (d.dirty => d.text = copy.text)
    BY <1>2, <1>3, <1>5, <2>5 DEF Followed, TrackerFollows, Tracks, Followable
  <2>6. Followed' => (tracker'.next = Scheduled => d.dirty) /\ (tracker'.next = DeleteOp => ~d.dirty)
    BY <1>3, <2>4, <2>5, BackupOps DEF TrackerFollows
  <2>7. ASSUME Followed', tracker'.next = Nothing
        PROVE  /\ tracker'.io = DeleteOp => ~d.dirty
               /\ tracker'.io \in BackupWrite => d.dirty /\ tracker'.io.version = d.versionId
               /\ tracker'.io = Nothing => IF d.dirty THEN BackedUp' ELSE backup' = Nothing
    <3>1. d.dirty = copy.dirty /\ (d.dirty => d.versionId = copy.versionId)
      BY <1>3, <2>4, <2>7, BackupOps
    <3> QED
      BY <2>5, <2>7, <3>1 DEF TrackerFollows
  <2> QED
    BY <2>1, <2>2, <2>3, <2>6, <2>7 DEF TrackerFollows
<1>7. BackupsAreOfVersions' /\ LeavingIsBackedUp'
  <2>1. Kept(tracker, tracker')
    BY <1>2 DEF Tracks, Kept
  <2> QED
    BY <1>5, <2>1, VersionsAreFollowed
<1> QED
  BY <1>4, <1>6, <1>7

LEMMA BackupStays ==
  ASSUME TrackerFollows, BackupsAreOfVersions, LeavingIsBackedUp,
         UNCHANGED <<copy, tracker, backup, life, reverting, reading>>
  PROVE  TrackerFollows' /\ BackupsAreOfVersions' /\ LeavingIsBackedUp'
<1>1. TrackerFollows'
  BY DEF TrackerFollows, Followed, BackedUp
<1>2. BackupsAreOfVersions'
  BY DEF BackupsAreOfVersions, BackedUp
<1>3. LeavingIsBackedUp'
  BY DEF LeavingIsBackedUp, BackedUp
<1> QED
  BY <1>1, <1>2, <1>3

LEMMA TrackedStats ==
  ASSUME TypeOK, StatsAreSeen, NEW d \in Copy, tracker' = Track(tracker, copy, d), UNCHANGED file
  PROVE  /\ tracker'.next \in BackupWrite => Seen(tracker'.next.stat, file')
         /\ tracker'.io \in BackupWrite => Seen(tracker'.io.stat, file')
<1>1. Tracks(copy, d, tracker, tracker')
  BY TrackEffect DEF TypeOK
<1>2. tracker'.io = tracker.io /\ tracker'.next \in {tracker.next, Scheduled, DeleteOp}
  BY <1>1 DEF Tracks
<1>3. tracker'.next \in BackupWrite => tracker'.next = tracker.next
  BY <1>2, BackupOps
<1> QED
  BY <1>2, <1>3 DEF StatsAreSeen, Seen

----------------------------------------------------------------------------
(* The actions *)

LEMMA InitInv == Init => Inv
<1> SUFFICES ASSUME Init PROVE Inv
  OBVIOUS
<1>1. file = [text |-> 0, mtime |-> 0] /\ file \in Stat /\ file.text = 0 /\ file.mtime = 0
  BY Texts DEF Init, Stat
<1>2. IsResolved(copy, 0, file, FALSE)
  BY <1>1, Texts, ResolvedEffect DEF Init
<1>3. Idle \in Tracker /\ Idle.next = Nothing /\ Idle.io = Nothing /\ Idle.cache = Nothing
  BY DEF Idle, Tracker
<1>4. NoSaves \in Saving /\ NoSaves.ops = {} /\ NoSaves.running = Nothing /\ NoSaves.queued = Nothing
  BY DEF NoSaves, Saving
<1>5. /\ event = FALSE /\ saving = NoSaves /\ reading = Nothing /\ reverting = Nothing /\ reloads = 0
      /\ tracker = Idle /\ backup = Nothing /\ life = "open" /\ edits = 0 /\ externals = 0 /\ faults = 0
  BY DEF Init
<1>6. TypeOK
  <2>1. copy \in Copy
    BY <1>2 DEF IsResolved
  <2>2. /\ reloads \in 0..2 /\ edits \in 0..MaxEdits /\ externals \in 0..MaxExternal
        /\ faults \in 0..MaxFaults
    BY <1>5
  <2>3. tracker \in Tracker /\ saving \in Saving
    BY <1>3, <1>4, <1>5
  <2>4. /\ reading \in Reading \cup {Nothing} /\ reverting \in Reverting \cup {Nothing}
        /\ backup \in Backup \cup {Nothing} /\ event \in BOOLEAN /\ life \in {"open", "closing", "closed"}
    BY <1>5
  <2> QED
    BY <1>1, <2>1, <2>2, <2>3, <2>4, Zenon DEF TypeOK
<1>7. ErrorIsDirty /\ ClosedIsIdle /\ SavesAreQueued
  <2>1. ErrorIsDirty
    BY <1>2 DEF IsResolved, ErrorIsDirty
  <2> QED
    BY <1>4, <1>5, <2>1 DEF ClosedIsIdle, SavesAreQueued
<1>8. StatsAreSeen /\ StatsAreKnown
  <2>1. copy.stat = file /\ copy.stat.text \in copy.known
    BY <1>2 DEF IsResolved
  <2> QED
    BY <1>1, <1>3, <1>4, <1>5, <2>1, BackupOps DEF StatsAreSeen, StatsAreKnown, Seen
<1>9. ReadingIsStale /\ CleanIsUpToDate
  <2>1. copy.stat = file /\ copy.text = copy.stat.text
    BY <1>1, <1>2 DEF IsResolved
  <2> QED
    BY <1>4, <1>5, <2>1 DEF ReadingIsStale, CleanIsUpToDate
<1>10. TrackerFollows /\ BackupsAreOfVersions /\ LeavingIsBackedUp
  <2>1. copy.dirty = FALSE /\ copy.by = "load" /\ copy.leaving = Nothing
    BY <1>2 DEF IsResolved
  <2> QED
    BY <1>3, <1>5, <2>1, BackupOps DEF TrackerFollows, BackupsAreOfVersions, LeavingIsBackedUp, Followed, BackedUp
<1> QED
  BY <1>6, <1>7, <1>8, <1>9, <1>10 DEF Inv

(* The user types or undoes.                                               *)
LEMMA ContentStep ==
  ASSUME Inv, NEW text \in Text, NEW undo \in Seq(Text), Running,
         ChangeCopy(OnModelContentChanged(copy, text, undo)),
         UNCHANGED <<file, event, externals, saving, reading, reverting, reloads, backup, life, faults>>,
         edits' \in 0..MaxEdits
  PROVE  Inv'
<1> DEFINE d == OnModelContentChanged(copy, text, undo)
<1>1. /\ d \in Copy /\ SameStat(copy, d) /\ d.leaving = copy.leaving
      /\ d.text = text /\ d.versionId = copy.versionId + 1
      /\ \/ ~d.dirty /\ ~d.conflict /\ ~d.error /\ d.by = "undo"
         \/ d.dirty /\ d.by = "edit"
  BY ContentChangedEffect DEF Inv, TypeOK
<1>2. copy' = d /\ tracker' = Track(tracker, copy, d)
  BY DEF ChangeCopy
<1> HIDE DEF d
<1>3. copy.versionId \in Nat /\ d.versionId > copy.versionId /\ d.versionId \in Nat
  BY <1>1 DEF Inv, TypeOK, Copy
<1>4. Followable(copy, d)
  <2>1. copy.versionId <= d.versionId /\ d.versionId # copy.versionId
    BY <1>3
  <2>2. d.by # "failed revert"
    BY <1>1
  <2> QED
    BY <1>1, <2>1, <2>2, Zenon DEF Followable
<1>5. tracker' \in Tracker /\ TrackerFollows' /\ BackupsAreOfVersions' /\ LeavingIsBackedUp'
  BY <1>1, <1>2, <1>4, ChangeIsFollowed DEF Inv
<1>6. TypeOK'
  BY <1>1, <1>2, <1>5 DEF Inv, TypeOK
<1>7. ErrorIsDirty' /\ ClosedIsIdle'
  BY <1>1, <1>2 DEF ErrorIsDirty, ClosedIsIdle, Running
<1>8. SavesAreQueued'
  BY <1>1, <1>2, <1>3, SavesStayQueued DEF Inv
<1>9. StatsAreSeen'
  BY <1>1, <1>2, TrackedStats DEF Inv, StatsAreSeen, Seen, SameStat
<1>10. StatsAreKnown'
  BY <1>1, <1>2 DEF Inv, StatsAreKnown, SameStat
<1>11. ReadingIsStale'
  <2>1. reading # Nothing => reading.version \in Nat
    BY DEF Inv, TypeOK, Reading
  <2> QED
    BY <1>2, <1>3, <2>1 DEF Inv, ReadingIsStale
<1>12. CleanIsUpToDate'
  BY <1>1, <1>2 DEF CleanIsUpToDate
<1> QED
  BY <1>5, <1>6, <1>7, <1>8, <1>9, <1>10, <1>11, <1>12 DEF Inv

LEMMA EditStep == Inv /\ Edit => Inv'
<1> SUFFICES ASSUME Inv, Edit PROVE Inv'
  OBVIOUS
<1>1. edits + 1 \in Text /\ Append(copy.undo, copy.text) \in Seq(Text)
  BY Texts DEF Inv, TypeOK, Copy, Edit
<1>2. edits' \in 0..MaxEdits
  BY DEF Inv, TypeOK, Edit
<1> QED
  BY <1>1, <1>2, ContentStep DEF Edit, fileVars

LEMMA UndoStep == Inv /\ Undo => Inv'
<1> SUFFICES ASSUME Inv, Undo PROVE Inv'
  OBVIOUS
<1>1. Last(copy.undo) \in Text /\ Front(copy.undo) \in Seq(Text)
  BY Ends DEF Inv, TypeOK, Copy, Undo
<1>2. edits' \in 0..MaxEdits
  BY DEF Inv, TypeOK, Undo
<1> QED
  BY <1>1, <1>2, ContentStep DEF Undo, fileVars

(* A save begins, or is queued behind the one it cancels.                  *)
LEMMA SaveStarts ==
  ASSUME Inv, NEW auto \in BOOLEAN, NEW overwrite \in BOOLEAN, Save(auto, overwrite)
  PROVE  Inv'
<1>1. /\ copy' = copy /\ tracker' = tracker /\ Running
      /\ UNCHANGED <<file, event, externals, reading, reverting, reloads, backup, life, edits, faults>>
  BY DEF Save, fileVars, backupVars
<1>2. /\ copy.dirty
      /\ \/ saving.ops = {} /\ saving' = OneSave(Begun(copy, overwrite), Nothing)
         \/ \E op \in saving.ops :
              /\ op.phase # "participants" /\ op.version # copy.versionId
              /\ \/ saving' = OneSave(op, overwrite)
                 \/ saving' = OneSave([op EXCEPT !.cancelled = TRUE], overwrite)
  BY DoSaveEffect DEF Save, Inv
<1>3. copy \in Copy /\ copy.versionId \in Nat
  BY DEF Inv, TypeOK, Copy
<1>4. ASSUME saving.ops = {}, saving' = OneSave(Begun(copy, overwrite), Nothing)
      PROVE  /\ saving' \in Saving /\ SavesAreQueued'
             /\ \A op \in saving'.ops : op.base = copy.stat /\ op.phase = "participants"
  <2>1. saving' \in Saving /\ saving'.ops = {Begun(copy, overwrite)} /\ SavesAreQueued'
    BY <1>1, <1>3, <1>4, BegunEffect
  <2>2. Begun(copy, overwrite).base = copy.stat /\ Begun(copy, overwrite).phase = "participants"
    BY DEF Begun
  <2> QED
    BY <2>1, <2>2
<1>5. ASSUME NEW op \in saving.ops, op.phase # "participants", op.version # copy.versionId,
             NEW o, o = op \/ o = [op EXCEPT !.cancelled = TRUE], saving' = OneSave(o, overwrite)
      PROVE  /\ saving' \in Saving /\ SavesAreQueued'
             /\ saving'.ops = {o} /\ o.base = op.base /\ o.phase = op.phase
  <2>1. op \in Op /\ op.task <= op.version /\ op.version <= copy.versionId
    BY SavingIs DEF Inv, SavesAreQueued
  <2>2. /\ o \in Op /\ o.task = op.task /\ o.version = op.version /\ o.phase = op.phase /\ o.base = op.base
        /\ op.version \in Nat
    BY <1>5, <2>1 DEF Op
  <2>3. op.version < copy.versionId
    BY <1>3, <1>5, <2>1, <2>2
  <2>4. saving' \in Saving /\ saving'.ops = {o} /\ SavesAreQueued'
    BY <1>1, <1>5, <2>1, <2>2, <2>3, OneSaveEffect
  <2> QED
    BY <2>2, <2>4
<1>6. saving' \in Saving /\ SavesAreQueued'
  BY <1>2, <1>4, <1>5
<1>7. ASSUME NEW o \in saving'.ops
      PROVE  \/ o.base = copy.stat /\ o.phase = "participants"
             \/ \E op \in saving.ops : o.base = op.base /\ o.phase = op.phase
  <2>1. CASE saving.ops = {} /\ saving' = OneSave(Begun(copy, overwrite), Nothing)
    BY <1>4, <2>1
  <2>2. ASSUME NEW op \in saving.ops, op.phase # "participants", op.version # copy.versionId,
               NEW p, p = op \/ p = [op EXCEPT !.cancelled = TRUE], saving' = OneSave(p, overwrite)
        PROVE  o.base = op.base /\ o.phase = op.phase
    BY <1>5, <2>2
  <2> QED
    BY <1>2, <2>1, <2>2
<1>8. TypeOK'
  BY <1>1, <1>6 DEF Inv, TypeOK
<1>9. ErrorIsDirty' /\ ClosedIsIdle'
  BY <1>1 DEF Inv, ErrorIsDirty, ClosedIsIdle, Running
<1>10. StatsAreSeen'
  <2>1. \A o \in saving'.ops : Seen(o.base, file)
    BY <1>7 DEF Inv, StatsAreSeen
  <2> QED
    BY <1>1, <2>1 DEF Inv, StatsAreSeen, Seen
<1>11. StatsAreKnown'
  BY <1>1, <1>7 DEF Inv, StatsAreKnown
<1>12. ReadingIsStale' /\ CleanIsUpToDate'
  BY <1>1, <1>2 DEF Inv, ReadingIsStale, CleanIsUpToDate
<1>13. TrackerFollows' /\ BackupsAreOfVersions' /\ LeavingIsBackedUp'
  BY <1>1, BackupStays DEF Inv
<1> QED
  BY <1>6, <1>8, <1>9, <1>10, <1>11, <1>12, <1>13 DEF Inv

(* The copy of a save whose participants are done.                         *)
LEMMA ParticipantsDoneStep ==
  ASSUME Inv, NEW op \in saving.ops, ParticipantsDone(op)
  PROVE  Inv'
<1> DEFINE d == [copy EXCEPT !.error = FALSE]
           o == [op EXCEPT !.phase = "snapshot", !.version = copy.versionId,
                           !.text = copy.text, !.base = copy.stat]
<1>1. /\ copy' = d /\ tracker' = tracker /\ op.phase = "participants"
      /\ saving' = [saving EXCEPT !.running = copy.versionId, !.ops = (@ \ {op}) \cup {o}]
      /\ UNCHANGED <<file, event, externals, reading, reverting, reloads, backup, life, edits, faults>>
  BY DEF ParticipantsDone, fileVars, backupVars
<1>2. copy \in Copy /\ copy.versionId \in Nat /\ copy.text \in Text /\ copy.stat \in Stat
  BY DEF Inv, TypeOK, Copy
<1>3. op \in Op /\ saving.ops = {op} /\ saving.queued = Nothing /\ saving = OneSave(op, Nothing)
      /\ op.task \in Nat /\ op.task <= op.version /\ op.version <= copy.versionId /\ op.version \in Nat
  <2>1. op \in Op /\ saving.ops = {op} /\ saving = OneSave(op, saving.queued)
    BY SavingIs DEF Inv
  <2>2. saving.queued = Nothing /\ op.task <= op.version /\ op.version <= copy.versionId
    BY <1>1 DEF Inv, SavesAreQueued
  <2> QED
    BY <2>1, <2>2 DEF Op
<1>4. d \in Copy /\ SameContent(copy, d) /\ SameStat(copy, d)
  BY <1>2 DEF Copy, SameContent, SameStat
<1>5. d.dirty = copy.dirty /\ d.conflict = copy.conflict /\ ~d.error /\ d.by = copy.by /\ d.leaving = copy.leaving
  BY <1>2 DEF Copy
<1>6. o \in Op
  BY <1>2, <1>3 DEF Op
<1>7. o.task = op.task /\ o.version = copy.versionId /\ o.text = copy.text /\ o.base = copy.stat
      /\ o.phase = "snapshot"
  BY <1>3 DEF Op
<1> HIDE DEF d, o
<1>8. saving' = OneSave(o, Nothing)
  <2>1. (saving.ops \ {op}) \cup {o} = {o}
    BY <1>3
  <2>2. saving' = [saving EXCEPT !.running = copy.versionId, !.ops = {o}]
    BY <1>1, <2>1
  <2>3. saving = [ops |-> {op}, running |-> op.version, queued |-> Nothing]
    BY <1>3 DEF OneSave
  <2>5. saving' = [ops |-> {o}, running |-> copy.versionId, queued |-> Nothing]
    BY <2>2, <2>3, ExceptRunning
  <2> QED
    BY <1>7, <2>5 DEF OneSave
<1>9. saving' \in Saving /\ saving'.ops = {o} /\ SavesAreQueued'
  <2>1. o.task <= o.version /\ o.version <= copy'.versionId /\ o.text = copy'.text /\ o.phase # "participants"
    BY <1>1, <1>2, <1>3, <1>4, <1>7 DEF SameContent
  <2> QED
    BY <1>6, <1>8, <2>1, OneSaveEffect
<1>10. TypeOK'
  BY <1>1, <1>4, <1>9 DEF Inv, TypeOK
<1>11. ErrorIsDirty' /\ ClosedIsIdle'
  <2>1. ErrorIsDirty'
    BY <1>1, <1>5 DEF Inv, ErrorIsDirty
  <2>2. life # "closed"
    BY <1>3 DEF Inv, ClosedIsIdle, NoSaves
  <2> QED
    BY <1>1, <2>1, <2>2 DEF ClosedIsIdle
<1>12. StatsAreSeen' /\ StatsAreKnown'
  <2>1. d.stat = copy.stat /\ d.known = copy.known
    BY <1>4 DEF SameStat
  <2>2. StatsAreSeen'
    BY <1>1, <1>7, <1>9, <2>1 DEF Inv, StatsAreSeen
  <2>3. StatsAreKnown'
    BY <1>1, <1>7, <1>9, <2>1 DEF Inv, StatsAreKnown
  <2> QED
    BY <2>2, <2>3
<1>13. ReadingIsStale'
  BY <1>1, <1>3, <1>4, <1>5 DEF Inv, ReadingIsStale, SameContent
<1>14. CleanIsUpToDate'
  BY <1>1, <1>3, <1>5 DEF Inv, CleanIsUpToDate
<1>15. TrackerFollows' /\ BackupsAreOfVersions' /\ LeavingIsBackedUp'
  <2>1. Tracks(copy, d, tracker, Track(tracker, copy, d))
    BY <1>2, <1>4, TrackEffect DEF Inv, TypeOK
  <2>2. tracker' = Track(tracker, copy, d)
    BY <1>1, <1>4, <1>5, <2>1 DEF Tracks, SameContent
  <2>3. copy.versionId <= d.versionId /\ d.text = copy.text
    BY <1>2, <1>4 DEF SameContent
  <2>4. d.by = "failed revert" => d.dirty
    BY <1>5 DEF Inv, TrackerFollows
  <2>5. Followable(copy, d)
    BY <1>5, <2>3, <2>4, Zenon DEF Followable
  <2> QED
    BY <1>1, <1>4, <2>2, <2>5, ChangeIsFollowed DEF Inv
<1> QED
  BY <1>9, <1>10, <1>11, <1>12, <1>13, <1>14, <1>15 DEF Inv

(* A save ends: the copy becomes d, and the queued save begins.            *)
LEMMA SaveEnds ==
  ASSUME Inv, NEW op \in saving.ops, NEW d \in Copy, copy' = d, tracker' = Track(tracker, copy, d),
         EndSave(op, d),
         UNCHANGED <<file, event, externals, reading, reverting, reloads, backup, life, edits>>,
         faults' \in 0..MaxFaults,
         SameContent(copy, d), Followable(copy, d), d.known = copy.known,
         d.stat = copy.stat \/ (d.stat = file /\ file.text \in copy.known),
         d.conflict \/ d.error => d.dirty,
         ~d.dirty /\ d.by \in {"load", "save"} => d.stat = file /\ d.text = file.text
  PROVE  Inv'
<1>1. copy \in Copy /\ file \in Stat /\ d.versionId = copy.versionId /\ d.text = copy.text
  BY DEF Inv, TypeOK, SameContent
<1>2. \/ saving' = NoSaves
      \/ d.dirty /\ \E overwrite \in BOOLEAN : saving' = OneSave(Begun(d, overwrite), Nothing)
  BY <1>1, EndSaveEffect DEF Inv
<1>3. ASSUME d.dirty, NEW overwrite \in BOOLEAN, saving' = OneSave(Begun(d, overwrite), Nothing)
      PROVE  /\ saving' \in Saving /\ SavesAreQueued'
             /\ \A o \in saving'.ops : o.base = d.stat /\ o.phase = "participants"
  <2>1. saving' \in Saving /\ saving'.ops = {Begun(d, overwrite)} /\ SavesAreQueued'
    BY <1>3, BegunEffect
  <2>2. Begun(d, overwrite).base = d.stat /\ Begun(d, overwrite).phase = "participants"
    BY DEF Begun
  <2> QED
    BY <2>1, <2>2
<1>4. saving' \in Saving /\ SavesAreQueued' /\ \A o \in saving'.ops : o.base = d.stat /\ o.phase = "participants"
  BY <1>2, <1>3, NoSavesEffect
<1>5. ~d.dirty => saving'.ops = {}
  BY <1>2, NoSavesEffect
<1>6. tracker' \in Tracker /\ TrackerFollows' /\ BackupsAreOfVersions' /\ LeavingIsBackedUp'
  BY ChangeIsFollowed DEF Inv
<1>7. TypeOK'
  BY <1>4, <1>6 DEF Inv, TypeOK
<1>8. ErrorIsDirty'
  BY DEF ErrorIsDirty
<1>9. ClosedIsIdle'
  <2>1. life # "closed"
    BY DEF Inv, ClosedIsIdle, NoSaves
  <2> QED
    BY <2>1 DEF ClosedIsIdle
<1>10. Seen(d.stat, file) /\ d.stat.text \in d.known
  <2>1. Seen(copy.stat, file) /\ copy.stat.text \in copy.known
    BY DEF Inv, StatsAreSeen, StatsAreKnown
  <2>2. Seen(file, file)
    BY <1>1 DEF Seen, Stat
  <2> QED
    BY <2>1, <2>2
<1>11. StatsAreSeen'
  BY <1>4, <1>10, TrackedStats DEF Inv, StatsAreSeen
<1>12. StatsAreKnown'
  BY <1>4, <1>10 DEF StatsAreKnown
<1>13. ReadingIsStale'
  BY <1>1 DEF Inv, ReadingIsStale
<1>14. CleanIsUpToDate'
  BY <1>5 DEF CleanIsUpToDate
<1> QED
  BY <1>4, <1>6, <1>7, <1>8, <1>9, <1>11, <1>12, <1>13, <1>14 DEF Inv

(* A save that fails, or finds that the file has changed.                  *)
LEMMA SaveFails ==
  ASSUME Inv, NEW op \in saving.ops, NEW conflict \in BOOLEAN, HandleSaveError(op, conflict),
         UNCHANGED <<file, event, externals, reading, reverting, reloads, backup, life, edits>>,
         faults' \in 0..MaxFaults
  PROVE  Inv'
<1> DEFINE e == SetDirty(copy, TRUE, "error")
           d == [e EXCEPT !.error = TRUE, !.conflict = @ \/ conflict]
<1>1. copy \in Copy
  BY DEF Inv, TypeOK
<1>2. copy' = d /\ tracker' = Track(tracker, copy, d) /\ EndSave(op, d)
  BY DEF HandleSaveError, ChangeCopy
<1>3. /\ e \in Copy /\ SameContent(copy, e) /\ SameStat(copy, e) /\ e.leaving = copy.leaving
      /\ e.dirty /\ e.by = (IF copy.dirty THEN copy.by ELSE "error")
  BY <1>1, DirtyEffect DEF Cause
<1> HIDE DEF e
<1>4. d \in Copy
  <2>1. (e.conflict \/ conflict) \in BOOLEAN
    OBVIOUS
  <2> QED
    BY <1>3, <2>1 DEF Copy
<1>5. d.text = e.text /\ d.undo = e.undo /\ d.versionId = e.versionId /\ d.stat = e.stat /\ d.known = e.known
      /\ d.leaving = e.leaving /\ d.dirty = e.dirty /\ d.by = e.by
  BY <1>3 DEF Copy
<1> HIDE DEF d
<1>6. d.dirty
  BY <1>3, <1>5
<1>7. SameContent(copy, d) /\ d.known = copy.known /\ d.stat = copy.stat
  BY <1>3, <1>5 DEF SameContent, SameStat
<1>8. Followable(copy, d)
  <2>1. copy.versionId <= d.versionId /\ d.text = copy.text
    <3>1. copy.versionId \in Nat
      BY <1>1 DEF Copy
    <3> QED
      BY <1>7, <3>1 DEF SameContent
  <2>2. d.leaving = copy.leaving
    BY <1>3, <1>5
  <2>3. d.by = "failed revert" <=> copy.by = "failed revert"
    <3>1. copy.by = "failed revert" => copy.dirty
      BY DEF Inv, TrackerFollows
    <3> QED
      BY <1>3, <1>5, <3>1
  <2> QED
    BY <1>6, <2>1, <2>2, <2>3, Zenon DEF Followable
<1> QED
  BY <1>2, <1>4, <1>6, <1>7, <1>8, SaveEnds

LEMMA WriteFileStep ==
  ASSUME Inv, NEW op \in saving.ops, WriteFile(op)
  PROVE  Inv'
<1>1. copy \in Copy /\ file \in Stat /\ faults \in 0..MaxFaults
  BY DEF Inv, TypeOK
<1>2. /\ UNCHANGED <<externals, reading, reverting, reloads, backup, life, edits>>
      /\ op.phase = "snapshot"
  BY DEF WriteFile
<1>3. CASE /\ op.cancelled /\ EndSave(op, copy)
           /\ UNCHANGED <<file, event, copy, tracker, faults>>
  <2>1. tracker' = Track(tracker, copy, copy)
    <3>1. Tracks(copy, copy, tracker, Track(tracker, copy, copy))
      BY <1>1, TrackEffect DEF Inv, TypeOK
    <3> QED
      BY <1>3, <3>1 DEF Tracks
  <2>2. Followable(copy, copy)
    <3>1. copy.versionId <= copy.versionId
      BY <1>1 DEF Copy
    <3>2. copy.by = "failed revert" => copy.dirty
      BY DEF Inv, TrackerFollows
    <3> QED
      BY <3>1, <3>2, Zenon DEF Followable
  <2>3. copy.conflict \/ copy.error => copy.dirty
    BY DEF Inv, ErrorIsDirty
  <2>4. ~(~copy.dirty /\ copy.by \in {"load", "save"})
    BY DEF Inv, CleanIsUpToDate
  <2> QED
    BY <1>1, <1>2, <1>3, <2>1, <2>2, <2>3, <2>4, SaveEnds DEF SameContent
<1>4. CASE HandleSaveError(op, TRUE) /\ UNCHANGED <<file, event, faults>>
  BY <1>1, <1>2, <1>4, SaveFails
<1>5. CASE faults < MaxFaults /\ faults' = faults + 1 /\ HandleSaveError(op, FALSE) /\ UNCHANGED <<file, event>>
  <2>1. faults' \in 0..MaxFaults
    BY <1>1, <1>5
  <2> QED
    BY <1>2, <1>5, <2>1, SaveFails
<1>6. CASE /\ file' = [text |-> op.text, mtime |-> file.mtime + 1]
           /\ event' = TRUE
           /\ copy' = [copy EXCEPT !.known = @ \cup {op.text}]
           /\ Advance(op, [op EXCEPT !.phase = "written"])
           /\ UNCHANGED <<tracker, faults>>
  <2> DEFINE o == [op EXCEPT !.phase = "written"]
             d == [copy EXCEPT !.known = @ \cup {op.text}]
  <2>1. /\ op \in Op /\ saving.ops = {op} /\ saving = OneSave(op, saving.queued)
        /\ saving.queued \in BOOLEAN \cup {Nothing}
        /\ op.task <= op.version /\ op.version <= copy.versionId
        /\ op.version = copy.versionId => op.text = copy.text
        /\ saving.queued # Nothing => op.version < copy.versionId
    BY <1>2, SavingIs DEF Inv, SavesAreQueued, TypeOK, Saving
  <2>2. o \in Op /\ o.task = op.task /\ o.version = op.version /\ o.text = op.text /\ o.base = op.base
        /\ o.phase = "written" /\ op.text \in Text
    BY <2>1 DEF Op
  <2>3. d \in Copy /\ SameContent(copy, d) /\ SameFlags(copy, d) /\ d.stat = copy.stat
        /\ d.known = copy.known \cup {op.text}
    BY <1>1, <2>2 DEF Copy, SameContent, SameFlags
  <2>4. saving' = [saving EXCEPT !.ops = (@ \ {op}) \cup {o}]
    BY <1>6 DEF Advance
  <2> HIDE DEF o, d
  <2>5. saving' = OneSave(o, saving.queued)
    <3>1. (saving.ops \ {op}) \cup {o} = {o}
      BY <2>1
    <3>2. saving' = [saving EXCEPT !.ops = {o}]
      BY <2>4, <3>1
    <3>3. saving = [ops |-> {op}, running |-> op.version, queued |-> saving.queued]
      BY <2>1 DEF OneSave
    <3>4. saving' = [ops |-> {o}, running |-> op.version, queued |-> saving.queued]
      BY <3>2, <3>3
    <3> QED
      BY <2>2, <3>4 DEF OneSave
  <2>6. copy' = d
    BY <1>6 DEF d
  <2>7. saving' \in Saving /\ saving'.ops = {o} /\ SavesAreQueued'
    <3>1. d.versionId = copy.versionId /\ d.text = copy.text
      BY <2>3 DEF SameContent
    <3> QED
      BY <2>1, <2>2, <2>5, <2>6, <3>1, OneSaveEffect
  <2>8. file' \in Stat /\ file'.text = op.text /\ file'.mtime = file.mtime + 1 /\ file.mtime \in Nat
    BY <1>1, <1>6, <2>2 DEF Stat
  <2>9. ASSUME NEW s \in Stat, Seen(s, file)
        PROVE  Seen(s, file') /\ s # file'
    BY <2>8, <2>9 DEF Seen, Stat
  <2>10. TypeOK'
    BY <1>2, <1>6, <2>3, <2>6, <2>7, <2>8 DEF Inv, TypeOK
  <2>11. ErrorIsDirty' /\ CleanIsUpToDate'
    BY <2>3, <2>6 DEF Inv, ErrorIsDirty, CleanIsUpToDate, SameFlags
  <2>12. ClosedIsIdle'
    <3>1. life # "closed"
      BY DEF Inv, ClosedIsIdle, NoSaves
    <3> QED
      BY <1>2, <3>1 DEF ClosedIsIdle
  <2>13. StatsAreSeen'
    <3>1. d.stat = copy.stat /\ copy.stat \in Stat /\ o.base \in Stat
      BY <1>1, <2>2, <2>3 DEF Copy, Op
    <3>2. reading # Nothing => reading.etag \in Stat
      BY DEF Inv, TypeOK, Reading
    <3>3. backup # Nothing => backup.stat \in Stat
      BY DEF Inv, TypeOK, Backup
    <3>4. Seen(copy.stat, file) /\ Seen(o.base, file)
      BY <2>2 DEF Inv, StatsAreSeen
    <3> QED
      BY <1>2, <1>6, <2>6, <2>7, <2>9, <3>1, <3>2, <3>3, <3>4, BackupOps DEF Inv, StatsAreSeen
  <2>14. StatsAreKnown'
    BY <2>2, <2>3, <2>6, <2>7, <2>8 DEF Inv, StatsAreKnown
  <2>15. ReadingIsStale'
    BY <1>2, <2>3, <2>6 DEF Inv, ReadingIsStale, SameContent, SameFlags
  <2>16. TrackerFollows' /\ BackupsAreOfVersions' /\ LeavingIsBackedUp'
    <3>1. Tracks(copy, d, tracker, Track(tracker, copy, d))
      BY <1>1, <2>3, TrackEffect DEF Inv, TypeOK
    <3>2. tracker' = Track(tracker, copy, d)
      BY <1>6, <2>3, <3>1 DEF Tracks, SameContent, SameFlags
    <3>3. copy.versionId <= d.versionId /\ d.text = copy.text
      BY <1>1, <2>3 DEF SameContent, Copy
    <3>4. copy.by = "failed revert" => copy.dirty
      BY DEF Inv, TrackerFollows
    <3>5. Followable(copy, d)
      BY <2>3, <3>3, <3>4, Zenon DEF Followable, SameFlags
    <3> QED
      BY <1>2, <2>3, <2>6, <3>2, <3>5, ChangeIsFollowed DEF Inv
  <2> QED
    BY <2>7, <2>10, <2>11, <2>12, <2>13, <2>14, <2>15, <2>16 DEF Inv
<1> QED
  BY <1>3, <1>4, <1>5, <1>6 DEF WriteFile

LEMMA HandleSaveSuccessStep ==
  ASSUME Inv, NEW op \in saving.ops, HandleSaveSuccess(op)
  PROVE  Inv'
<1> DEFINE c == UpdateLastResolvedFileStat(copy, file)
           by == IF file.text = op.text THEN "save" ELSE "late write"
           e == SetDirty(c, FALSE, by)
           d == IF op.version = copy.versionId THEN e ELSE c
<1>1. copy \in Copy /\ file \in Stat /\ faults \in 0..MaxFaults
  BY DEF Inv, TypeOK
<1>2. /\ op.phase = "written" /\ copy' = d /\ tracker' = Track(tracker, copy, d) /\ EndSave(op, d)
      /\ UNCHANGED <<file, event, externals, reading, reverting, reloads, backup, life, edits, faults>>
  BY DEF HandleSaveSuccess, ChangeCopy, fileVars
<1>3. c \in Copy /\ SameContent(copy, c) /\ SameFlags(copy, c) /\ c.stat = file /\ c.known = copy.known
  <2>1. copy.stat.mtime <= file.mtime
    BY DEF Inv, StatsAreSeen, Seen
  <2> QED
    BY <1>1, <2>1, UpdateStatEffect
<1> HIDE DEF c
<1>4. /\ e \in Copy /\ SameContent(c, e) /\ SameStat(c, e) /\ e.leaving = c.leaving
      /\ ~e.dirty /\ ~e.conflict /\ ~e.error /\ e.by = by
  <2>1. by \in Cause
    BY DEF Cause
  <2> HIDE DEF by
  <2> QED
    BY <1>3, <2>1, CleanEffect
<1>5. file.text \in copy.known
  BY <1>2 DEF Inv, StatsAreKnown
<1>6. copy.versionId \in Nat
  BY <1>1 DEF Copy
<1>7. CASE op.version = copy.versionId
  <2> HIDE DEF e
  <2>1. d = e
    BY <1>7
  <2> HIDE DEF d
  <2>2. d \in Copy /\ SameContent(copy, d) /\ d.known = copy.known /\ d.stat = file
    BY <1>3, <1>4, <2>1 DEF SameContent, SameStat
  <2>3. copy.versionId <= d.versionId /\ d.text = copy.text
    BY <1>6, <2>2 DEF SameContent
  <2>4. d.leaving = copy.leaving /\ d.by # "failed revert"
    BY <1>3, <1>4, <2>1 DEF SameFlags
  <2>5. ~d.dirty
    BY <1>4, <2>1
  <2>6. Followable(copy, d)
    BY <2>3, <2>4, <2>5, Zenon DEF Followable
  <2>7. d.by \in {"load", "save"} => d.text = file.text
    <3>1. op.text = copy.text
      BY <1>2, <1>7 DEF Inv, SavesAreQueued
    <3> QED
      BY <1>4, <2>1, <2>3, <3>1
  <2>8. ~(d.conflict \/ d.error)
    BY <1>4, <2>1
  <2> QED
    BY <1>1, <1>2, <1>5, <2>2, <2>5, <2>6, <2>7, <2>8, SaveEnds
<1>8. CASE op.version # copy.versionId
  <2> HIDE DEF e
  <2>1. d = c
    BY <1>8
  <2> HIDE DEF d
  <2>2. d \in Copy /\ SameContent(copy, d) /\ d.known = copy.known /\ d.stat = file /\ SameFlags(copy, d)
    BY <1>3, <2>1
  <2>3. copy.versionId <= d.versionId /\ d.text = copy.text
    BY <1>6, <2>2 DEF SameContent
  <2>4. copy.by = "failed revert" => copy.dirty
    BY DEF Inv, TrackerFollows
  <2>5. Followable(copy, d)
    BY <2>2, <2>3, <2>4, Zenon DEF Followable, SameFlags
  <2>6. d.conflict \/ d.error => d.dirty
    BY <2>2 DEF Inv, ErrorIsDirty, SameFlags
  <2>7. ~(~d.dirty /\ d.by \in {"load", "save"})
    BY <2>2 DEF Inv, CleanIsUpToDate, SameFlags
  <2> QED
    BY <1>1, <1>2, <1>5, <2>2, <2>5, <2>6, <2>7, SaveEnds
<1> QED
  BY <1>7, <1>8

LEMMA SeenStays ==
  ASSUME file \in Stat, file' \in Stat, file'.mtime = file.mtime + 1, NEW s \in Stat, Seen(s, file)
  PROVE  Seen(s, file') /\ s # file'
<1>1. file.mtime \in Nat /\ s.mtime \in Nat /\ s.mtime <= file.mtime
  BY DEF Stat, Seen
<1>2. s.mtime <= file'.mtime /\ s.mtime # file'.mtime
  BY <1>1
<1> QED
  BY <1>2 DEF Seen

LEMMA ExternalWriteStep == Inv /\ ExternalWrite => Inv'
<1> SUFFICES ASSUME Inv, ExternalWrite PROVE Inv'
  OBVIOUS
<1> DEFINE d == IF \E op \in saving.ops : op.phase = "written"
                THEN [copy EXCEPT !.known = @ \cup {file'.text}] ELSE copy
<1>1. /\ copy' = d /\ event' = TRUE
      /\ UNCHANGED <<saving, reading, reverting, reloads, tracker, backup, life, edits, faults>>
  BY DEF ExternalWrite, backupVars
<1>2. copy \in Copy /\ file \in Stat
  BY DEF Inv, TypeOK
<1>3. file' \in Stat /\ file'.mtime = file.mtime + 1 /\ file'.text \in Text
  <2>1. MaxEdits + externals + 1 \in Text
    BY Texts DEF Inv, TypeOK, ExternalWrite
  <2>2. file.mtime + 1 \in Nat
    BY <1>2 DEF Stat
  <2> QED
    BY <2>1, <2>2 DEF ExternalWrite, Stat
<1>4. externals' \in 0..MaxExternal
  BY DEF ExternalWrite, Inv, TypeOK
<1>5. /\ d \in Copy /\ SameContent(copy, d) /\ SameFlags(copy, d) /\ d.stat = copy.stat
      /\ copy.known \subseteq d.known
      /\ (\E op \in saving.ops : op.phase = "written") => file'.text \in d.known
  <2>1. CASE \E op \in saving.ops : op.phase = "written"
    <3> DEFINE e == [copy EXCEPT !.known = @ \cup {file'.text}]
    <3>1. e \in Copy /\ SameContent(copy, e) /\ SameFlags(copy, e) /\ e.stat = copy.stat
          /\ e.known = copy.known \cup {file'.text}
      BY <1>2, <1>3 DEF Copy, SameContent, SameFlags
    <3>2. d = e
      BY <2>1
    <3> HIDE DEF d, e
    <3> QED
      BY <3>1, <3>2
  <2>2. CASE ~ \E op \in saving.ops : op.phase = "written"
    BY <1>2, <2>2 DEF SameContent, SameFlags
  <2> QED
    BY <2>1, <2>2
<1> HIDE DEF d
<1>6. TypeOK'
  BY <1>1, <1>3, <1>4, <1>5 DEF Inv, TypeOK
<1>7. ErrorIsDirty'
  BY <1>1, <1>5 DEF Inv, ErrorIsDirty, SameFlags
<1>8. ClosedIsIdle'
  BY <1>1 DEF Inv, ClosedIsIdle
<1>9. SavesAreQueued'
  <2>1. copy.versionId <= d.versionId /\ d.text = copy.text
    BY <1>2, <1>5 DEF SameContent, Copy
  <2> QED
    BY <1>1, <1>5, <2>1, SavesStayQueued DEF Inv
<1>10. StatsAreSeen'
  <2>1. copy.stat \in Stat /\ \A op \in saving.ops : op.base \in Stat
    BY <1>2 DEF Inv, TypeOK, Saving, Op, Copy
  <2>2. reading # Nothing => reading.etag \in Stat
    BY DEF Inv, TypeOK, Reading
  <2>3. backup # Nothing => backup.stat \in Stat
    BY DEF Inv, TypeOK, Backup
  <2>4. \A s \in Stat : Seen(s, file) => Seen(s, file')
    BY <1>2, <1>3, SeenStays
  <2> QED
    BY <1>1, <1>5, <2>1, <2>2, <2>3, <2>4, BackupOps DEF Inv, StatsAreSeen
<1>11. StatsAreKnown'
  BY <1>1, <1>5 DEF Inv, StatsAreKnown
<1>12. ReadingIsStale'
  BY <1>1, <1>5 DEF Inv, ReadingIsStale, SameContent, SameFlags
<1>13. CleanIsUpToDate'
  BY <1>1, <1>5 DEF Inv, CleanIsUpToDate, SameContent, SameFlags
<1>14. TrackerFollows' /\ BackupsAreOfVersions' /\ LeavingIsBackedUp'
  <2>1. Tracks(copy, d, tracker, Track(tracker, copy, d))
    BY <1>2, <1>5, TrackEffect DEF Inv, TypeOK
  <2>2. tracker' = Track(tracker, copy, d)
    BY <1>1, <1>5, <2>1 DEF Tracks, SameContent, SameFlags
  <2>3. copy.versionId <= d.versionId /\ d.text = copy.text
    BY <1>2, <1>5 DEF SameContent, Copy
  <2>4. copy.by = "failed revert" => copy.dirty
    BY DEF Inv, TrackerFollows
  <2>5. Followable(copy, d)
    BY <1>5, <2>3, <2>4, Zenon DEF Followable, SameFlags
  <2> QED
    BY <1>1, <1>5, <2>2, <2>5, ChangeIsFollowed DEF Inv
<1> QED
  BY <1>6, <1>7, <1>8, <1>9, <1>10, <1>11, <1>12, <1>13, <1>14 DEF Inv

(* The actions that leave the copy, its saves and the tracker alone.       *)
LEMMA CopyStays ==
  ASSUME Inv, UNCHANGED <<file, externals, copy, saving, reverting, tracker, backup, life, edits, faults>>,
         life # "closed", event' \in BOOLEAN, reloads' \in 0..2,
         reading' \in Reading \cup {Nothing}, reading' # Nothing => Seen(reading'.etag, file),
         reading' # reading => copy.by # "failed revert",
         ReadingIsStale', CleanIsUpToDate'
  PROVE  Inv'
<1>1. TypeOK'
  BY DEF Inv, TypeOK
<1>2. ErrorIsDirty' /\ ClosedIsIdle'
  BY DEF Inv, ErrorIsDirty, ClosedIsIdle
<1>3. SavesAreQueued'
  BY DEF Inv, SavesAreQueued
<1>4. StatsAreSeen' /\ StatsAreKnown'
  BY DEF Inv, StatsAreSeen, StatsAreKnown
<1>5. TrackerFollows'
  BY DEF Inv, TrackerFollows, Followed, BackedUp
<1>6. BackupsAreOfVersions' /\ LeavingIsBackedUp'
  BY DEF Inv, BackupsAreOfVersions, LeavingIsBackedUp, BackedUp
<1> QED
  BY <1>1, <1>2, <1>3, <1>4, <1>5, <1>6 DEF Inv

LEMMA FileEventStep == Inv /\ FileEvent => Inv'
<1> SUFFICES ASSUME Inv, FileEvent PROVE Inv'
  OBVIOUS
<1>1. /\ UNCHANGED <<file, externals, copy, saving, reading, reverting, tracker, backup, life, edits, faults>>
      /\ life # "closed" /\ event' = FALSE
      /\ reloads' = IF ~copy.dirty /\ reloads <= 1 THEN reloads + 1 ELSE reloads
  BY DEF FileEvent, Running, backupVars
<1>2. reloads \in 0..2
  BY DEF Inv, TypeOK
<1>3. reloads' \in 0..2 /\ reloads <= reloads'
  BY <1>1, <1>2
<1>4. ReadingIsStale'
  BY <1>1, <1>2, <1>3 DEF Inv, ReadingIsStale
<1>5. ~copy.dirty => reloads' > reloads \/ reloads' = 2
  BY <1>1, <1>2
<1>6. ~copy.dirty => ReloadQueued'
  <2>1. reading # Nothing /\ reading.for = "reload" => reloads > 0
    BY DEF Inv, ReadingIsStale
  <2> QED
    BY <1>1, <1>2, <1>3, <1>5, <2>1 DEF ReloadQueued
<1>7. CleanIsUpToDate'
  BY <1>1, <1>6 DEF Inv, CleanIsUpToDate
<1>8. reading' \in Reading \cup {Nothing} /\ (reading' # Nothing => Seen(reading'.etag, file))
  BY <1>1 DEF Inv, TypeOK, StatsAreSeen
<1> QED
  BY <1>1, <1>3, <1>4, <1>7, <1>8, CopyStays

(* A resolve begins only of a copy that is clean and not being saved, and  *)
(* it will load what the file holds unless the copy changes.               *)
LEMMA StartReadingEffect ==
  ASSUME Inv, NEW for \in {"reload", "revert"}, StartReading(for), ~Busy, reading = Nothing
  PROVE  /\ reading' \in Reading /\ reading'.for = for /\ reading'.version = copy.versionId
         /\ reading'.etag = copy.stat /\ saving.ops = {} /\ ~copy.dirty /\ copy.by # "failed revert"
<1>1. copy.versionId \in Nat /\ copy.stat \in Stat
  BY DEF Inv, TypeOK, Copy
<1>2. reading' = [for |-> for, version |-> copy.versionId, etag |-> copy.stat]
  BY DEF StartReading
<1>3. ~copy.dirty /\ saving.running = Nothing
  BY DEF Busy
<1>4. saving.ops = {}
  <2>1. ASSUME NEW op \in saving.ops
        PROVE  saving.running # Nothing
    <3>1. op.version \in Nat /\ saving.running = op.version
      BY DEF Inv, TypeOK, Saving, Op, SavesAreQueued
    <3> QED
      BY <3>1
  <2> QED
    BY <1>3, <2>1
<1>5. copy.by # "failed revert"
  BY <1>3 DEF Inv, TrackerFollows
<1>6. reading' \in Reading
  BY <1>1, <1>2 DEF Reading
<1> QED
  BY <1>2, <1>3, <1>4, <1>5, <1>6

LEMMA StartReloadStep == Inv /\ StartReload => Inv'
<1> SUFFICES ASSUME Inv, StartReload PROVE Inv'
  OBVIOUS
<1>1. /\ UNCHANGED <<file, event, externals, copy, saving, reverting, tracker, backup, life, edits, faults>>
      /\ life # "closed" /\ reloads > 0 /\ reading = Nothing
  BY DEF StartReload, Running, fileVars, backupVars
<1>2. reloads \in 0..2 /\ event \in BOOLEAN
  BY DEF Inv, TypeOK
<1>3. CASE Busy /\ reloads' = reloads - 1 /\ UNCHANGED reading
  <2>1. ReadingIsStale'
    BY <1>1, <1>3 DEF ReadingIsStale
  <2>2. ~(~copy.dirty /\ saving.ops = {})
    BY <1>3 DEF Busy, Inv, SavesAreQueued
  <2>3. CleanIsUpToDate'
    BY <1>1, <2>2 DEF Inv, CleanIsUpToDate
  <2>4. reloads' \in 0..2
    BY <1>1, <1>2, <1>3
  <2>5. reading' = Nothing
    BY <1>1, <1>3
  <2> QED
    BY <1>1, <1>2, <1>3, <2>1, <2>3, <2>4, <2>5, CopyStays
<1>4. CASE ~Busy /\ StartReading("reload") /\ UNCHANGED reloads
  <2>1. /\ reading' \in Reading /\ reading'.for = "reload" /\ reading'.version = copy.versionId
        /\ reading'.etag = copy.stat /\ saving.ops = {} /\ ~copy.dirty /\ copy.by # "failed revert"
    BY <1>1, <1>4, StartReadingEffect
  <2>2. Seen(reading'.etag, file)
    BY <2>1 DEF Inv, StatsAreSeen
  <2>3. copy.versionId <= copy.versionId
    BY DEF Inv, TypeOK, Copy
  <2>4. ReadingIsStale'
    BY <1>1, <1>4, <2>1, <2>3 DEF ReadingIsStale
  <2>5. reading' # Nothing
    BY <2>1
  <2>6. copy.stat = file \/ WillLoad'
    BY <1>1, <2>1, <2>5 DEF WillLoad
  <2>7. CleanIsUpToDate'
    BY <1>1, <2>6 DEF Inv, CleanIsUpToDate
  <2> QED
    BY <1>1, <1>2, <1>4, <2>1, <2>2, <2>4, <2>7, CopyStays
<1> QED
  BY <1>3, <1>4 DEF StartReload

LEMMA RevertStep == Inv /\ Revert => Inv'
<1> SUFFICES ASSUME Inv, Revert PROVE Inv'
  OBVIOUS
<1> DEFINE d == SetDirty(copy, FALSE, "revert")
<1>1. /\ UNCHANGED <<file, event, externals, saving, reading, reloads, tracker, backup, life, edits, faults>>
      /\ life # "closed" /\ copy.dirty /\ copy' = d
      /\ reverting' = [conflict |-> copy.conflict, error |-> copy.error, saved |-> copy.saved]
  BY DEF Revert, Running, fileVars, backupVars
<1>2. copy \in Copy
  BY DEF Inv, TypeOK
<1>3. /\ d \in Copy /\ SameContent(copy, d) /\ SameStat(copy, d) /\ d.leaving = copy.leaving
      /\ ~d.dirty /\ ~d.conflict /\ ~d.error /\ d.by = "revert"
  BY <1>2, CleanEffect DEF Cause
<1> HIDE DEF d
<1>4. reverting' \in Reverting /\ reverting' # Nothing
  <2>1. reverting' \in Reverting
    BY <1>1, <1>2 DEF Reverting, Copy
  <2> QED
    BY <2>1
<1>5. TypeOK'
  BY <1>1, <1>3, <1>4 DEF Inv, TypeOK
<1>6. ErrorIsDirty' /\ CleanIsUpToDate'
  BY <1>1, <1>3 DEF ErrorIsDirty, CleanIsUpToDate
<1>7. ClosedIsIdle'
  BY <1>1 DEF ClosedIsIdle
<1>8. SavesAreQueued'
  BY <1>1, <1>3 DEF Inv, SavesAreQueued, SameContent
<1>9. StatsAreSeen' /\ StatsAreKnown'
  BY <1>1, <1>3 DEF Inv, StatsAreSeen, StatsAreKnown, SameStat
<1>10. ReadingIsStale'
  BY <1>1, <1>3, <1>4 DEF Inv, ReadingIsStale, SameContent
<1>11. TrackerFollows'
  BY <1>1, <1>3, <1>4 DEF Inv, TrackerFollows, Followed
<1>12. BackupsAreOfVersions' /\ LeavingIsBackedUp'
  BY <1>1, <1>3 DEF Inv, BackupsAreOfVersions, LeavingIsBackedUp, BackedUp, SameContent
<1> QED
  BY <1>5, <1>6, <1>7, <1>8, <1>9, <1>10, <1>11, <1>12 DEF Inv

(* What a resolve leaves: the copy as it was, or loaded from the file.     *)
Found(d) ==
  \/ d = copy /\ ~WillLoad
  \/ /\ d.text = file.text /\ d.stat = file /\ d.versionId = copy.versionId + 1
     /\ d.known = copy.known \cup {file.text} /\ d.leaving = copy.leaving
     /\ ~d.dirty /\ ~d.conflict /\ ~d.error /\ d.by = "load"
     /\ saving.ops = {} /\ ~copy.dirty

LEMMA ReadingEnds ==
  ASSUME Inv, NEW d \in Copy, EndReading(d), Found(d), life # "closed",
         reading = Nothing => reverting # Nothing,
         UNCHANGED <<file, event, externals, saving, backup, life, edits, faults>>
  PROVE  Inv'
<1>1. copy \in Copy /\ file \in Stat /\ tracker \in Tracker /\ copy.versionId \in Nat /\ file.text \in Text
  BY DEF Inv, TypeOK, Copy, Stat
<1>2. reading' = Nothing /\ copy' = d
  BY DEF EndReading
<1>3. copy.versionId <= d.versionId /\ (d.versionId = copy.versionId => d.text = copy.text)
  <2>1. d = copy \/ d.versionId = copy.versionId + 1
    BY DEF Found
  <2> QED
    BY <1>1, <2>1
<1>4. d.leaving = copy.leaving
  BY DEF Found
<1>5. d.by = "failed revert" => copy.by = "failed revert" /\ d.dirty
  BY DEF Found, Inv, TrackerFollows
<1>6. reloads' \in 0..2
  BY DEF EndReading, Inv, TypeOK, ReadingIsStale
<1>7. reverting' \in Reverting \cup {Nothing}
  BY DEF EndReading, Inv, TypeOK
<1>8. tracker' \in Tracker /\ TrackerFollows' /\ BackupsAreOfVersions' /\ LeavingIsBackedUp'
  <2>1. CASE reading # Nothing /\ reading.for = "reload"
    <3>1. tracker' = Track(tracker, copy, d) /\ reverting' = reverting
      BY <2>1 DEF EndReading
    <3>2. copy.by # "failed revert"
      BY <2>1 DEF Inv, TrackerFollows
    <3>3. Followable(copy, d)
      BY <1>3, <1>4, <1>5, <3>2, Zenon DEF Followable
    <3> QED
      BY <1>2, <3>1, <3>3, ChangeIsFollowed DEF Inv
  <2>2. CASE ~(reading # Nothing /\ reading.for = "reload")
    <3>1. /\ reverting' = Nothing
          /\ tracker' = IF life # "open" THEN tracker
                        ELSE IF d.dirty THEN ScheduleBackup(tracker) ELSE DiscardBackup(tracker)
      BY <2>2 DEF EndReading
    <3>2. /\ ScheduleBackup(tracker) \in Tracker /\ ScheduleBackup(tracker).io = tracker.io
          /\ ScheduleBackup(tracker).cache = tracker.cache /\ ScheduleBackup(tracker).next = Scheduled
      BY <1>1 DEF ScheduleBackup, Tracker
    <3>3. /\ DiscardBackup(tracker) \in Tracker /\ DiscardBackup(tracker).io = tracker.io
          /\ DiscardBackup(tracker).cache = tracker.cache /\ DiscardBackup(tracker).next = DeleteOp
      BY <1>1, BackupOps DEF DiscardBackup, Tracker
    <3>4. Kept(tracker, tracker')
      BY <1>1, <3>1, <3>2, <3>3 DEF Kept
    <3>5. BackupsAreOfVersions' /\ LeavingIsBackedUp'
      BY <1>2, <1>3, <1>4, <3>4, VersionsAreFollowed DEF Inv
    <3>6. life = "open" => tracker'.next = IF d.dirty THEN Scheduled ELSE DeleteOp
      BY <3>1, <3>2, <3>3
    <3>7. life # "open" => tracker' = tracker
      BY <3>1
    <3>8. TrackerFollows'
      BY <1>2, <1>5, <3>6, <3>7, BackupOps DEF Inv, TrackerFollows, Followed
    <3> QED
      BY <3>4, <3>5, <3>8 DEF Kept
  <2> QED
    BY <2>1, <2>2
<1>9. TypeOK'
  BY <1>2, <1>6, <1>7, <1>8 DEF Inv, TypeOK
<1>10. ErrorIsDirty'
  BY <1>2 DEF Found, Inv, ErrorIsDirty
<1>11. ClosedIsIdle' /\ ReadingIsStale'
  BY <1>2 DEF ClosedIsIdle, ReadingIsStale
<1>12. SavesAreQueued'
  BY <1>2, <1>3, SavesStayQueued DEF Inv
<1>13. StatsAreSeen'
  <2>1. Seen(d.stat, file)
    BY <1>1 DEF Found, Inv, StatsAreSeen, Seen, Stat
  <2>2. tracker'.io = tracker.io /\ tracker'.next \in {tracker.next, Scheduled, DeleteOp}
    <3>1. CASE reading # Nothing /\ reading.for = "reload"
      BY <1>1, <3>1, TrackEffect DEF EndReading, Tracks
    <3>2. CASE ~(reading # Nothing /\ reading.for = "reload")
      BY <1>1, <3>2 DEF EndReading, ScheduleBackup, DiscardBackup, Tracker
    <3> QED
      BY <3>1, <3>2
  <2>3. tracker'.next \in BackupWrite => tracker'.next = tracker.next
    BY <2>2, BackupOps
  <2> QED
    BY <1>2, <2>1, <2>2, <2>3 DEF Inv, StatsAreSeen
<1>14. StatsAreKnown'
  BY <1>2 DEF Found, Inv, StatsAreKnown
<1>15. CleanIsUpToDate'
  <2>1. CASE d = copy /\ ~WillLoad
    <3>1. reloads \in 0..2
      BY DEF Inv, TypeOK
    <3>2. CASE reading # Nothing /\ reading.for = "reload"
      <4>1. reloads' = reloads - 1
        BY <3>2 DEF EndReading
      <4>2. ReloadQueued => ReloadQueued'
        BY <1>2, <3>1, <3>2, <4>1 DEF ReloadQueued
      <4> QED
        BY <1>2, <2>1, <4>2 DEF Inv, CleanIsUpToDate
    <3>3. CASE ~(reading # Nothing /\ reading.for = "reload")
      <4>1. reloads' = reloads
        BY <3>3 DEF EndReading
      <4>2. ReloadQueued => ReloadQueued'
        BY <1>2, <3>3, <4>1 DEF ReloadQueued
      <4> QED
        BY <1>2, <2>1, <4>2 DEF Inv, CleanIsUpToDate
    <3> QED
      BY <3>2, <3>3
  <2>2. CASE d.text = file.text /\ d.stat = file /\ saving.ops = {}
    BY <1>2, <2>2 DEF CleanIsUpToDate
  <2> QED
    BY <2>1, <2>2 DEF Found
<1> QED
  BY <1>8, <1>9, <1>10, <1>11, <1>12, <1>13, <1>14, <1>15 DEF Inv

LEMMA StartRevertReadingStep == Inv /\ StartRevertReading => Inv'
<1> SUFFICES ASSUME Inv, StartRevertReading PROVE Inv'
  OBVIOUS
<1>1. /\ UNCHANGED <<file, event, externals, saving, backup, life, edits, faults>>
      /\ life # "closed" /\ reverting # Nothing /\ reading = Nothing
  BY DEF StartRevertReading, Running, fileVars
<1>2. copy \in Copy /\ event \in BOOLEAN /\ reloads \in 0..2
  BY DEF Inv, TypeOK
<1>3. CASE EndReading(copy)
  <2>1. Found(copy)
    BY <1>1 DEF Found, WillLoad
  <2> QED
    BY <1>1, <1>2, <1>3, <2>1, ReadingEnds
<1>4. CASE ~Busy /\ StartReading("revert") /\ UNCHANGED <<copy, reverting, reloads, tracker>>
  <2>1. /\ reading' \in Reading /\ reading'.for = "revert" /\ reading'.version = copy.versionId
        /\ reading'.etag = copy.stat /\ saving.ops = {} /\ ~copy.dirty /\ copy.by # "failed revert"
    BY <1>1, <1>4, StartReadingEffect
  <2>2. Seen(reading'.etag, file)
    BY <2>1 DEF Inv, StatsAreSeen
  <2>3. copy.versionId <= copy.versionId
    BY DEF Inv, TypeOK, Copy
  <2>4. ReadingIsStale'
    BY <1>1, <1>4, <2>1, <2>3 DEF ReadingIsStale
  <2>5. reading' # Nothing
    BY <2>1
  <2>6. copy.stat = file \/ WillLoad'
    BY <1>1, <1>4, <2>1, <2>5 DEF WillLoad
  <2>7. CleanIsUpToDate'
    BY <1>1, <1>4, <2>6 DEF Inv, CleanIsUpToDate
  <2> QED
    BY <1>1, <1>2, <1>4, <2>1, <2>2, <2>4, <2>7, CopyStays
<1> QED
  BY <1>3, <1>4 DEF StartRevertReading

LEMMA ReadFileStep == Inv /\ ReadFile => Inv'
<1> SUFFICES ASSUME Inv, ReadFile PROVE Inv'
  OBVIOUS
<1>1. /\ UNCHANGED <<file, event, externals, saving, backup, life, edits, faults>>
      /\ life # "closed" /\ reading # Nothing
  BY DEF ReadFile, Running, fileVars
<1>2. copy \in Copy /\ file \in Stat
  BY DEF Inv, TypeOK
<1>3. CASE (reading.etag = file \/ reading.version # copy.versionId) /\ EndReading(copy)
  <2>1. Found(copy)
    BY <1>3 DEF Found, WillLoad
  <2> QED
    BY <1>1, <1>2, <1>3, <2>1, ReadingEnds
<1>4. CASE /\ reading.etag # file /\ reading.version = copy.versionId
           /\ EndReading([ResolveFromContent(copy, file) EXCEPT !.known = @ \cup {file.text}])
  <2> DEFINE e == ResolveFromContent(copy, file)
             d == [e EXCEPT !.known = @ \cup {file.text}]
  <2>1. copy.stat.mtime <= file.mtime /\ file.text \in Text
    BY <1>2 DEF Inv, StatsAreSeen, Seen, Stat
  <2>2. /\ e \in Copy /\ e.leaving = copy.leaving
        /\ e.text = file.text /\ e.versionId = copy.versionId + 1 /\ e.stat = file /\ e.known = copy.known
        /\ ~e.dirty /\ ~e.conflict /\ ~e.error /\ e.by = "load"
    BY <1>2, <2>1, LoadEffect
  <2> HIDE DEF e
  <2>3. d \in Copy
    BY <2>1, <2>2 DEF Copy
  <2>4. d.known = copy.known \cup {file.text} /\ d.leaving = e.leaving /\ d.text = e.text
        /\ d.versionId = e.versionId /\ d.stat = e.stat /\ d.dirty = e.dirty /\ d.conflict = e.conflict
        /\ d.error = e.error /\ d.by = e.by
    BY <2>2 DEF Copy
  <2>5. EndReading(d)
    BY <1>4 DEF e
  <2> HIDE DEF d
  <2>6. saving.ops = {} /\ ~copy.dirty
    <3>1. copy.versionId \in Nat
      BY <1>2 DEF Copy
    <3>2. ~(reading.version < copy.versionId)
      BY <1>4, <3>1
    <3> QED
      BY <1>1, <3>2 DEF Inv, ReadingIsStale
  <2>7. d.text = file.text /\ d.stat = file /\ d.versionId = copy.versionId + 1 /\ d.leaving = copy.leaving
    BY <2>2, <2>4
  <2>8. ~d.dirty /\ ~d.conflict /\ ~d.error /\ d.by = "load"
    BY <2>2, <2>4
  <2>9. Found(d)
    BY <2>4, <2>6, <2>7, <2>8, Zenon DEF Found
  <2> QED
    BY <1>1, <2>3, <2>5, <2>9, ReadingEnds
<1> QED
  BY <1>3, <1>4 DEF ReadFile

LEMMA ReadFailsStep == Inv /\ ReadFails => Inv'
<1> SUFFICES ASSUME Inv, ReadFails PROVE Inv'
  OBVIOUS
<1>1. /\ UNCHANGED <<file, event, externals, saving, tracker, backup, life, edits>>
      /\ life # "closed" /\ reading # Nothing /\ reading' = Nothing
      /\ faults < MaxFaults /\ faults' = faults + 1
  BY DEF ReadFails, Running, fileVars, backupVars
<1>2. copy \in Copy /\ faults' \in 0..MaxFaults
  BY <1>1 DEF Inv, TypeOK
<1>3. \/ /\ reading.for = "reload" /\ reloads' = reloads - 1 /\ reverting' = reverting
         /\ copy' = [copy EXCEPT !.by = "failed reload"]
      \/ /\ reading.for = "revert" /\ reverting' = Nothing /\ reloads' = reloads
         /\ copy' = [copy EXCEPT !.dirty = TRUE, !.conflict = reverting.conflict,
                                 !.error = reverting.error, !.saved = reverting.saved, !.by = "failed revert"]
  BY DEF ReadFails
<1>4. reading.for = "revert" => reverting \in Reverting
  BY <1>1 DEF Inv, ReadingIsStale, TypeOK
<1>5. /\ copy' \in Copy /\ SameContent(copy, copy') /\ SameStat(copy, copy') /\ copy'.leaving = copy.leaving
      /\ copy'.by \notin {"load", "save"}
      /\ \/ copy'.by = "failed reload" /\ copy'.dirty = copy.dirty /\ copy'.conflict = copy.conflict
            /\ copy'.error = copy.error /\ reading.for = "reload"
         \/ copy'.by = "failed revert" /\ copy'.dirty /\ reading.for = "revert"
  <2>1. CASE reading.for = "reload"
    <3>1. copy' = [copy EXCEPT !.by = "failed reload"]
      BY <1>3, <2>1
    <3>2. copy' \in Copy
      BY <1>2, <3>1 DEF Copy, Cause
    <3>3. SameContent(copy, copy') /\ SameStat(copy, copy') /\ copy'.leaving = copy.leaving
      BY <1>2, <3>1 DEF Copy, SameContent, SameStat
    <3>4. copy'.by = "failed reload" /\ copy'.dirty = copy.dirty /\ copy'.conflict = copy.conflict
          /\ copy'.error = copy.error
      BY <1>2, <3>1 DEF Copy
    <3> QED
      BY <2>1, <3>2, <3>3, <3>4
  <2>2. CASE reading.for = "revert"
    <3> DEFINE r == reverting
    <3>1. copy' = [copy EXCEPT !.dirty = TRUE, !.conflict = r.conflict, !.error = r.error, !.saved = r.saved,
                               !.by = "failed revert"]
      BY <1>3, <2>2
    <3>2. r.conflict \in BOOLEAN /\ r.error \in BOOLEAN /\ r.saved \in Text \cup {Nothing}
      BY <1>4, <2>2 DEF Reverting
    <3> HIDE DEF r
    <3>3. copy' \in Copy
      BY <1>2, <3>1, <3>2 DEF Copy, Cause
    <3>4. SameContent(copy, copy') /\ SameStat(copy, copy') /\ copy'.leaving = copy.leaving
      BY <1>2, <3>1 DEF Copy, SameContent, SameStat
    <3>5. copy'.by = "failed revert" /\ copy'.dirty
      BY <1>2, <3>1 DEF Copy
    <3> QED
      BY <2>2, <3>3, <3>4, <3>5
  <2> QED
    BY <1>3, <2>1, <2>2
<1>6. reloads' \in 0..2 /\ reverting' \in Reverting \cup {Nothing}
  <2>1. reading.for = "reload" => reloads > 0
    BY <1>1 DEF Inv, ReadingIsStale
  <2>2. reloads \in 0..2 /\ reverting \in Reverting \cup {Nothing}
    BY DEF Inv, TypeOK
  <2>3. reverting' = reverting \/ reverting' = Nothing
    BY <1>3
  <2>4. reloads' = reloads \/ (reloads > 0 /\ reloads' = reloads - 1)
    BY <1>3, <2>1
  <2>5. reloads' \in 0..2
    BY <2>2, <2>4
  <2> QED
    BY <2>2, <2>3, <2>5
<1>7. TypeOK'
  BY <1>1, <1>2, <1>5, <1>6 DEF Inv, TypeOK
<1>8. ErrorIsDirty'
  BY <1>5 DEF Inv, ErrorIsDirty
<1>9. CleanIsUpToDate'
  BY <1>5 DEF CleanIsUpToDate
<1>10. ReadingIsStale' /\ ClosedIsIdle'
  BY <1>1 DEF ReadingIsStale, ClosedIsIdle
<1>11. SavesAreQueued'
  BY <1>1, <1>5 DEF Inv, SavesAreQueued, SameContent
<1>12. StatsAreSeen' /\ StatsAreKnown'
  BY <1>1, <1>5 DEF Inv, StatsAreSeen, StatsAreKnown, SameStat
<1>13. TrackerFollows'
  <2>1. copy.by # "failed revert"
    BY <1>1 DEF Inv, TrackerFollows
  <2>2. CASE copy'.by = "failed revert" /\ copy'.dirty
    BY <1>1, <2>2 DEF Inv, TrackerFollows, Followed
  <2>3. CASE copy'.by = "failed reload" /\ copy'.dirty = copy.dirty /\ reading.for = "reload"
    <3>1. Followed' = Followed
      BY <1>1, <1>3, <2>1, <2>3 DEF Followed
    <3>2. BackedUp' = BackedUp /\ copy'.versionId = copy.versionId
      BY <1>1, <1>5 DEF BackedUp, SameContent
    <3> QED
      BY <1>1, <2>1, <2>3, <3>1, <3>2 DEF Inv, TrackerFollows
  <2> QED
    BY <1>5, <2>2, <2>3
<1>14. BackupsAreOfVersions' /\ LeavingIsBackedUp'
  BY <1>1, <1>5 DEF Inv, BackupsAreOfVersions, LeavingIsBackedUp, BackedUp, SameContent
<1> QED
  BY <1>7, <1>8, <1>9, <1>10, <1>11, <1>12, <1>13, <1>14 DEF Inv

----------------------------------------------------------------------------
(* The actions of the tracker and the backup service change nothing else.  *)
LEMMA TrackerMoves ==
  ASSUME Inv, tracker' \in Tracker, backup' \in Backup \cup {Nothing}, life # "closed",
         tracker'.next \in BackupWrite => Seen(tracker'.next.stat, file),
         tracker'.io \in BackupWrite => Seen(tracker'.io.stat, file),
         backup' # Nothing => Seen(backup'.stat, file),
         UNCHANGED <<file, event, externals, copy, saving, reading, reverting, reloads, life, edits, faults>>,
         TrackerFollows', BackupsAreOfVersions', LeavingIsBackedUp'
  PROVE  Inv'
<1>1. TypeOK' /\ ErrorIsDirty' /\ ClosedIsIdle'
  BY DEF Inv, TypeOK, ErrorIsDirty, ClosedIsIdle
<1>2. SavesAreQueued' /\ StatsAreKnown'
  BY DEF Inv, SavesAreQueued, StatsAreKnown
<1>3. StatsAreSeen'
  BY DEF Inv, StatsAreSeen
<1>4. ReadingIsStale'
  BY DEF Inv, ReadingIsStale
<1>5. CleanIsUpToDate'
  BY DEF Inv, CleanIsUpToDate, ReloadQueued, WillLoad
<1> QED
  BY <1>1, <1>2, <1>3, <1>4, <1>5 DEF Inv

LEMMA WriteOpIs ==
  ASSUME NEW c \in Copy
  PROVE  /\ WriteOp(c) \in BackupWrite /\ WriteOp(c).text = c.text /\ WriteOp(c).version = c.versionId
         /\ WriteOp(c).stat = c.stat
BY DEF WriteOp, BackupWrite, Copy

LEMMA ScheduledBackupStep == Inv /\ ScheduledBackup => Inv'
<1> SUFFICES ASSUME Inv, ScheduledBackup PROVE Inv'
  OBVIOUS
<1>1. /\ UNCHANGED <<file, event, externals, copy, saving, reading, reverting, reloads, life, edits, faults>>
      /\ life # "closed" /\ tracker.next = Scheduled /\ tracker.io = Nothing
  BY DEF ScheduledBackup, Running, fileVars
<1>2. copy \in Copy /\ tracker \in Tracker /\ copy.versionId \in Nat
  BY DEF Inv, TypeOK, Copy
<1>3. life = "open"
  BY <1>1 DEF Inv, TrackerFollows
<1>4. Followed' = Followed /\ (Followed => copy.dirty)
  BY <1>1 DEF Inv, TrackerFollows, Followed
<1>5. tracker.cache # Nothing => tracker.cache \in Cached
  BY <1>2 DEF Tracker
<1>6. CASE copy.dirty /\ BeginIo(WriteOp(copy))
  <2> DEFINE op == WriteOp(copy)
  <2>1. op \in BackupWrite /\ op.text = copy.text /\ op.version = copy.versionId /\ op.stat = copy.stat
    BY <1>2, WriteOpIs
  <2>2. tracker' = [tracker EXCEPT !.next = Nothing, !.io = op] /\ backup' = Nothing
    BY <1>6, <2>1, BackupOps DEF BeginIo
  <2> HIDE DEF op
  <2>3. tracker' \in Tracker /\ tracker'.next = Nothing /\ tracker'.io = op /\ tracker'.cache = tracker.cache
    BY <1>2, <2>1, <2>2, BackupOps DEF Tracker
  <2>4. op # DeleteOp /\ op # Nothing
    BY <2>1, BackupOps
  <2>5. TrackerFollows'
    BY <1>1, <1>3, <1>4, <1>6, <2>1, <2>3, <2>4, BackupOps DEF Inv, TrackerFollows
  <2>6. BackupsAreOfVersions'
    <3>1. tracker.cache # Nothing => tracker.cache.version <= copy.versionId
      BY DEF Inv, BackupsAreOfVersions
    <3>2. op.version <= copy.versionId
      BY <1>2, <2>1
    <3> QED
      BY <1>1, <2>1, <2>3, <2>4, <3>1, <3>2, BackupOps DEF BackupsAreOfVersions
  <2>7. LeavingIsBackedUp'
    BY <1>1, <1>3 DEF Inv, LeavingIsBackedUp
  <2>8. Seen(op.stat, file)
    BY <2>1 DEF Inv, StatsAreSeen
  <2> QED
    BY <1>1, <2>2, <2>3, <2>5, <2>6, <2>7, <2>8, BackupOps, TrackerMoves
<1>7. CASE /\ ~copy.dirty \/ tracker.cache = [version |-> copy.versionId, stat |-> copy.stat]
           /\ tracker' = CancelBackupOperation(tracker) /\ backup' = backup
  <2>1. tracker' \in Tracker /\ tracker'.next = Nothing /\ tracker'.io = Nothing /\ tracker'.cache = tracker.cache
    BY <1>1, <1>2, <1>7 DEF CancelBackupOperation, Tracker
  <2>2. copy.dirty => tracker.cache # Nothing /\ tracker.cache.version = copy.versionId
    <3>1. ASSUME copy.dirty
          PROVE  tracker.cache = [version |-> copy.versionId, stat |-> copy.stat]
      BY <1>7, <3>1
    <3>2. [version |-> copy.versionId, stat |-> copy.stat] \in Cached
      BY <1>2 DEF Cached, Copy
    <3>3. [version |-> copy.versionId, stat |-> copy.stat].version = copy.versionId
      OBVIOUS
    <3> QED
      BY <3>1, <3>2, <3>3
  <2>3. copy.dirty => BackedUp
    BY <1>1, <2>2 DEF Inv, BackupsAreOfVersions
  <2>4. BackedUp' = BackedUp
    BY <1>1, <1>7 DEF BackedUp
  <2>5. TrackerFollows'
    BY <1>1, <1>3, <1>4, <2>1, <2>3, <2>4, BackupOps DEF Inv, TrackerFollows
  <2>6. BackupsAreOfVersions'
    BY <1>1, <2>1, <2>4, BackupOps DEF Inv, BackupsAreOfVersions
  <2>7. LeavingIsBackedUp'
    BY <1>1, <1>3 DEF Inv, LeavingIsBackedUp
  <2>8. backup' \in Backup \cup {Nothing} /\ (backup' # Nothing => Seen(backup'.stat, file))
    BY <1>7 DEF Inv, TypeOK, StatsAreSeen
  <2> QED
    BY <1>1, <2>1, <2>5, <2>6, <2>7, <2>8, BackupOps, TrackerMoves
<1> QED
  BY <1>6, <1>7 DEF ScheduledBackup

LEMMA BackupIoStartsStep == Inv /\ BackupIoStarts => Inv'
<1> SUFFICES ASSUME Inv, BackupIoStarts PROVE Inv'
  OBVIOUS
<1> DEFINE op == tracker.next
<1>1. /\ UNCHANGED <<file, event, externals, copy, saving, reading, reverting, reloads, life, edits, faults>>
      /\ life # "closed" /\ op \notin {Nothing, Scheduled} /\ tracker.io = Nothing /\ BeginIo(op)
  BY DEF BackupIoStarts, Running, fileVars
<1>2. copy \in Copy /\ tracker \in Tracker /\ copy.versionId \in Nat
  BY DEF Inv, TypeOK, Copy
<1>3. op \in BackupWrite \/ op = DeleteOp
  BY <1>1, <1>2, BackupOps DEF Tracker
<1>4. tracker' = [tracker EXCEPT !.next = Nothing, !.io = op]
  BY <1>1 DEF BeginIo
<1>5. tracker' \in Tracker /\ tracker'.next = Nothing /\ tracker'.io = op /\ tracker'.cache = tracker.cache
  BY <1>2, <1>3, <1>4, BackupOps DEF Tracker
<1>6. backup' = Nothing \/ backup' = backup
  BY <1>1 DEF BeginIo
<1>7. life = "open" => op = DeleteOp
  BY <1>1 DEF Inv, TrackerFollows
<1>8. Followed' = Followed /\ (Followed => op = DeleteOp)
  BY <1>1, <1>7 DEF Followed
<1>9. op \in BackupWrite => op.version <= copy.versionId /\ (op.version = copy.versionId => op.text = copy.text)
                            /\ Seen(op.stat, file)
  BY DEF Inv, BackupsAreOfVersions, StatsAreSeen
<1>10. op # Nothing /\ op # Scheduled
  BY <1>1
<1>11. Followed => ~copy.dirty
  BY <1>8 DEF Inv, TrackerFollows
<1>12. tracker.cache # Nothing => tracker.cache.version <= copy.versionId
  BY DEF Inv, BackupsAreOfVersions
<1>13. life = "closing" /\ copy.leaving = copy.versionId => op \in BackupWrite /\ op.version = copy.versionId
  BY <1>10 DEF Inv, LeavingIsBackedUp
<1>14. copy.leaving # Nothing => copy.leaving <= copy.versionId
  BY DEF Inv, LeavingIsBackedUp
<1>15. copy.by = "failed revert" => copy.dirty /\ reading = Nothing
  BY DEF Inv, TrackerFollows
<1> HIDE DEF op
<1>16. TrackerFollows'
  BY <1>1, <1>5, <1>8, <1>10, <1>11, <1>15, BackupOps DEF TrackerFollows
<1>17. BackupsAreOfVersions'
  BY <1>1, <1>5, <1>7, <1>9, <1>10, <1>12, BackupOps DEF BackupsAreOfVersions
<1>18. LeavingIsBackedUp'
  BY <1>1, <1>5, <1>13, <1>14 DEF LeavingIsBackedUp
<1>19. backup' \in Backup \cup {Nothing} /\ (backup' # Nothing => Seen(backup'.stat, file))
  BY <1>6 DEF Inv, TypeOK, StatsAreSeen
<1> QED
  BY <1>1, <1>5, <1>9, <1>16, <1>17, <1>18, <1>19, BackupOps, TrackerMoves

LEMMA BackupIoEndsStep == Inv /\ BackupIoEnds => Inv'
<1> SUFFICES ASSUME Inv, BackupIoEnds PROVE Inv'
  OBVIOUS
<1> DEFINE op == tracker.io
<1>1. /\ UNCHANGED <<file, event, externals, copy, saving, reading, reverting, reloads, life, edits, faults>>
      /\ life # "closed" /\ op # Nothing
  BY DEF BackupIoEnds, Running, fileVars
<1>2. copy \in Copy /\ tracker \in Tracker /\ copy.versionId \in Nat
  BY DEF Inv, TypeOK, Copy
<1>3. op \in BackupWrite \/ op = DeleteOp
  BY <1>1, <1>2, BackupOps DEF Tracker
<1>4. Followed' = Followed
  BY <1>1 DEF Followed
<1>5. tracker.next \in BackupWrite =>
        /\ tracker.next.version <= copy.versionId
        /\ tracker.next.version = copy.versionId => tracker.next.text = copy.text
        /\ Seen(tracker.next.stat, file)
  BY DEF Inv, BackupsAreOfVersions, StatsAreSeen
<1>6. CASE op \in BackupWrite
  <2>1. op.kind = "write" /\ op.text \in Text /\ op.version \in Nat /\ op.stat \in Stat
    BY <1>6, BackupOps
  <2>2. /\ backup' = [text |-> op.text, stat |-> op.stat]
        /\ tracker' = [tracker EXCEPT !.io = Nothing, !.cache = [version |-> op.version, stat |-> op.stat]]
    BY <2>1 DEF BackupIoEnds
  <2>3. backup' \in Backup /\ backup'.text = op.text /\ backup'.stat = op.stat
    BY <2>1, <2>2 DEF Backup
  <2>4. [version |-> op.version, stat |-> op.stat] \in Cached
    BY <2>1 DEF Cached
  <2>5. tracker' \in Tracker /\ tracker'.next = tracker.next /\ tracker'.io = Nothing
        /\ tracker'.cache = [version |-> op.version, stat |-> op.stat]
    BY <1>2, <2>2, <2>4 DEF Tracker
  <2>6. tracker'.cache # Nothing /\ tracker'.cache.version = op.version
    BY <2>4, <2>5
  <2>7. op.version <= copy.versionId /\ (op.version = copy.versionId => op.text = copy.text) /\ Seen(op.stat, file)
    BY <1>6 DEF Inv, BackupsAreOfVersions, StatsAreSeen
  <2>8. op.version = copy.versionId => BackedUp'
    BY <1>1, <2>3, <2>7 DEF BackedUp
  <2>9. TrackerFollows'
    <3>1. Followed /\ tracker.next = Nothing => copy.dirty /\ op.version = copy.versionId
      BY <1>6 DEF Inv, TrackerFollows
    <3> QED
      BY <1>1, <1>4, <2>5, <2>8, <3>1, BackupOps DEF Inv, TrackerFollows
  <2>10. BackupsAreOfVersions'
    BY <1>1, <1>5, <2>5, <2>6, <2>7, <2>8, BackupOps DEF BackupsAreOfVersions
  <2>11. LeavingIsBackedUp'
    <3>1. /\ copy.leaving # Nothing => copy.leaving <= copy.versionId
          /\ life = "closing" /\ copy.leaving = copy.versionId =>
               \/ tracker.next \in BackupWrite /\ tracker.next.version = copy.versionId
               \/ tracker.next = Nothing /\ op.version = copy.versionId
      BY <1>1 DEF Inv, LeavingIsBackedUp
    <3> QED
      BY <1>1, <2>5, <2>8, <3>1 DEF LeavingIsBackedUp
  <2> QED
    BY <1>1, <1>5, <2>3, <2>5, <2>7, <2>9, <2>10, <2>11, BackupOps, TrackerMoves
<1>7. CASE op = DeleteOp
  <2>1. backup' = Nothing /\ tracker' = [tracker EXCEPT !.io = Nothing, !.cache = Nothing]
    BY <1>7, BackupOps DEF BackupIoEnds
  <2>2. tracker' \in Tracker /\ tracker'.next = tracker.next /\ tracker'.io = Nothing /\ tracker'.cache = Nothing
    BY <1>2, <2>1 DEF Tracker
  <2>3. TrackerFollows'
    <3>1. Followed /\ tracker.next = Nothing => ~copy.dirty
      BY <1>7 DEF Inv, TrackerFollows
    <3> QED
      BY <1>1, <1>4, <2>1, <2>2, <3>1, BackupOps DEF Inv, TrackerFollows
  <2>4. BackupsAreOfVersions'
    BY <1>1, <1>5, <2>2, BackupOps DEF BackupsAreOfVersions
  <2>5. LeavingIsBackedUp'
    BY <1>1, <1>7, <2>2, BackupOps DEF Inv, LeavingIsBackedUp
  <2> QED
    BY <1>1, <1>5, <2>1, <2>2, <2>3, <2>4, <2>5, BackupOps, TrackerMoves
<1> QED
  BY <1>3, <1>6, <1>7

----------------------------------------------------------------------------
(* The window shuts down, crashes and comes back.                          *)

LEMMA BeforeShutdownStep == Inv /\ BeforeShutdown => Inv'
<1> SUFFICES ASSUME Inv, BeforeShutdown PROVE Inv'
  OBVIOUS
<1> DEFINE op == IF ~copy.dirty THEN DeleteOp
                 ELSE IF tracker.cache # Nothing /\ tracker.cache.version = copy.versionId THEN Nothing
                 ELSE WriteOp(copy)
           leaving == IF copy.dirty /\ tracker.io # DeleteOp THEN copy.versionId ELSE Nothing
           d == [copy EXCEPT !.leaving = leaving]
<1>1. /\ UNCHANGED <<file, event, externals, saving, reading, reverting, reloads, backup, edits>>
      /\ life = "open" /\ life' = "closing" /\ faults < MaxFaults /\ faults' = faults + 1
      /\ tracker' = [CancelBackupOperation(tracker) EXCEPT !.next = op] /\ copy' = d
  BY DEF BeforeShutdown, fileVars
<1>2. copy \in Copy /\ tracker \in Tracker /\ copy.versionId \in Nat /\ faults' \in 0..MaxFaults
  BY <1>1 DEF Inv, TypeOK, Copy
<1>3. leaving = Nothing \/ (leaving = copy.versionId /\ copy.dirty /\ tracker.io # DeleteOp)
  OBVIOUS
<1>4. \/ op = DeleteOp /\ ~copy.dirty
      \/ op = Nothing /\ tracker.cache # Nothing /\ tracker.cache.version = copy.versionId
      \/ op = WriteOp(copy)
  OBVIOUS
<1>5. /\ WriteOp(copy) \in BackupWrite /\ WriteOp(copy).text = copy.text /\ WriteOp(copy).version = copy.versionId
      /\ WriteOp(copy).stat = copy.stat
  BY <1>2, WriteOpIs
<1> HIDE DEF op, leaving
<1>6. op \in BackupOp \cup {Scheduled, Nothing} /\ op # Scheduled
  BY <1>4, <1>5, BackupOps
<1>7. tracker' \in Tracker /\ tracker'.next = op /\ tracker'.io = tracker.io /\ tracker'.cache = tracker.cache
  <2> DEFINE t == CancelBackupOperation(tracker)
  <2>1. t \in Tracker /\ t.io = tracker.io /\ t.cache = tracker.cache
    BY <1>2 DEF CancelBackupOperation, Tracker
  <2>2. tracker' = [t EXCEPT !.next = op]
    BY <1>1
  <2> HIDE DEF t
  <2> QED
    BY <1>6, <2>1, <2>2 DEF Tracker
<1>8. d \in Copy
  <2>1. leaving \in Nat \cup {Nothing}
    BY <1>2, <1>3
  <2> QED
    BY <1>2, <2>1 DEF Copy
<1>9. SameContent(copy, d) /\ SameStat(copy, d) /\ d.leaving = leaving
  BY <1>2 DEF Copy, SameContent, SameStat
<1>10. d.dirty = copy.dirty /\ d.conflict = copy.conflict /\ d.error = copy.error /\ d.by = copy.by
  BY <1>2 DEF Copy
<1> HIDE DEF d
<1>11. TypeOK'
  BY <1>1, <1>2, <1>7, <1>8 DEF Inv, TypeOK
<1>12. ErrorIsDirty' /\ ClosedIsIdle'
  BY <1>1, <1>10 DEF Inv, ErrorIsDirty, ClosedIsIdle
<1>13. SavesAreQueued'
  BY <1>1, <1>9 DEF Inv, SavesAreQueued, SameContent
<1>14. StatsAreKnown'
  BY <1>1, <1>9 DEF Inv, StatsAreKnown, SameStat
<1>15. StatsAreSeen'
  <2>1. op \in BackupWrite => op.stat = copy.stat
    BY <1>4, <1>5, BackupOps
  <2> QED
    BY <1>1, <1>7, <1>9, <2>1 DEF Inv, StatsAreSeen, SameStat
<1>16. ReadingIsStale'
  BY <1>1, <1>9, <1>10 DEF Inv, ReadingIsStale, SameContent
<1>17. CleanIsUpToDate'
  BY <1>1, <1>9, <1>10 DEF Inv, CleanIsUpToDate, ReloadQueued, WillLoad, SameContent, SameStat
<1>18. TrackerFollows'
  BY <1>1, <1>6, <1>7, <1>10 DEF Inv, TrackerFollows, Followed
<1>19. op \in BackupWrite => op.version = copy.versionId /\ op.text = copy.text
  BY <1>4, <1>5, BackupOps
<1>20. BackupsAreOfVersions'
  <2>1. d.versionId = copy.versionId /\ d.text = copy.text /\ copy.versionId <= copy.versionId
    BY <1>2, <1>9 DEF SameContent
  <2> QED
    BY <1>1, <1>7, <1>19, <2>1 DEF Inv, BackupsAreOfVersions, BackedUp
<1>21. LeavingIsBackedUp'
  <2>1. d.versionId = copy.versionId /\ d.text = copy.text /\ copy.versionId <= copy.versionId
    BY <1>2, <1>9 DEF SameContent
  <2>2. leaving # Nothing => leaving <= d.versionId
    BY <1>3, <2>1
  <2>3. ASSUME leaving = copy.versionId, op = Nothing
        PROVE  \/ tracker.io \in BackupWrite /\ tracker.io.version = copy.versionId
               \/ tracker.io = Nothing /\ BackedUp
    <3>1. tracker.io # DeleteOp /\ copy.dirty
      BY <1>2, <1>3, <2>3
    <3>2. tracker.cache # Nothing /\ tracker.cache.version = copy.versionId
      BY <1>4, <1>5, <2>3, BackupOps
    <3>3. tracker.io = Nothing \/ tracker.io \in BackupWrite
      BY <1>2, <3>1, BackupOps DEF Tracker
    <3>4. CASE tracker.io = Nothing
      BY <3>2, <3>4 DEF Inv, BackupsAreOfVersions
    <3>5. CASE tracker.io \in BackupWrite
      <4>1. copy.versionId <= tracker.io.version /\ tracker.io.version <= copy.versionId
        BY <1>1, <3>2, <3>5 DEF Inv, BackupsAreOfVersions
      <4>2. tracker.io.version \in Nat
        BY <3>5, BackupOps
      <4>3. tracker.io.version = copy.versionId
        BY <1>2, <4>1, <4>2
      <4> QED
        BY <3>5, <4>3
    <3> QED
      BY <3>3, <3>4, <3>5
  <2>4. ASSUME leaving = copy.versionId
        PROVE  op = Nothing \/ (op \in BackupWrite /\ op.version = copy.versionId)
    <3>1. copy.dirty
      BY <1>2, <1>3, <2>4
    <3> QED
      BY <1>4, <1>5, <3>1
  <2>5. BackedUp' = BackedUp
    BY <1>1, <2>1 DEF BackedUp
  <2> QED
    BY <1>1, <1>7, <1>9, <2>1, <2>2, <2>3, <2>4, <2>5 DEF LeavingIsBackedUp
<1> QED
  BY <1>11, <1>12, <1>13, <1>14, <1>15, <1>16, <1>17, <1>18, <1>20, <1>21 DEF Inv

(* A window without a copy: none that matters, until the next one opens.   *)
LEMMA ResolvedAnew ==
  ASSUME Inv, NEW text \in Text, NEW stat \in Stat, NEW dirty \in BOOLEAN, IsResolved(copy', text, stat, dirty),
         Seen(stat, file), ~dirty => stat = file /\ text = file.text,
         saving' = NoSaves, reading' = Nothing, reverting' = Nothing, reloads' = 0,
         UNCHANGED <<file, externals, backup, edits>>, event' \in BOOLEAN, faults' \in 0..MaxFaults,
         \/ tracker' = Idle /\ ~dirty /\ life' \in {"closed", "open"} /\ (life' = "open" => backup = Nothing)
         \/ /\ tracker' = ScheduleBackup([Idle EXCEPT !.cache = [version |-> 0, stat |-> stat]])
            /\ dirty /\ backup # Nothing /\ backup.text = text /\ life' = "open"
  PROVE  Inv'
<1> DEFINE cache == [version |-> 0, stat |-> stat]
<1>1. Idle \in Tracker /\ Idle.next = Nothing /\ Idle.io = Nothing /\ Idle.cache = Nothing
  BY DEF Idle, Tracker
<1>2. cache \in Cached /\ cache.version = 0 /\ cache # Nothing
  <2>1. cache \in Cached
    BY DEF Cached
  <2> QED
    BY <2>1
<1> HIDE DEF cache
<1>3. LET t == ScheduleBackup([Idle EXCEPT !.cache = cache])
      IN  t \in Tracker /\ t.next = Scheduled /\ t.io = Nothing /\ t.cache = cache
  <2> DEFINE u == [Idle EXCEPT !.cache = cache]
  <2>1. u \in Tracker /\ u.io = Nothing /\ u.cache = cache
    BY <1>1, <1>2 DEF Tracker
  <2> HIDE DEF u
  <2>2. /\ ScheduleBackup(u) \in Tracker /\ ScheduleBackup(u).next = Scheduled
        /\ ScheduleBackup(u).io = u.io /\ ScheduleBackup(u).cache = u.cache
    BY <2>1 DEF ScheduleBackup, Tracker
  <2> QED
    BY <2>1, <2>2 DEF u
<1>4. \/ /\ tracker' \in Tracker /\ tracker'.next = Nothing /\ tracker'.io = Nothing /\ tracker'.cache = Nothing
         /\ ~dirty /\ life' \in {"closed", "open"} /\ (life' = "open" => backup = Nothing)
      \/ /\ tracker' \in Tracker /\ tracker'.next = Scheduled /\ tracker'.io = Nothing /\ tracker'.cache = cache
         /\ dirty /\ backup # Nothing /\ backup.text = text /\ life' = "open"
  BY <1>1, <1>3 DEF cache
<1>5. /\ copy' \in Copy /\ copy'.text = text /\ copy'.versionId = 0 /\ copy'.stat = stat
      /\ copy'.known = {stat.text} /\ copy'.leaving = Nothing
  BY DEF IsResolved
<1>6. copy'.dirty = dirty /\ copy'.by = IF dirty THEN "backup" ELSE "load"
  BY DEF IsResolved
<1>7. TypeOK'
  <2>1. saving' \in Saving /\ tracker' \in Tracker /\ life' \in {"open", "closing", "closed"}
    BY <1>4, NoSavesEffect
  <2>2. reloads' \in 0..2
    OBVIOUS
  <2> QED
    BY <1>5, <2>1, <2>2 DEF Inv, TypeOK
<1>8. ErrorIsDirty'
  BY DEF IsResolved, ErrorIsDirty
<1>9. ClosedIsIdle'
  BY <1>4 DEF ClosedIsIdle
<1>10. SavesAreQueued' /\ saving'.ops = {}
  BY NoSavesEffect
<1>11. StatsAreSeen'
  BY <1>4, <1>5, <1>10, BackupOps DEF Inv, StatsAreSeen
<1>12. StatsAreKnown' /\ ReadingIsStale'
  BY <1>5, <1>10 DEF StatsAreKnown, ReadingIsStale
<1>13. CleanIsUpToDate'
  BY <1>5, <1>6, <1>10 DEF CleanIsUpToDate
<1>14. TrackerFollows'
  <2>1. copy'.by # "failed revert"
    BY <1>6
  <2> QED
    BY <1>4, <1>6, <2>1, BackupOps DEF TrackerFollows, Followed
<1>15. BackupsAreOfVersions'
  <2>1. BackedUp' <=> backup # Nothing /\ backup.text = text
    BY <1>5 DEF BackedUp
  <2>2. tracker'.cache # Nothing => tracker'.cache.version <= copy'.versionId
    BY <1>2, <1>4, <1>5
  <2> QED
    BY <1>4, <2>1, <2>2, BackupOps DEF BackupsAreOfVersions
<1>16. LeavingIsBackedUp'
  BY <1>4, <1>5 DEF LeavingIsBackedUp
<1> QED
  BY <1>7, <1>8, <1>9, <1>10, <1>11, <1>12, <1>13, <1>14, <1>15, <1>16 DEF Inv

LEMMA LeaveStep ==
  ASSUME Inv, Leave, faults' \in 0..MaxFaults
  PROVE  Inv'
<1>1. file \in Stat /\ file.text \in Text /\ event \in BOOLEAN
  BY DEF Inv, TypeOK, Stat
<1>2. /\ life' = "closed" /\ saving' = NoSaves /\ reading' = Nothing /\ reverting' = Nothing /\ reloads' = 0
      /\ tracker' = Idle /\ copy' = Resolved(file.text, file, FALSE)
      /\ UNCHANGED <<file, event, externals, backup, edits>>
  BY DEF Leave, fileVars
<1>3. IsResolved(copy', file.text, file, FALSE)
  BY <1>1, <1>2, ResolvedEffect
<1>4. Seen(file, file)
  BY <1>1 DEF Seen, Stat
<1> QED
  BY <1>1, <1>2, <1>3, <1>4, ResolvedAnew

LEMMA RestartStep == Inv /\ Restart => Inv'
<1> SUFFICES ASSUME Inv, Restart PROVE Inv'
  OBVIOUS
<1>1. /\ life = "closed" /\ life' = "open" /\ event' = FALSE
      /\ UNCHANGED <<file, externals, saving, reading, reverting, reloads, backup, edits, faults>>
  BY DEF Restart
<1>2. file \in Stat /\ file.text \in Text /\ faults \in 0..MaxFaults
  BY DEF Inv, TypeOK, Stat
<1>3. saving = NoSaves /\ reading = Nothing /\ reverting = Nothing /\ reloads = 0 /\ tracker = Idle
  BY <1>1 DEF Inv, ClosedIsIdle
<1>4. CASE /\ backup # Nothing /\ copy' = Resolved(backup.text, backup.stat, TRUE)
           /\ tracker' = ScheduleBackup([Idle EXCEPT !.cache = [version |-> 0, stat |-> backup.stat]])
  <2>1. backup.text \in Text /\ backup.stat \in Stat /\ Seen(backup.stat, file)
    BY <1>4 DEF Inv, TypeOK, Backup, StatsAreSeen
  <2>2. IsResolved(copy', backup.text, backup.stat, TRUE)
    BY <1>4, <2>1, ResolvedEffect
  <2> QED
    BY <1>1, <1>2, <1>3, <1>4, <2>1, <2>2, ResolvedAnew
<1>5. CASE backup = Nothing /\ copy' = Resolved(file.text, file, FALSE) /\ UNCHANGED tracker
  <2>1. IsResolved(copy', file.text, file, FALSE)
    BY <1>2, <1>5, ResolvedEffect
  <2>2. Seen(file, file)
    BY <1>2 DEF Seen, Stat
  <2> QED
    BY <1>1, <1>2, <1>3, <1>5, <2>1, <2>2, ResolvedAnew
<1> QED
  BY <1>4, <1>5 DEF Restart

----------------------------------------------------------------------------
LEMMA NextInv == Inv /\ [Next]_vars => Inv'
<1> SUFFICES ASSUME Inv, [Next]_vars PROVE Inv'
  OBVIOUS
<1>1. CASE Edit
  BY <1>1, EditStep
<1>2. CASE Undo
  BY <1>2, UndoStep
<1>3. CASE \E auto, overwrite \in BOOLEAN : Save(auto, overwrite)
  BY <1>3, SaveStarts
<1>4. CASE SaveStep
  BY <1>4, ParticipantsDoneStep, WriteFileStep, HandleSaveSuccessStep DEF SaveStep
<1>5. CASE ExternalWrite
  BY <1>5, ExternalWriteStep
<1>6. CASE FileEvent
  BY <1>6, FileEventStep
<1>7. CASE StartReload
  BY <1>7, StartReloadStep
<1>8. CASE Revert
  BY <1>8, RevertStep
<1>9. CASE StartRevertReading
  BY <1>9, StartRevertReadingStep
<1>10. CASE ReadFile
  BY <1>10, ReadFileStep
<1>11. CASE ReadFails
  BY <1>11, ReadFailsStep
<1>12. CASE ScheduledBackup
  BY <1>12, ScheduledBackupStep
<1>13. CASE BackupIoStarts
  BY <1>13, BackupIoStartsStep
<1>14. CASE BackupIoEnds
  BY <1>14, BackupIoEndsStep
<1>15. CASE BeforeShutdown
  BY <1>15, BeforeShutdownStep
<1>16. CASE Shutdown
  <2>1. faults' \in 0..MaxFaults
    BY <1>16 DEF Shutdown, Inv, TypeOK
  <2> QED
    BY <1>16, <2>1, LeaveStep DEF Shutdown
<1>17. CASE Crash
  <2>1. faults' \in 0..MaxFaults
    BY <1>17 DEF Crash, Inv, TypeOK
  <2> QED
    BY <1>17, <2>1, LeaveStep DEF Crash
<1>18. CASE Restart
  BY <1>18, RestartStep
<1>19. CASE UNCHANGED vars
  <2>1. UNCHANGED <<file, event, copy, saving, reading, reverting, reloads, tracker, backup, life, edits, externals, faults>>
    BY <1>19 DEF vars
  <2>2. TypeOK' /\ ErrorIsDirty' /\ ClosedIsIdle' /\ SavesAreQueued' /\ StatsAreSeen' /\ StatsAreKnown'
    BY <2>1 DEF Inv, TypeOK, ErrorIsDirty, ClosedIsIdle, SavesAreQueued, StatsAreSeen, StatsAreKnown
  <2>3. ReadingIsStale' /\ CleanIsUpToDate'
    BY <2>1 DEF Inv, ReadingIsStale, CleanIsUpToDate, ReloadQueued, WillLoad
  <2>4. TrackerFollows' /\ BackupsAreOfVersions' /\ LeavingIsBackedUp'
    BY <2>1, BackupStays DEF Inv
  <2> QED
    BY <2>2, <2>3, <2>4 DEF Inv
<1> QED
  BY <1>1, <1>2, <1>3, <1>4, <1>5, <1>6, <1>7, <1>8, <1>9, <1>10, <1>11, <1>12, <1>13, <1>14, <1>15,
     <1>16, <1>17, <1>18, <1>19 DEF Next

LEMMA Invariant == Spec => []Inv
<1>1. Init => Inv
  BY InitInv
<1>2. Inv /\ [Next]_vars => Inv'
  BY NextInv
<1> QED
  BY <1>1, <1>2, PTL DEF Spec

----------------------------------------------------------------------------
(* The types, and that what has a conflict or an error is dirty.           *)
THEOREM TypeCorrect == Spec => []TypeOK
<1>1. Inv => TypeOK
  BY DEF Inv
<1> QED
  BY <1>1, Invariant, PTL

THEOREM ErrorsKeepTheCopyDirty == Spec => []ErrorIsDirty
<1>1. Inv => ErrorIsDirty
  BY DEF Inv
<1> QED
  BY <1>1, Invariant, PTL

(* "Never ever do two saves execute at the same time" (doSave of           *)
(* storedFileWorkingCopy.ts): a save is queued behind the one it cancels,  *)
(* and what becomes of its task id when participants edit does not free    *)
(* the sequentializer early.                                               *)
THEOREM OneSaveAtATime == Spec => []SavesDoNotOverlap
<1>1. Inv => SavesDoNotOverlap
  <2> SUFFICES ASSUME Inv PROVE Cardinality(saving.ops) <= 1
    BY DEF SavesDoNotOverlap
  <2>1. CASE saving.ops = {}
    BY <2>1, FS_EmptySet
  <2>2. ASSUME NEW op \in saving.ops
        PROVE  Cardinality(saving.ops) <= 1
    <3>1. saving.ops = {op}
      BY SavingIs DEF Inv
    <3> QED
      BY <3>1, FS_Singleton
  <2> QED
    BY <2>1, <2>2
<1> QED
  BY <1>1, Invariant, PTL

(* A copy that is clean because it was loaded or saved shows the file once *)
(* nothing is under way: the stat it holds is the file's and its text that *)
(* of the stat.                                                            *)
THEOREM CleanCopiesShowTheFile == Spec => []CleanIsOnDisk
<1>1. Inv => CleanIsOnDisk
  BY DEF Inv, CleanIsUpToDate, CleanIsOnDisk, Quiet, ReloadQueued, WillLoad
<1> QED
  BY <1>1, Invariant, PTL

(* With no backup operation pending, the backup is that of the copy.       *)
THEOREM BackupsAreCurrent == Spec => []BackupIsCurrent
<1>1. Inv => BackupIsCurrent
  BY DEF Inv, TrackerFollows, Followed, BackedUp, BackupIsCurrent
<1> QED
  BY <1>1, Invariant, PTL

(* A save whose stat is the file's overwrites what the copy knows.         *)
THEOREM SavesOverwriteTheKnown == Spec => NothingUnknownIsOverwritten
<1> DEFINE A == \A op \in saving.ops :
                  WriteFile(op) /\ file' # file /\ ~op.overwrite => file.text \in copy.known \cup {op.text}
<1>1. ASSUME Inv, [Next]_vars
      PROVE  A
  <2> SUFFICES ASSUME NEW op \in saving.ops, WriteFile(op), file' # file, ~op.overwrite
               PROVE  file.text \in copy.known \cup {op.text}
    OBVIOUS
  <2>1. ~ModifiedSince(op)
    BY DEF WriteFile
  <2>2. op.base.text \in copy.known /\ Seen(op.base, file)
    BY <1>1 DEF Inv, StatsAreKnown, StatsAreSeen
  <2>3. op.base \in Stat /\ file \in Stat
    BY <1>1 DEF Inv, TypeOK, Saving, Op
  <2>4. op.base.mtime < file.mtime \/ op.base = file
    BY <2>2, <2>3 DEF Seen, Stat
  <2> QED
    BY <2>1, <2>2, <2>4 DEF ModifiedSince
<1>2. Inv /\ [Next]_vars => [A]_vars
  BY <1>1
<1> QED
  BY <1>2, Invariant, PTL DEF Spec, NothingUnknownIsOverwritten

(* What is dirty when the shutdown begins, and stays so, is in the backup  *)
(* when the window goes.                                                   *)
THEOREM HotExitKeepsTheUnsaved == Spec => HotExit
<1> DEFINE A == Shutdown /\ copy.dirty /\ copy.leaving = copy.versionId
                  => backup # Nothing /\ backup.text = copy.text
<1>1. Inv /\ [Next]_vars => [A]_vars
  BY BackupOps DEF Inv, Shutdown, LeavingIsBackedUp, BackedUp
<1> QED
  BY <1>1, Invariant, PTL DEF Spec, HotExit

=============================================================================
