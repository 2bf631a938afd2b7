---------------------------- MODULE SharedStorage ----------------------------
(***************************************************************************)
(* The application storage of all windows and the main process: a Storage  *)
(* in each window (StorageService, ApplicationStorageDatabaseClient), one  *)
(* in the main process (ApplicationStorageMain, StorageDatabaseChannel)    *)
(* and the SQLite file behind it (SQLiteStorageDatabase) with its backup.  *)
(*                                                                         *)
(* A window updates the main process by requests; the main process tells   *)
(* every window of each change, the window it came from included, after a  *)
(* debounce.  The IPC channels keep the order.                             *)
(***************************************************************************)
EXTENDS Storage

CONSTANTS
  Window,
  NoBackup,   \* there is no backup file
  MaxCalls,   \* how often a value is stored or a flush asked for
  MaxFaults   \* how often a process dies or the file fails

ASSUME NoBackupAssumption == NoBackup \notin Items
ASSUME BoundsAssumption == MaxCalls \in Nat /\ MaxFaults \in Nat

VARIABLES
  window,    \* the storage of each window
  life,      \* of each window
  main,      \* the storage of the main process
  mainLife,  \* of the main process and how it ended last
  disk,      \* the items in the file
  backup,    \* and in its backup
  erroneous, \* isErroneous of the open connection to the file
  changed,   \* keys whose change the debouncer holds
  toMain,    \* per window, requests under way
  toWindow,  \* per window, answers and events under way
  calls, faults

windowVars == <<window, life>>
mainVars == <<main, mainLife, changed>>
fileVars == <<disk, backup, erroneous>>
vars == <<windowVars, mainVars, fileVars, toMain, toWindow, calls, faults>>

GetItems == [type |-> "getItems", request |-> NoRequest]
UpdateItems(r) == [type |-> "updateItems", request |-> r]
ItemsAre(items) == [type |-> "items", items |-> items]
UpdateIsDone == [type |-> "updated", items |-> NoItems]
ChangeEvent(items) == [type |-> "changed", items |-> items]

ToMain == [type : {"getItems", "updateItems"}, request : Request]
ToWindow ==
  [type : {"items", "updated"}, items : Items]
    \cup [type : {"changed"}, items : UNION {[ks -> Value \cup {Absent}] : ks \in SUBSET Key}]

Init ==
  /\ window = [w \in Window |-> NewStorage(NoItems)]
  /\ life = [w \in Window |-> "closed"]
  /\ main = NewStorage(NoItems)
  /\ mainLife = "up"
  /\ disk = NoItems
  /\ backup = NoBackup
  /\ erroneous = FALSE
  /\ changed = {}
  /\ toMain = [w \in Window |-> <<>>]
  /\ toWindow = [w \in Window |-> <<>>]
  /\ calls = 0
  /\ faults = 0

Call == calls < MaxCalls /\ calls' = calls + 1
Fault == faults < MaxFaults /\ faults' = faults + 1

----------------------------------------------------------------------------
(* Windows *)

\* The storage of a new window asks for the items; its client listens to
\* changes already.
WindowOpens(w) ==
  /\ mainLife = "up" /\ ~main.closed
  /\ life[w] = "closed"
  /\ Call
  /\ life' = [life EXCEPT ![w] = "loading"]
  /\ window' = [window EXCEPT ![w] = NewStorage(NoItems)]
  /\ toMain' = [toMain EXCEPT ![w] = <<GetItems>>]
  /\ UNCHANGED <<mainVars, fileVars, toWindow, faults>>

\* store and remove.  The workbench starts when the items are there.
WindowStores(w, k, v) ==
  /\ life[w] = "open"
  /\ Call
  /\ window' = [window EXCEPT ![w] = Store(@, [@.cache EXCEPT ![k] = v])]
  /\ UNCHANGED <<life, mainVars, fileVars, toMain, toWindow, faults>>

WindowFlushes(w) ==
  /\ life[w] = "open"
  /\ Call
  /\ window' = [window EXCEPT ![w] = Flush(@)]
  /\ UNCHANGED <<life, mainVars, fileVars, toMain, toWindow, faults>>

\* The storage of window w becomes s, which may have begun a flush.
BecomesFlushing(w, s) ==
  /\ window' = [window EXCEPT ![w] = s]
  /\ toMain' = IF Flushing(s) /\ toMain[w] = <<>>
               THEN [toMain EXCEPT ![w] = <<UpdateItems(s.active)>>] ELSE toMain

WindowDelayIsOver(w) ==
  /\ window[w].triggered
  /\ life[w] # "closed"
  /\ IF Flushing(window[w])
     THEN window' = [window EXCEPT ![w] = DelayIsOver(@)] /\ UNCHANGED toMain
     ELSE BecomesFlushing(w, DelayIsOver(window[w]))
  /\ UNCHANGED <<life, mainVars, fileVars, toWindow, calls, faults>>

WindowReceives(w) ==
  LET m == Head(toWindow[w])
      s == window[w]
  IN /\ toWindow[w] # <<>>
     /\ toWindow' = [toWindow EXCEPT ![w] = Tail(@)]
     /\ CASE m.type = "items" ->
               /\ window' = [window EXCEPT ![w].cache = m.items]
               /\ life' = [life EXCEPT ![w] = "open"]
               /\ UNCHANGED toMain
          [] m.type = "updated" -> BecomesFlushing(w, UpdateDone(s, TRUE)) /\ UNCHANGED life
          [] OTHER ->
               /\ window' = [window EXCEPT ![w] = AcceptExternal(@, m.items)]
               /\ UNCHANGED <<life, toMain>>
     /\ UNCHANGED <<mainVars, fileVars, calls, faults>>

\* close: the window waits for its storage to be flushed.
WindowCloses(w) ==
  /\ life[w] = "open"
  /\ life' = [life EXCEPT ![w] = "closing"]
  /\ window' = [window EXCEPT ![w] = Close(@)]
  /\ UNCHANGED <<mainVars, fileVars, toMain, toWindow, calls, faults>>

\* Window w is gone, with all that was under way.
WindowEnds(w) ==
  /\ life' = [life EXCEPT ![w] = "closed"]
  /\ window' = [window EXCEPT ![w] = NewStorage(NoItems)]
  /\ toMain' = [toMain EXCEPT ![w] = <<>>]
  /\ toWindow' = [toWindow EXCEPT ![w] = <<>>]
  /\ UNCHANGED <<mainVars, fileVars, calls>>

WindowClosed(w) == life[w] = "closing" /\ window[w].closing = "flushed" /\ WindowEnds(w) /\ UNCHANGED faults
WindowCrashes(w) == life[w] # "closed" /\ Fault /\ WindowEnds(w)

----------------------------------------------------------------------------
(* The main process *)

\* The main process stores items: the debouncer notes the changes.
MainStoresItems(items) ==
  /\ main' = Store(main, items)
  /\ changed' = IF main.closed THEN changed ELSE changed \cup Changed(main, items)
  /\ UNCHANGED mainLife

\* A value of its own.
MainStores(k, v) ==
  /\ mainLife = "up"
  /\ Call
  /\ MainStoresItems([main.cache EXCEPT ![k] = v])
  /\ UNCHANGED <<windowVars, fileVars, toMain, toWindow, faults>>

\* StorageDatabaseChannel.call.
MainReceives(w) ==
  LET m == Head(toMain[w]) IN
  /\ toMain[w] # <<>>
  /\ toMain' = [toMain EXCEPT ![w] = Tail(@)]
  /\ IF m.type = "getItems"
     THEN /\ toWindow' = [toWindow EXCEPT ![w] = Append(@, ItemsAre(main.cache))]
          /\ UNCHANGED mainVars
     ELSE /\ toWindow' = [toWindow EXCEPT ![w] = Append(@, UpdateIsDone)]
          /\ MainStoresItems(Updated(main.cache, m.request))
  /\ UNCHANGED <<windowVars, fileVars, calls, faults>>

\* Mutant: windows that are still loading are not told.
ChangeEventFiresLate ==
  /\ changed # {}
  /\ toWindow' = [w \in Window |->
       IF life[w] \in {"closed", "loading"} THEN toWindow[w]
       ELSE Append(toWindow[w], ChangeEvent([k \in changed |-> main.cache[k]]))]
  /\ changed' = {}
  /\ UNCHANGED <<windowVars, main, mainLife, fileVars, toMain, calls, faults>>

\* The debounced event, with the values of now, for every window.
ChangeEventFires ==
  /\ changed # {}
  /\ toWindow' = [w \in Window |->
       IF life[w] = "closed" THEN toWindow[w]
       ELSE Append(toWindow[w], ChangeEvent([k \in changed |-> main.cache[k]]))]
  /\ changed' = {}
  /\ UNCHANGED <<windowVars, main, mainLife, fileVars, toMain, calls, faults>>

MainFlushes ==
  /\ mainLife = "up"
  /\ Call
  /\ main' = Flush(main)
  /\ UNCHANGED <<windowVars, mainLife, changed, fileVars, toMain, toWindow, faults>>

MainDelayIsOver ==
  /\ main.triggered
  /\ main' = DelayIsOver(main)
  /\ UNCHANGED <<windowVars, mainLife, changed, fileVars, toMain, toWindow, calls, faults>>

----------------------------------------------------------------------------
(* The file *)

DiskUpdates ==
  /\ Flushing(main)
  /\ disk' = Updated(disk, main.active)
  /\ main' = UpdateDone(main, TRUE)
  /\ UNCHANGED <<windowVars, mainLife, changed, backup, erroneous, toMain, toWindow, calls, faults>>

\* The transaction fails and the update is rejected, or one of its
\* statements does, which is noted but not reported.
DiskUpdateFails ==
  /\ Flushing(main)
  /\ Fault
  /\ erroneous' = TRUE
  /\ \/ main' = UpdateDone(main, FALSE) /\ UNCHANGED disk
     \/ /\ main' = UpdateDone(main, TRUE)
        /\ disk' \in {Updated(disk, [main.active EXCEPT !.insert = NoItems]),
                      Updated(disk, [main.active EXCEPT !.delete = {}])}
  /\ UNCHANGED <<windowVars, mainLife, changed, backup, toMain, toWindow, calls>>

\* onWillShutdown: the windows have gone, the storage is closed.
MainCloses ==
  /\ mainLife = "up" /\ ~main.closed
  /\ \A w \in Window : life[w] = "closed"
  /\ main' = Close(main)
  /\ UNCHANGED <<windowVars, mainLife, changed, fileVars, toMain, toWindow, calls, faults>>

\* Mutant: a file with errors is kept as it is.
DatabaseClosesAsIs ==
  /\ mainLife = "up" /\ main.closing = "flushed"
  /\ backup' = disk
  /\ mainLife' = "saved"
  /\ changed' = {}
  /\ UNCHANGED <<windowVars, main, disk, erroneous, toMain, toWindow, calls, faults>>

\* doClose of the database: a backup of a file that had no errors; a file
\* that had is written anew from the cache, then saved as well.  A backup
\* that fails is ignored.
DatabaseCloses ==
  /\ mainLife = "up" /\ main.closing = "flushed"
  /\ disk' = IF erroneous THEN main.cache ELSE disk
  /\ \/ backup' = disk' /\ UNCHANGED faults
     \/ backup' \in {backup, NoBackup} /\ Fault
  /\ mainLife' = "saved"
  /\ changed' = {}
  /\ UNCHANGED <<windowVars, main, erroneous, toMain, toWindow, calls>>

\* The file is removed and cannot be written again.
RecoveryFails ==
  /\ mainLife = "up" /\ main.closing = "flushed" /\ erroneous
  /\ disk' = NoItems
  /\ mainLife' = "failed"
  /\ changed' = {}
  /\ UNCHANGED <<windowVars, main, backup, erroneous, toMain, toWindow, calls, faults>>

\* The main process dies, or is killed, and the windows with it.
MainCrashes ==
  /\ mainLife = "up"
  /\ Fault
  /\ mainLife' = "crashed"
  /\ main' = NewStorage(NoItems)
  /\ changed' = {}
  /\ window' = [w \in Window |-> NewStorage(NoItems)]
  /\ life' = [w \in Window |-> "closed"]
  /\ toMain' = [w \in Window |-> <<>>]
  /\ toWindow' = [w \in Window |-> <<>>]
  /\ UNCHANGED <<fileVars, calls>>

\* connect and getItems; a file that cannot be opened is replaced by its
\* backup, if there is one.
MainStarts ==
  /\ mainLife # "up"
  /\ \/ UNCHANGED <<disk, backup, faults>>
     \/ /\ Fault
        /\ disk' = IF backup = NoBackup THEN NoItems ELSE backup
        /\ backup' = NoBackup
  /\ main' = NewStorage(disk')
  /\ mainLife' = "up"
  /\ erroneous' = FALSE
  /\ UNCHANGED <<windowVars, changed, toMain, toWindow, calls>>

----------------------------------------------------------------------------
Stores == \E k \in Key, v \in Value \cup {Absent} :
            MainStores(k, v) \/ \E w \in Window : WindowStores(w, k, v)

\* Everything but storing a value.
Step ==
  \/ \E w \in Window :
       \/ WindowOpens(w) \/ WindowFlushes(w) \/ WindowDelayIsOver(w) \/ WindowReceives(w)
       \/ WindowCloses(w) \/ WindowClosed(w) \/ WindowCrashes(w) \/ MainReceives(w)
  \/ ChangeEventFires \/ MainFlushes \/ MainDelayIsOver
  \/ DiskUpdates \/ DiskUpdateFails
  \/ MainCloses \/ DatabaseCloses \/ RecoveryFails \/ MainCrashes \/ MainStarts

Next == Stores \/ Step

Spec == Init /\ [][Next]_vars

\* Timers fire, messages and answers of the database arrive.
Fairness ==
  /\ \A w \in Window :
       /\ WF_vars(WindowDelayIsOver(w)) /\ WF_vars(WindowReceives(w)) /\ WF_vars(MainReceives(w))
  /\ WF_vars(ChangeEventFires) /\ WF_vars(MainDelayIsOver)
  /\ WF_vars(DiskUpdates) /\ WF_vars(DatabaseCloses)

FairSpec == Spec /\ Fairness

----------------------------------------------------------------------------
(* Properties *)

TypeOK ==
  /\ window \in [Window -> StorageType]
  /\ \A s \in {main} \cup {window[w] : w \in Window} : Disjoint(Pending(s)) /\ Disjoint(s.active)
  /\ life \in [Window -> {"closed", "loading", "open", "closing"}]
  /\ main \in StorageType
  /\ mainLife \in {"up", "saved", "failed", "crashed"}
  /\ disk \in Items
  /\ backup \in Items \cup {NoBackup}
  /\ erroneous \in BOOLEAN
  /\ changed \subseteq Key
  /\ toMain \in [Window -> Seq(ToMain)]
  /\ toWindow \in [Window -> Seq(ToWindow)]
  /\ calls \in 0..MaxCalls
  /\ faults \in 0..MaxFaults

\* Unless an update of the file has failed, the cache of the main process
\* is the file with the update under way and then the pending changes
\* applied: no change is forgotten and none is applied in another order.
UnsavedIsPending ==
  mainLife = "up" /\ ~erroneous =>
    main.cache = Updated(Updated(disk, main.active), Pending(main))

\* A window that has nothing to send, and to which nothing is under way,
\* has the items of the main process, whatever other windows stored.
QuietWindowsAgree ==
  \A w \in Window :
    /\ life[w] = "open" /\ mainLife = "up"
    /\ ~HasPending(window[w]) /\ ~Flushing(window[w])
    /\ toWindow[w] = <<>> /\ changed = {}
    => window[w].cache = main.cache

\* A close that succeeds leaves every item of the cache in the file, even
\* when updates of the file had failed before.
ClosedIsSaved == mainLife = "saved" => disk = main.cache

\* Once nobody stores and nothing fails, all open windows come to agree
\* with the main process, and so with each other.
WindowsAgree ==
  \A w \in Window : <>[](life[w] = "open" => window[w].cache = main.cache)

\* Closing the storage ends, unless the flush of the close was queued
\* behind another and rejected (the throttler then never settles it).
CloseEnds == main.closed ~> mainLife # "up" \/ main.closing = "never"
=============================================================================
