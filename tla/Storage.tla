------------------------------- MODULE Storage -------------------------------
(***************************************************************************)
(* Storage of base/parts/storage/common/storage.ts: a cache of items that  *)
(* writes its changes behind to a database, with the ThrottledDelayer that *)
(* runs its flushes.  A window's storage has the main process for its      *)
(* database, that of the main process an SQLite file.                      *)
(*                                                                         *)
(* Each method is an operator on the fields of one storage.  The request   *)
(* of the flush under way is in "active"; SharedStorage hands it to the    *)
(* database and calls UpdateDone when that has answered.                   *)
(***************************************************************************)
EXTENDS Naturals, Sequences

CONSTANTS
  Key, Value,
  Absent  \* in place of the value of a key that has none

ASSUME AbsentAssumption == Absent \notin Value

Items == [Key -> Value \cup {Absent}]
NoItems == [k \in Key |-> Absent]

\* IUpdateRequest.
Request == [insert : Items, delete : SUBSET Key]
NoRequest == [insert |-> NoItems, delete |-> {}]

\* updateItems: first the insertions, then the deletions.
Updated(items, r) ==
  [k \in Key |-> IF k \in r.delete THEN Absent
                 ELSE IF r.insert[k] # Absent THEN r.insert[k]
                 ELSE items[k]]

\* triggered: the delayer will hand a flush to the throttler.  queued: the
\* throttler has a flush to run after the active one.  closing: what doClose
\* awaits, the delayer, a flush it has started or one queued behind another.
StorageType ==
  [closed : BOOLEAN, cache : Items, pendingInserts : Items, pendingDeletes : SUBSET Key,
   triggered : BOOLEAN, active : Request, queued : BOOLEAN,
   closing : {"no", "delayed", "flushing", "queued", "queuedFlush", "flushed", "never"}]

\* No key is to be inserted and deleted by one update.
Disjoint(r) == \A k \in r.delete : r.insert[k] = Absent

NewStorage(items) ==
  [closed |-> FALSE, cache |-> items, pendingInserts |-> NoItems, pendingDeletes |-> {},
   triggered |-> FALSE, active |-> NoRequest, queued |-> FALSE, closing |-> "no"]

----------------------------------------------------------------------------
Pending(s) == [insert |-> s.pendingInserts, delete |-> s.pendingDeletes]
HasPending(s) == Pending(s) # NoRequest
Flushing(s) == s.active # NoRequest

\* The keys whose value set and delete find different.
Changed(s, items) == {k \in Key : items[k] # s.cache[k]}

\* Mutant: set does not take back the pending deletion.
StoreKeepingDeletes(s, items) ==
  LET ks == Changed(s, items) IN
  IF s.closed \/ ks = {} THEN s
  ELSE [s EXCEPT
          !.cache = items,
          !.pendingInserts = [k \in Key |-> IF k \in ks THEN items[k] ELSE @[k]],
          !.pendingDeletes = @ \cup {k \in ks : items[k] = Absent},
          !.triggered = TRUE]

\* set and delete, for every key that is given another value than it has.
Store(s, items) ==
  LET ks == Changed(s, items) IN
  IF s.closed \/ ks = {} THEN s
  ELSE [s EXCEPT
          !.cache = items,
          !.pendingInserts = [k \in Key |-> IF k \in ks THEN items[k] ELSE @[k]],
          !.pendingDeletes = (@ \ ks) \cup {k \in ks : items[k] = Absent},
          !.triggered = TRUE]

\* acceptExternal, for every key of an event.
AcceptExternal(s, event) ==
  IF s.closed THEN s
  ELSE [s EXCEPT !.cache = [k \in Key |-> IF k \in DOMAIN event THEN event[k] ELSE @[k]]]

\* flush and optimize, whether or not anything is pending.
Flush(s) == IF s.closed THEN s ELSE [s EXCEPT !.triggered = TRUE]

\* Mutant: a flush with nothing to do never reports back.
FlushPendingSilently(s, awaited, during) ==
  [s EXCEPT
     !.active = Pending(s),
     !.pendingInserts = NoItems,
     !.pendingDeletes = {},
     !.closing = IF @ # awaited THEN @ ELSE during]

\* flushPending.  A close that awaits this run goes on with "during", or at
\* once if nothing is pending.
FlushPending(s, awaited, during) ==
  [s EXCEPT
     !.active = Pending(s),
     !.pendingInserts = NoItems,
     !.pendingDeletes = {},
     !.closing = IF @ # awaited THEN @ ELSE IF HasPending(s) THEN during ELSE "flushed"]

\* Mutant: no throttler, a flush starts while another is under way.
DelayIsOverUnthrottled(s) == FlushPending([s EXCEPT !.triggered = FALSE], "delayed", "flushing")

\* The delay of ThrottledDelayer is over: Throttler.queue.
DelayIsOver(s) ==
  LET t == [s EXCEPT !.triggered = FALSE] IN
  IF Flushing(s)
  THEN [t EXCEPT !.queued = TRUE, !.closing = IF @ = "delayed" THEN "queued" ELSE @]
  ELSE FlushPending(t, "delayed", "flushing")

\* Mutant: the flush queued behind the active one is forgotten.
UpdateDoneForgetting(s, ok) ==
  [s EXCEPT !.active = NoRequest, !.queued = FALSE,
            !.closing = IF @ \in {"flushing", "queued"} THEN "flushed" ELSE @]

\* The database has answered; ok unless it rejected the update.  What was
\* rejected is forgotten.  The throttler's queuedPromise is never settled
\* when the queued run is rejected.
UpdateDone(s, ok) ==
  LET t == [s EXCEPT !.active = NoRequest,
                     !.queued = FALSE,
                     !.closing = CASE @ = "flushing" -> "flushed"
                                   [] @ = "queuedFlush" -> IF ok THEN "flushed" ELSE "never"
                                   [] OTHER -> @]
  IN IF s.queued THEN FlushPending(t, "queued", "queuedFlush") ELSE t

\* close: no more changes, one more flush.
Close(s) == [s EXCEPT !.closed = TRUE, !.triggered = TRUE, !.closing = "delayed"]
=============================================================================
