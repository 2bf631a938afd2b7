---------------------------- MODULE StorageProofs ----------------------------
(***************************************************************************)
(* Proofs about SharedStorage, for any windows, keys and values.           *)
(***************************************************************************)
EXTENDS SharedStorage, TLAPS

USE AbsentAssumption, NoBackupAssumption, BoundsAssumption

----------------------------------------------------------------------------
(* The methods of a storage keep its type, and never leave a key to be     *)
(* both inserted and deleted.                                              *)

Sound(s) == s \in StorageType /\ Disjoint(Pending(s)) /\ Disjoint(s.active)

LEMMA NewStorageIsSound ==
  ASSUME NEW items \in Items
  PROVE  Sound(NewStorage(items))
BY DEF Sound, NewStorage, StorageType, Items, NoItems, Request, NoRequest, Disjoint, Pending

LEMMA UpdatedType ==
  ASSUME NEW items \in Items, NEW r \in Request
  PROVE  Updated(items, r) \in Items
BY DEF Updated, Items, Request

LEMMA StoreIsSound ==
  ASSUME NEW s, Sound(s), NEW items \in Items
  PROVE  Sound(Store(s, items))
BY DEF Sound, Store, Changed, StorageType, Items, Disjoint, Pending

LEMMA AcceptExternalIsSound ==
  ASSUME NEW s, Sound(s), NEW ks \in SUBSET Key, NEW event \in [ks -> Value \cup {Absent}]
  PROVE  Sound(AcceptExternal(s, event))
<1>1. [k \in Key |-> IF k \in DOMAIN event THEN event[k] ELSE s.cache[k]] \in Items
  BY DEF Sound, StorageType, Items
<1> QED
  BY <1>1 DEF Sound, AcceptExternal, StorageType, Disjoint, Pending

LEMMA FlushIsSound ==
  ASSUME NEW s, Sound(s)
  PROVE  Sound(Flush(s)) /\ Sound(Close(s))
BY DEF Sound, Flush, Close, StorageType, Disjoint, Pending

LEMMA FlushPendingIsSound ==
  ASSUME NEW s, Sound(s), NEW awaited, NEW during \in {"flushing", "queuedFlush"}
  PROVE  Sound(FlushPending(s, awaited, during))
<1>1. Pending(s) \in Request /\ NoItems \in Items
  BY DEF Sound, Pending, StorageType, Request, NoItems, Items
<1> QED
  BY <1>1 DEF Sound, FlushPending, StorageType, Disjoint, Pending, NoItems

LEMMA DelayIsOverIsSound ==
  ASSUME NEW s, Sound(s)
  PROVE  Sound(DelayIsOver(s))
<1> DEFINE t == [s EXCEPT !.triggered = FALSE]
<1>1. Sound(t)
  BY DEF Sound, StorageType, Disjoint, Pending
<1>2. Sound(FlushPending(t, "delayed", "flushing"))
  BY <1>1, FlushPendingIsSound
<1>3. Sound([t EXCEPT !.queued = TRUE, !.closing = IF @ = "delayed" THEN "queued" ELSE @])
  BY <1>1 DEF Sound, StorageType, Disjoint, Pending
<1> QED
  BY <1>2, <1>3 DEF DelayIsOver

LEMMA UpdateDoneIsSound ==
  ASSUME NEW s, Sound(s), NEW ok \in BOOLEAN
  PROVE  Sound(UpdateDone(s, ok))
<1> DEFINE t == [s EXCEPT !.active = NoRequest,
                          !.queued = FALSE,
                          !.closing = CASE @ = "flushing" -> "flushed"
                                        [] @ = "queuedFlush" -> IF ok THEN "flushed" ELSE "never"
                                        [] OTHER -> @]
<1>1. Sound(t)
  BY DEF Sound, StorageType, Disjoint, Pending, NoRequest, NoItems, Request, Items
<1>2. Sound(FlushPending(t, "queued", "queuedFlush"))
  BY <1>1, FlushPendingIsSound
<1> QED
  BY <1>1, <1>2 DEF UpdateDone

----------------------------------------------------------------------------
(* Types *)

LEMMA TypeAsSound ==
  TypeOK <=>
    /\ window \in [Window -> StorageType] /\ \A w \in Window : Sound(window[w])
    /\ Sound(main)
    /\ life \in [Window -> {"closed", "loading", "open", "closing"}]
    /\ mainLife \in {"up", "saved", "failed", "crashed"}
    /\ disk \in Items
    /\ backup \in Items \cup {NoBackup}
    /\ erroneous \in BOOLEAN
    /\ changed \subseteq Key
    /\ toMain \in [Window -> Seq(ToMain)]
    /\ toWindow \in [Window -> Seq(ToWindow)]
    /\ calls \in 0..MaxCalls
    /\ faults \in 0..MaxFaults
BY DEF TypeOK, Sound

LEMMA CountersStay ==
  ASSUME TypeOK
  PROVE  /\ Call => calls' \in 0..MaxCalls
         /\ Fault => faults' \in 0..MaxFaults
BY DEF TypeOK, Call, Fault

LEMMA MessageTypes ==
  /\ GetItems \in ToMain
  /\ \A r \in Request : UpdateItems(r) \in ToMain
  /\ UpdateIsDone \in ToWindow
  /\ \A items \in Items : ItemsAre(items) \in ToWindow
  /\ \A items \in Items, ks \in SUBSET Key : ChangeEvent([k \in ks |-> items[k]]) \in ToWindow
<1>1. NoRequest \in Request /\ NoItems \in Items
  BY DEF NoRequest, Request, NoItems, Items
<1>2. ASSUME NEW items \in Items, NEW ks \in SUBSET Key
      PROVE  ChangeEvent([k \in ks |-> items[k]]) \in ToWindow
  <2>1. [k \in ks |-> items[k]] \in [ks -> Value \cup {Absent}]
    BY DEF Items
  <2> QED
    BY <2>1 DEF ChangeEvent, ToWindow
<1> QED
  BY <1>1, <1>2 DEF GetItems, UpdateItems, UpdateIsDone, ItemsAre, ToMain, ToWindow

LEMMA BecomesFlushingType ==
  ASSUME TypeOK, NEW w \in Window, NEW s, Sound(s), BecomesFlushing(w, s)
  PROVE  /\ window' \in [Window -> StorageType] /\ \A x \in Window : Sound(window'[x])
         /\ toMain' \in [Window -> Seq(ToMain)]
<1>1. window' \in [Window -> StorageType] /\ \A x \in Window : Sound(window'[x])
  BY DEF TypeOK, BecomesFlushing, Sound
<1>2. UpdateItems(s.active) \in ToMain
  BY MessageTypes DEF Sound, StorageType
<1>3. toMain' \in [Window -> Seq(ToMain)]
  BY <1>2 DEF TypeOK, BecomesFlushing
<1> QED
  BY <1>1, <1>3

LEMMA MainStoresItemsType ==
  ASSUME TypeOK, NEW items \in Items, MainStoresItems(items)
  PROVE  Sound(main') /\ changed' \subseteq Key /\ mainLife' = mainLife
<1>1. Sound(main')
  BY TypeAsSound, StoreIsSound DEF MainStoresItems
<1> QED
  BY <1>1 DEF TypeOK, MainStoresItems, Changed

LEMMA MessagesReceived ==
  ASSUME TypeOK, NEW w \in Window
  PROVE  /\ toMain[w] # <<>> =>
              /\ Head(toMain[w]).request \in Request
              /\ [toMain EXCEPT ![w] = Tail(@)] \in [Window -> Seq(ToMain)]
         /\ toWindow[w] # <<>> =>
              /\ Head(toWindow[w]) \in ToWindow
              /\ [toWindow EXCEPT ![w] = Tail(@)] \in [Window -> Seq(ToWindow)]
<1>1. toMain[w] \in Seq(ToMain) /\ toWindow[w] \in Seq(ToWindow)
  BY DEF TypeOK
<1>2. toMain[w] # <<>> => Head(toMain[w]) \in ToMain /\ Tail(toMain[w]) \in Seq(ToMain)
  BY <1>1
<1>3. toWindow[w] # <<>> => Head(toWindow[w]) \in ToWindow /\ Tail(toWindow[w]) \in Seq(ToWindow)
  BY <1>1
<1> QED
  BY <1>2, <1>3 DEF TypeOK, ToMain

LEMMA TypeStep == TypeOK /\ [Next]_vars => TypeOK'
<1> SUFFICES ASSUME TypeOK, [Next]_vars
             PROVE  TypeOK'
  OBVIOUS
<1> USE CountersStay
<1> DEFINE Typed ==
      /\ window' \in [Window -> StorageType] /\ \A w \in Window : Sound(window'[w])
      /\ Sound(main')
      /\ life' \in [Window -> {"closed", "loading", "open", "closing"}]
      /\ mainLife' \in {"up", "saved", "failed", "crashed"}
      /\ disk' \in Items
      /\ backup' \in Items \cup {NoBackup}
      /\ erroneous' \in BOOLEAN
      /\ changed' \subseteq Key
      /\ toMain' \in [Window -> Seq(ToMain)]
      /\ toWindow' \in [Window -> Seq(ToWindow)]
      /\ calls' \in 0..MaxCalls
      /\ faults' \in 0..MaxFaults
<1> SUFFICES Typed
  BY DEF TypeOK, Sound
<1>0. /\ \A w \in Window : Sound(window[w])
      /\ Sound(main) /\ NoItems \in Items
      /\ Sound(NewStorage(NoItems)) /\ NewStorage(NoItems) \in StorageType
  <2>1. NoItems \in Items
    BY DEF NoItems, Items
  <2> QED
    BY <2>1, TypeAsSound, NewStorageIsSound DEF Sound
<1>1. ASSUME NEW w \in Window, WindowOpens(w)
      PROVE  Typed
  <2>1. <<GetItems>> \in Seq(ToMain)
    BY MessageTypes
  <2> QED
    BY <1>0, <1>1, <2>1 DEF WindowOpens, TypeOK, mainVars, fileVars
<1>2. ASSUME NEW w \in Window, NEW k \in Key, NEW v \in Value \cup {Absent}, WindowStores(w, k, v)
      PROVE  Typed
  <2> DEFINE s == Store(window[w], [window[w].cache EXCEPT ![k] = v])
  <2>1. [window[w].cache EXCEPT ![k] = v] \in Items
    BY DEF TypeOK, StorageType, Items
  <2>2. Sound(s) /\ s \in StorageType
    BY <1>0, <2>1, StoreIsSound DEF Sound
  <2>3. window' = [window EXCEPT ![w] = s]
    BY <1>2 DEF WindowStores
  <2> HIDE DEF s
  <2> QED
    BY <1>0, <1>2, <2>2, <2>3 DEF WindowStores, TypeOK, mainVars, fileVars
<1>3. ASSUME NEW w \in Window, WindowFlushes(w) \/ WindowCloses(w)
      PROVE  Typed
  <2>1. PICK s \in StorageType : Sound(s) /\ window' = [window EXCEPT ![w] = s]
    BY <1>0, <1>3, FlushIsSound DEF WindowFlushes, WindowCloses, Sound
  <2>2. life' \in [Window -> {"closed", "loading", "open", "closing"}]
    BY <1>3 DEF WindowFlushes, WindowCloses, TypeOK
  <2> QED
    BY <1>0, <1>3, <2>1, <2>2 DEF WindowFlushes, WindowCloses, TypeOK, mainVars, fileVars
<1>4. ASSUME NEW w \in Window, WindowDelayIsOver(w)
      PROVE  Typed
  <2>1. Sound(DelayIsOver(window[w]))
    BY <1>0, DelayIsOverIsSound
  <2>2. /\ window' \in [Window -> StorageType] /\ \A x \in Window : Sound(window'[x])
        /\ toMain' \in [Window -> Seq(ToMain)]
    <3>1. CASE Flushing(window[w])
      BY <1>0, <1>4, <2>1, <3>1 DEF WindowDelayIsOver, TypeOK, Sound
    <3>2. CASE ~Flushing(window[w])
      BY <1>4, <2>1, <3>2, BecomesFlushingType DEF WindowDelayIsOver
    <3> QED
      BY <3>1, <3>2
  <2> QED
    BY <1>0, <1>4, <2>2 DEF WindowDelayIsOver, TypeOK, mainVars, fileVars
<1>5. ASSUME NEW w \in Window, WindowReceives(w)
      PROVE  Typed
  <2> DEFINE m == Head(toWindow[w])
  <2>1. m \in ToWindow /\ toWindow' \in [Window -> Seq(ToWindow)]
    BY <1>5, MessagesReceived DEF WindowReceives
  <2>2. /\ window' \in [Window -> StorageType] /\ \A x \in Window : Sound(window'[x])
        /\ life' \in [Window -> {"closed", "loading", "open", "closing"}]
        /\ toMain' \in [Window -> Seq(ToMain)]
    <3>1. CASE m.type = "items"
      <4>1. m.items \in Items
        BY <2>1, <3>1 DEF ToWindow
      <4>2. Sound([window[w] EXCEPT !.cache = m.items])
        BY <1>0, <4>1 DEF Sound, StorageType, Disjoint, Pending
      <4>3. window' = [window EXCEPT ![w] = [window[w] EXCEPT !.cache = m.items]]
        BY <1>5, <3>1 DEF WindowReceives, TypeOK
      <4>4. life' \in [Window -> {"closed", "loading", "open", "closing"}] /\ toMain' = toMain
        BY <1>5, <3>1 DEF WindowReceives, TypeOK
      <4> QED
        BY <1>0, <4>2, <4>3, <4>4 DEF TypeOK, Sound
    <3>2. CASE m.type = "updated"
      <4>1. BecomesFlushing(w, UpdateDone(window[w], TRUE)) /\ life' = life
        BY <1>5, <3>2 DEF WindowReceives
      <4>2. Sound(UpdateDone(window[w], TRUE))
        BY <1>0, UpdateDoneIsSound
      <4> QED
        BY <4>1, <4>2, BecomesFlushingType DEF TypeOK
    <3>3. CASE m.type \notin {"items", "updated"}
      <4>1. PICK ks \in SUBSET Key : m.items \in [ks -> Value \cup {Absent}]
        BY <2>1, <3>3 DEF ToWindow
      <4>2. Sound(AcceptExternal(window[w], m.items))
        BY <1>0, <4>1, AcceptExternalIsSound
      <4>3. window' = [window EXCEPT ![w] = AcceptExternal(window[w], m.items)] /\ UNCHANGED <<life, toMain>>
        BY <1>5, <3>3 DEF WindowReceives
      <4> QED
        BY <1>0, <4>2, <4>3 DEF TypeOK, Sound
    <3> QED
      BY <3>1, <3>2, <3>3
  <2> QED
    BY <1>0, <1>5, <2>1, <2>2 DEF WindowReceives, TypeOK, mainVars, fileVars
<1>6. ASSUME NEW w \in Window, WindowClosed(w) \/ WindowCrashes(w)
      PROVE  Typed
  <2>1. WindowEnds(w) /\ (UNCHANGED faults \/ Fault)
    BY <1>6 DEF WindowClosed, WindowCrashes
  <2>2. window' \in [Window -> StorageType] /\ \A x \in Window : Sound(window'[x])
    BY <1>0, <2>1 DEF WindowEnds, TypeOK
  <2>3. <<>> \in Seq(ToMain) /\ <<>> \in Seq(ToWindow)
    OBVIOUS
  <2>4. toMain' \in [Window -> Seq(ToMain)] /\ toWindow' \in [Window -> Seq(ToWindow)]
    BY <2>1, <2>3 DEF WindowEnds, TypeOK
  <2>5. faults' \in 0..MaxFaults
    BY <2>1 DEF TypeOK
  <2>6. UNCHANGED <<mainVars, fileVars, calls>>
        /\ life' \in [Window -> {"closed", "loading", "open", "closing"}]
    BY <2>1 DEF WindowEnds, TypeOK
  <2> QED
    BY <1>0, <2>2, <2>4, <2>5, <2>6 DEF TypeOK, mainVars, fileVars
<1>7. ASSUME NEW k \in Key, NEW v \in Value \cup {Absent}, MainStores(k, v)
      PROVE  Typed
  <2>1. [main.cache EXCEPT ![k] = v] \in Items
    BY DEF TypeOK, StorageType, Items
  <2>2. Sound(main') /\ changed' \subseteq Key /\ mainLife' = mainLife
    BY <1>7, <2>1, MainStoresItemsType DEF MainStores
  <2> QED
    BY <1>0, <1>7, <2>2 DEF MainStores, TypeOK, windowVars, fileVars
<1>8. ASSUME NEW w \in Window, MainReceives(w)
      PROVE  Typed
  <2> DEFINE m == Head(toMain[w])
  <2>1. m.request \in Request /\ toMain' \in [Window -> Seq(ToMain)]
    BY <1>8, MessagesReceived DEF MainReceives
  <2>2. main.cache \in Items
    BY DEF TypeOK, StorageType
  <2>3. CASE m.type = "getItems"
    <3>1. ItemsAre(main.cache) \in ToWindow
      BY <2>2, MessageTypes
    <3>2. toWindow' = [toWindow EXCEPT ![w] = Append(@, ItemsAre(main.cache))] /\ UNCHANGED mainVars
      BY <1>8, <2>3 DEF MainReceives
    <3>3. toWindow' \in [Window -> Seq(ToWindow)]
      BY <3>1, <3>2 DEF TypeOK
    <3> QED
      BY <1>0, <1>8, <2>1, <3>2, <3>3 DEF MainReceives, TypeOK, windowVars, mainVars, fileVars
  <2>4. CASE m.type # "getItems"
    <3>1. toWindow' = [toWindow EXCEPT ![w] = Append(@, UpdateIsDone)]
          /\ MainStoresItems(Updated(main.cache, m.request))
      BY <1>8, <2>4 DEF MainReceives
    <3>2. Sound(main') /\ changed' \subseteq Key /\ mainLife' = mainLife
      BY <2>1, <2>2, <3>1, UpdatedType, MainStoresItemsType
    <3>3. toWindow' \in [Window -> Seq(ToWindow)]
      BY <3>1, MessageTypes DEF TypeOK
    <3> QED
      BY <1>0, <1>8, <2>1, <3>2, <3>3 DEF MainReceives, TypeOK, windowVars, fileVars
  <2> QED
    BY <2>3, <2>4
<1>9. CASE ChangeEventFires
  <2>1. ChangeEvent([k \in changed |-> main.cache[k]]) \in ToWindow
    BY MessageTypes DEF TypeOK, StorageType
  <2>2. toWindow' \in [Window -> Seq(ToWindow)]
    <3> DEFINE m == ChangeEvent([k \in changed |-> main.cache[k]])
    <3>1. toWindow' = [w \in Window |-> IF life[w] = "closed" THEN toWindow[w] ELSE Append(toWindow[w], m)]
      BY <1>9 DEF ChangeEventFires
    <3> HIDE DEF m
    <3>2. \A w \in Window : toWindow[w] \in Seq(ToWindow) /\ Append(toWindow[w], m) \in Seq(ToWindow)
      BY <2>1 DEF TypeOK, m
    <3> QED
      BY <3>1, <3>2
  <2>3. changed' = {} /\ UNCHANGED <<windowVars, main, mainLife, fileVars, toMain, calls, faults>>
    BY <1>9 DEF ChangeEventFires
  <2> QED
    BY <1>0, <2>2, <2>3 DEF TypeOK, windowVars, fileVars
<1>10. CASE MainFlushes \/ MainDelayIsOver \/ MainCloses
  <2>1. Sound(main')
    BY <1>0, <1>10, FlushIsSound, DelayIsOverIsSound DEF MainFlushes, MainDelayIsOver, MainCloses
  <2> QED
    BY <1>0, <1>10, <2>1 DEF MainFlushes, MainDelayIsOver, MainCloses, TypeOK, windowVars, fileVars
<1>11. CASE DiskUpdates \/ DiskUpdateFails
  <2>1. Sound(main')
    BY <1>0, <1>11, UpdateDoneIsSound DEF DiskUpdates, DiskUpdateFails
  <2>2. /\ main.active \in Request
        /\ [main.active EXCEPT !.insert = NoItems] \in Request
        /\ [main.active EXCEPT !.delete = {}] \in Request
    BY <1>0 DEF Sound, StorageType, Request
  <2>3. disk' \in Items
    BY <1>11, <2>2, UpdatedType DEF DiskUpdates, DiskUpdateFails, TypeOK
  <2> QED
    BY <1>0, <1>11, <2>1, <2>3 DEF DiskUpdates, DiskUpdateFails, TypeOK, windowVars
<1>12. CASE DatabaseCloses \/ RecoveryFails
  <2>1. main.cache \in Items
    BY DEF TypeOK, StorageType
  <2> QED
    BY <1>0, <1>12, <2>1 DEF DatabaseCloses, RecoveryFails, TypeOK, windowVars
<1>13. CASE MainCrashes
  BY <1>0, <1>13 DEF MainCrashes, TypeOK, fileVars
<1>14. CASE MainStarts
  <2>1. disk' \in Items /\ backup' \in Items \cup {NoBackup}
    BY <1>0, <1>14 DEF MainStarts, TypeOK
  <2>2. Sound(main')
    BY <1>14, <2>1, NewStorageIsSound DEF MainStarts
  <2> QED
    BY <1>0, <1>14, <2>1, <2>2 DEF MainStarts, TypeOK, windowVars
<1>15. CASE UNCHANGED vars
  BY <1>0, <1>15 DEF TypeOK, vars, windowVars, mainVars, fileVars
<1> QED
  BY <1>1, <1>2, <1>3, <1>4, <1>5, <1>6, <1>7, <1>8, <1>9, <1>10, <1>11, <1>12, <1>13, <1>14, <1>15
  DEF Next, Stores, Step

\* Every variable keeps its type, and no storage ever has a key to be both
\* inserted and deleted by one update.
THEOREM TypeCorrect == Spec => []TypeOK
<1>1. Init => TypeOK
  <2>1. NoItems \in Items
    BY DEF NoItems, Items
  <2>2. Sound(NewStorage(NoItems)) /\ NewStorage(NoItems) \in StorageType
    BY <2>1, NewStorageIsSound DEF Sound
  <2>3. <<>> \in Seq(ToMain) /\ <<>> \in Seq(ToWindow)
    OBVIOUS
  <2> SUFFICES ASSUME Init
               PROVE  TypeOK
    OBVIOUS
  <2>4. toMain \in [Window -> Seq(ToMain)] /\ toWindow \in [Window -> Seq(ToWindow)]
    BY <2>3 DEF Init
  <2>5. window \in [Window -> StorageType] /\ (\A w \in Window : Sound(window[w])) /\ Sound(main)
    BY <2>2 DEF Init
  <2>6. life \in [Window -> {"closed", "loading", "open", "closing"}]
    BY DEF Init
  <2>7. /\ mainLife \in {"up", "saved", "failed", "crashed"}
        /\ disk \in Items /\ backup \in Items \cup {NoBackup} /\ changed \subseteq Key
    BY <2>1 DEF Init
  <2>8. erroneous \in BOOLEAN
    BY DEF Init
  <2>9. calls \in 0..MaxCalls /\ faults \in 0..MaxFaults
    BY DEF Init
  <2> QED
    BY <2>4, <2>5, <2>6, <2>7, <2>8, <2>9, TypeAsSound
<1> QED
  BY <1>1, TypeStep, PTL DEF Spec

----------------------------------------------------------------------------
(* No change is forgotten.                                                 *)

\* The cache of s is what the database d will hold.
Covered(s, d) == s.cache = Updated(Updated(d, s.active), Pending(s))

LEMMA UpdatedByNothing ==
  ASSUME NEW items \in Items
  PROVE  Updated(items, NoRequest) = items
BY DEF Updated, NoRequest, NoItems, Items

LEMMA NewStorageIsCovered ==
  ASSUME NEW items \in Items
  PROVE  Covered(NewStorage(items), items)
BY UpdatedByNothing DEF Covered, NewStorage, Pending, NoRequest

LEMMA StoreIsCovered ==
  ASSUME NEW s, Sound(s), NEW d \in Items, Covered(s, d), NEW items \in Items
  PROVE  Covered(Store(s, items), d)
<1> DEFINE base == Updated(d, s.active)
           ks == Changed(s, items)
           t == Store(s, items)
<1>1. CASE s.closed \/ ks = {}
  BY <1>1 DEF Store
<1>2. CASE ~(s.closed \/ ks = {})
  <2>1. /\ t.cache = items /\ t.active = s.active
        /\ t.pendingInserts = [k \in Key |-> IF k \in ks THEN items[k] ELSE s.pendingInserts[k]]
        /\ t.pendingDeletes = (s.pendingDeletes \ ks) \cup {k \in ks : items[k] = Absent}
    BY <1>2 DEF Store, Sound, StorageType
  <2>2. s.cache = [k \in Key |-> IF k \in s.pendingDeletes THEN Absent
                                 ELSE IF s.pendingInserts[k] # Absent THEN s.pendingInserts[k]
                                 ELSE base[k]]
    BY DEF Covered, Updated, Pending
  <2>3. items = [k \in Key |-> IF k \in t.pendingDeletes THEN Absent
                               ELSE IF t.pendingInserts[k] # Absent THEN t.pendingInserts[k]
                               ELSE base[k]]
    <3> HIDE DEF t, base
    <3> SUFFICES ASSUME NEW k \in Key
                 PROVE  items[k] = IF k \in t.pendingDeletes THEN Absent
                                   ELSE IF t.pendingInserts[k] # Absent THEN t.pendingInserts[k]
                                   ELSE base[k]
      BY DEF Items
    <3>1. CASE k \in ks
      BY <2>1, <3>1
    <3>2. CASE k \notin ks
      <4>1. items[k] = s.cache[k]
        BY <3>2 DEF Changed
      <4>2. t.pendingInserts[k] = s.pendingInserts[k] /\ (k \in t.pendingDeletes <=> k \in s.pendingDeletes)
        BY <2>1, <3>2
      <4> HIDE DEF ks
      <4> QED
        BY <2>2, <4>1, <4>2
    <3> QED
      BY <3>1, <3>2
  <2> HIDE DEF t
  <2>4. items = Updated(base, Pending(t))
    BY <2>3 DEF Updated, Pending
  <2> QED
    BY <2>1, <2>4 DEF Covered, t
<1> QED
  BY <1>1, <1>2

LEMMA FlushPendingIsCovered ==
  ASSUME NEW s, Sound(s), NEW d \in Items, Covered(s, d), ~Flushing(s),
         NEW awaited, NEW during
  PROVE  Covered(FlushPending(s, awaited, during), d)
<1> DEFINE t == FlushPending(s, awaited, during)
<1>1. t.cache = s.cache /\ t.active = Pending(s) /\ Pending(t) = NoRequest
  BY DEF FlushPending, Sound, StorageType, Pending, NoRequest
<1>2. Pending(s) \in Request
  BY DEF Sound, StorageType, Pending, Request
<1>3. s.cache = Updated(d, Pending(s))
  BY UpdatedByNothing DEF Covered, Flushing
<1>4. Updated(Updated(d, Pending(s)), NoRequest) = Updated(d, Pending(s))
  BY <1>2, UpdatedType, UpdatedByNothing
<1> HIDE DEF t
<1> QED
  BY <1>1, <1>3, <1>4 DEF Covered, t

LEMMA DelayIsOverIsCovered ==
  ASSUME NEW s, Sound(s), NEW d \in Items, Covered(s, d)
  PROVE  Covered(DelayIsOver(s), d)
<1> DEFINE t == [s EXCEPT !.triggered = FALSE]
<1>1. Sound(t) /\ Covered(t, d) /\ Flushing(t) = Flushing(s)
  BY DEF Sound, StorageType, Disjoint, Pending, Covered, Flushing
<1>2. CASE Flushing(s)
  BY <1>2 DEF DelayIsOver, Sound, StorageType, Pending, Covered
<1>3. CASE ~Flushing(s)
  <2>1. Covered(FlushPending(t, "delayed", "flushing"), d)
    BY <1>1, <1>3, FlushPendingIsCovered
  <2> QED
    BY <1>3, <2>1 DEF DelayIsOver
<1> QED
  BY <1>2, <1>3

LEMMA UpdateDoneIsCovered ==
  ASSUME NEW s, Sound(s), NEW d \in Items, Covered(s, d), NEW ok \in BOOLEAN
  PROVE  Covered(UpdateDone(s, ok), Updated(d, s.active))
<1> DEFINE closing == CASE s.closing = "flushing" -> "flushed"
                        [] s.closing = "queuedFlush" -> IF ok THEN "flushed" ELSE "never"
                        [] OTHER -> s.closing
           t == [s EXCEPT !.active = NoRequest, !.queued = FALSE, !.closing = closing]
<1>1. closing \in {"no", "delayed", "flushing", "queued", "queuedFlush", "flushed", "never"}
  BY DEF Sound, StorageType
<1> HIDE DEF closing
<1>2. s.active \in Request /\ Updated(d, s.active) \in Items
  BY UpdatedType DEF Sound, StorageType
<1>3. Sound(t) /\ ~Flushing(t)
  BY <1>1 DEF Sound, StorageType, Disjoint, Pending, NoRequest, NoItems, Request, Items, Flushing
<1>4. t.cache = s.cache /\ t.active = NoRequest /\ Pending(t) = Pending(s)
  BY DEF Sound, StorageType, Pending
<1>5. Covered(t, Updated(d, s.active))
  BY <1>2, <1>4, UpdatedByNothing DEF Covered
<1>6. Covered(FlushPending(t, "queued", "queuedFlush"), Updated(d, s.active))
  BY <1>2, <1>3, <1>5, FlushPendingIsCovered
<1>7. UpdateDone(s, ok) = IF s.queued THEN FlushPending(t, "queued", "queuedFlush") ELSE t
  BY DEF UpdateDone, closing
<1> HIDE DEF t
<1> QED
  BY <1>5, <1>6, <1>7

----------------------------------------------------------------------------
(* A close flushes everything.                                             *)

\* Where a close stands, and what can no longer be pending then.
CloseInv(s) ==
  /\ s.closing # "no" => s.closed
  /\ s.closing \notin {"no", "delayed"} => ~s.triggered
  /\ s.queued => Flushing(s)
  /\ s.closing = "queued" => s.queued
  /\ s.closing \in {"flushing", "queuedFlush", "flushed", "never"} => ~HasPending(s) /\ ~s.queued
  /\ s.closing = "flushed" => ~Flushing(s)

LEMMA StoreKeepsClosing ==
  ASSUME NEW s, Sound(s), CloseInv(s), NEW items \in Items
  PROVE  CloseInv(Store(s, items)) /\ CloseInv(Flush(s))
         /\ (s.closed => Store(s, items) = s)
BY DEF CloseInv, Store, Flush, Sound, StorageType, HasPending, Pending, Flushing

LEMMA CloseKeepsClosing ==
  ASSUME NEW s, Sound(s), CloseInv(s)
  PROVE  CloseInv(Close(s))
BY DEF CloseInv, Close, Sound, StorageType, HasPending, Pending, Flushing

LEMMA FlushPendingKeepsClosing ==
  ASSUME NEW s, Sound(s), CloseInv(s) \/ (s.closing = "queued" /\ s.closed /\ ~s.triggered),
         ~Flushing(s), ~s.queued,
         NEW awaited \in {"delayed", "queued"}, NEW during \in {"flushing", "queuedFlush"},
         s.closing = awaited => ~s.triggered,
         s.closing = "queued" => awaited = "queued"
  PROVE  CloseInv(FlushPending(s, awaited, during))
<1> DEFINE t == FlushPending(s, awaited, during)
<1>1. /\ t.active = Pending(s) /\ Pending(t) = NoRequest
      /\ t.closing = IF s.closing # awaited THEN s.closing ELSE IF HasPending(s) THEN during ELSE "flushed"
      /\ (t.closed <=> s.closed) /\ (t.triggered <=> s.triggered) /\ (t.queued <=> s.queued)
  BY DEF FlushPending, Sound, StorageType, Pending, NoRequest
<1> HIDE DEF t
<1>2. ~HasPending(t) /\ (Flushing(t) <=> HasPending(s))
  BY <1>1 DEF HasPending, Flushing
<1>3. ASSUME s.closing = awaited
      PROVE  CloseInv(t)
  BY <1>1, <1>2, <1>3 DEF CloseInv
<1>4. ASSUME s.closing # awaited
      PROVE  CloseInv(t)
  BY <1>1, <1>2, <1>4 DEF CloseInv
<1> QED
  BY <1>3, <1>4 DEF t

LEMMA DelayIsOverKeepsClosing ==
  ASSUME NEW s, Sound(s), CloseInv(s), s.triggered
  PROVE  CloseInv(DelayIsOver(s))
<1> DEFINE t == [s EXCEPT !.triggered = FALSE]
<1>1. /\ Sound(t) /\ Flushing(t) = Flushing(s) /\ HasPending(t) = HasPending(s)
      /\ t.closing = s.closing /\ (t.closed <=> s.closed) /\ (t.queued <=> s.queued) /\ ~t.triggered
  BY DEF Sound, StorageType, Disjoint, Pending, Flushing, HasPending
<1>2. CloseInv(t) /\ s.closing \in {"no", "delayed"}
  BY <1>1 DEF CloseInv
<1>3. CASE Flushing(s)
  <2> DEFINE u == [t EXCEPT !.queued = TRUE, !.closing = IF @ = "delayed" THEN "queued" ELSE @]
  <2>1. DelayIsOver(s) = u
    BY <1>3 DEF DelayIsOver
  <2>2. /\ Flushing(u) /\ u.queued /\ ~u.triggered /\ (u.closed <=> s.closed)
        /\ u.closing = IF s.closing = "delayed" THEN "queued" ELSE s.closing
    BY <1>3 DEF Sound, StorageType, Flushing
  <2> HIDE DEF u
  <2> QED
    BY <1>2, <2>1, <2>2 DEF CloseInv
<1>4. CASE ~Flushing(s)
  <2>1. DelayIsOver(s) = FlushPending(t, "delayed", "flushing")
    BY <1>4 DEF DelayIsOver
  <2>2. ~t.queued
    BY <1>1, <1>4 DEF CloseInv
  <2> HIDE DEF t
  <2> QED
    BY <1>1, <1>2, <1>4, <2>1, <2>2, FlushPendingKeepsClosing
<1> QED
  BY <1>3, <1>4

LEMMA UpdateDoneKeepsClosing ==
  ASSUME NEW s, Sound(s), CloseInv(s), Flushing(s), NEW ok \in BOOLEAN
  PROVE  CloseInv(UpdateDone(s, ok))
<1> DEFINE closing == CASE s.closing = "flushing" -> "flushed"
                        [] s.closing = "queuedFlush" -> IF ok THEN "flushed" ELSE "never"
                        [] OTHER -> s.closing
           t == [s EXCEPT !.active = NoRequest, !.queued = FALSE, !.closing = closing]
<1>1. /\ closing \in {"no", "delayed", "flushing", "queued", "queuedFlush", "flushed", "never"}
      /\ s.closing \in {"no", "delayed", "queued"} => closing = s.closing
      /\ closing \in {"no", "delayed", "queued"} => s.closing = closing
  BY DEF Sound, StorageType
<1>2. UpdateDone(s, ok) = IF s.queued THEN FlushPending(t, "queued", "queuedFlush") ELSE t
  BY DEF UpdateDone
<1> HIDE DEF closing
<1>3. /\ Sound(t) /\ ~Flushing(t) /\ ~t.queued /\ HasPending(t) = HasPending(s)
      /\ t.closing = closing /\ (t.closed <=> s.closed) /\ (t.triggered <=> s.triggered)
  BY <1>1 DEF Sound, StorageType, Disjoint, Pending, HasPending, NoRequest, NoItems, Request, Items, Flushing
<1> HIDE DEF t
<1>4. closing # "queued" => CloseInv(t)
  BY <1>1, <1>3 DEF CloseInv, Sound, StorageType
<1>5. CASE s.queued
  <2>1. closing \in {"no", "delayed", "queued"}
    BY <1>1, <1>5 DEF CloseInv, Sound, StorageType
  <2>2. CloseInv(t) \/ (t.closing = "queued" /\ t.closed /\ ~t.triggered)
    BY <1>1, <1>3, <1>4 DEF CloseInv
  <2>3. t.closing = "queued" => ~t.triggered
    BY <1>1, <1>3 DEF CloseInv
  <2>4. CloseInv(FlushPending(t, "queued", "queuedFlush"))
    BY <1>3, <2>2, <2>3, FlushPendingKeepsClosing
  <2> QED
    BY <1>2, <1>5, <2>4
<1>6. CASE ~s.queued
  <2>1. closing # "queued"
    BY <1>1, <1>6 DEF CloseInv
  <2> QED
    BY <1>2, <1>4, <1>6, <2>1
<1> QED
  BY <1>5, <1>6

----------------------------------------------------------------------------
(* What the main process has promised to its file.                         *)

FileInv ==
  /\ CloseInv(main)
  /\ UnsavedIsPending
  /\ mainLife = "saved" => main.closing = "flushed"
  /\ ClosedIsSaved

LEMMA UnsavedIsCovered ==
  UnsavedIsPending <=> (mainLife = "up" /\ ~erroneous => Covered(main, disk))
BY DEF UnsavedIsPending, Covered

\* A storage that has flushed everything for its close is what is on disk.
LEMMA FlushedIsOnDisk ==
  ASSUME TypeOK, CloseInv(main), Covered(main, disk), main.closing = "flushed"
  PROVE  main.cache = disk
<1>1. main.active = NoRequest /\ Pending(main) = NoRequest
  BY DEF CloseInv, HasPending, Flushing
<1>2. disk \in Items
  BY DEF TypeOK
<1> QED
  BY <1>1, <1>2, UpdatedByNothing DEF Covered

LEMMA MainStoresItemsKeepsFile ==
  ASSUME TypeOK, FileInv, NEW items \in Items, MainStoresItems(items),
         UNCHANGED <<disk, erroneous>>
  PROVE  FileInv'
<1>1. Sound(main) /\ disk \in Items
  BY TypeAsSound
<1>2. main' = Store(main, items) /\ mainLife' = mainLife /\ disk' = disk /\ erroneous' = erroneous
  BY DEF MainStoresItems
<1>3. CloseInv(main')
  BY <1>1, <1>2, StoreKeepsClosing DEF FileInv
<1>4. Covered(main, disk) => Covered(main', disk')
  BY <1>1, <1>2, StoreIsCovered
<1>5. mainLife = "saved" => main' = main
  BY <1>1, <1>2, StoreKeepsClosing DEF FileInv, CloseInv
<1> QED
  BY <1>2, <1>3, <1>4, <1>5 DEF FileInv, UnsavedIsPending, Covered, ClosedIsSaved

LEMMA FileStep == TypeOK /\ FileInv /\ [Next]_vars => FileInv'
<1> SUFFICES ASSUME TypeOK, FileInv, [Next]_vars
             PROVE  FileInv'
  OBVIOUS
<1>0. Sound(main) /\ disk \in Items /\ main.active \in Request /\ main.cache \in Items
  BY TypeAsSound DEF Sound, StorageType
<1>1. CASE UNCHANGED <<main, mainLife, disk, erroneous>>
  BY <1>1 DEF FileInv, CloseInv, UnsavedIsPending, ClosedIsSaved, Pending, HasPending, Flushing
<1>2. ASSUME NEW k \in Key, NEW v \in Value \cup {Absent}, MainStores(k, v)
      PROVE  FileInv'
  <2>1. [main.cache EXCEPT ![k] = v] \in Items
    BY <1>0 DEF Items
  <2> QED
    BY <1>2, <2>1, MainStoresItemsKeepsFile DEF MainStores, fileVars
<1>3. ASSUME NEW w \in Window, MainReceives(w)
      PROVE  FileInv'
  <2> DEFINE m == Head(toMain[w])
  <2>1. CASE m.type = "getItems"
    BY <1>1, <1>3, <2>1 DEF MainReceives, mainVars, fileVars
  <2>2. CASE m.type # "getItems"
    <3>1. MainStoresItems(Updated(main.cache, m.request)) /\ UNCHANGED fileVars
      BY <1>3, <2>2 DEF MainReceives
    <3>2. m.request \in Request
      BY <1>3, MessagesReceived DEF MainReceives
    <3> QED
      BY <1>0, <3>1, <3>2, UpdatedType, MainStoresItemsKeepsFile DEF fileVars
  <2> QED
    BY <2>1, <2>2
<1>4. CASE MainFlushes \/ MainCloses
  <2>1. main' \in {Flush(main), Close(main)} /\ mainLife = "up" /\ mainLife' = "up"
        /\ UNCHANGED <<disk, erroneous>>
    BY <1>4 DEF MainFlushes, MainCloses, fileVars
  <2>2. CloseInv(main')
    BY <1>0, <2>1, StoreKeepsClosing, CloseKeepsClosing DEF FileInv
  <2>3. Covered(main, disk) => Covered(main', disk')
    BY <1>0, <2>1 DEF Flush, Close, Covered, Pending, Sound, StorageType
  <2> QED
    BY <2>1, <2>2, <2>3 DEF FileInv, UnsavedIsPending, Covered, ClosedIsSaved
<1>5. CASE MainDelayIsOver
  <2>1. main.triggered /\ main' = DelayIsOver(main) /\ UNCHANGED <<mainLife, disk, erroneous>>
    BY <1>5 DEF MainDelayIsOver, fileVars
  <2>2. CloseInv(main') /\ mainLife # "saved"
    BY <1>0, <2>1, DelayIsOverKeepsClosing DEF FileInv, CloseInv
  <2>3. Covered(main, disk) => Covered(main', disk')
    BY <1>0, <2>1, DelayIsOverIsCovered
  <2> QED
    BY <2>1, <2>2, <2>3 DEF FileInv, UnsavedIsPending, Covered, ClosedIsSaved
<1>6. CASE DiskUpdates \/ DiskUpdateFails
  <2>1. PICK ok \in BOOLEAN : main' = UpdateDone(main, ok)
    BY <1>6 DEF DiskUpdates, DiskUpdateFails
  <2>2. Flushing(main) /\ mainLife' = mainLife
        /\ (~erroneous' => disk' = Updated(disk, main.active) /\ ~erroneous)
    <3>1. CASE DiskUpdates
      <4>1. Flushing(main) /\ mainLife' = mainLife /\ disk' = Updated(disk, main.active) /\ erroneous' = erroneous
        BY <3>1 DEF DiskUpdates
      <4> QED
        BY <4>1
    <3>2. CASE DiskUpdateFails
      <4>1. Flushing(main) /\ mainLife' = mainLife /\ erroneous'
        BY <3>2 DEF DiskUpdateFails
      <4> QED
        BY <4>1
    <3> QED
      BY <1>6, <3>1, <3>2
  <2>3. CloseInv(main') /\ mainLife # "saved"
    BY <1>0, <2>1, <2>2, UpdateDoneKeepsClosing DEF FileInv, CloseInv
  <2>4. Covered(main, disk) => Covered(main', Updated(disk, main.active))
    BY <1>0, <2>1, UpdateDoneIsCovered
  <2> QED
    BY <2>2, <2>3, <2>4 DEF FileInv, UnsavedIsPending, Covered, ClosedIsSaved
<1>7. CASE DatabaseCloses
  <2>1. /\ mainLife = "up" /\ main.closing = "flushed" /\ main' = main /\ mainLife' = "saved"
        /\ disk' = IF erroneous THEN main.cache ELSE disk
    BY <1>7 DEF DatabaseCloses
  <2>2. disk' = main.cache
    BY <2>1, FlushedIsOnDisk DEF FileInv, UnsavedIsPending, Covered
  <2> QED
    BY <2>1, <2>2 DEF FileInv, UnsavedIsPending, ClosedIsSaved
<1>8. CASE RecoveryFails
  BY <1>8 DEF RecoveryFails, FileInv, UnsavedIsPending, ClosedIsSaved
<1>9. CASE MainCrashes \/ MainStarts
  <2>1. PICK items \in Items : main' = NewStorage(items) /\ (mainLife' = "up" => items = disk')
                               /\ mainLife' \in {"crashed", "up"}
    <3>1. NoItems \in Items
      BY DEF NoItems, Items
    <3>2. CASE MainCrashes
      <4>1. main' = NewStorage(NoItems) /\ mainLife' = "crashed"
        BY <3>2 DEF MainCrashes
      <4> QED
        BY <3>1, <4>1
    <3>3. CASE MainStarts
      <4>1. disk' \in Items
        BY <1>0, <3>1, <3>3 DEF MainStarts, TypeOK
      <4> QED
        BY <3>3, <4>1 DEF MainStarts
    <3> QED
      BY <1>9, <3>2, <3>3
  <2>2. CloseInv(main')
    BY <2>1 DEF CloseInv, NewStorage, Flushing, HasPending, Pending, NoRequest
  <2>3. mainLife' = "up" => Covered(main', disk')
    BY <2>1, NewStorageIsCovered
  <2> QED
    BY <2>1, <2>2, <2>3 DEF FileInv, UnsavedIsPending, Covered, ClosedIsSaved
<1> QED
  <2>1. ASSUME NEW w \in Window,
               \/ WindowOpens(w) \/ WindowFlushes(w) \/ WindowDelayIsOver(w) \/ WindowReceives(w)
               \/ WindowCloses(w) \/ WindowClosed(w) \/ WindowCrashes(w)
        PROVE  FileInv'
    BY <1>1, <2>1 DEF WindowOpens, WindowFlushes, WindowDelayIsOver, WindowReceives, WindowCloses,
                      WindowClosed, WindowCrashes, WindowEnds, mainVars, fileVars
  <2>2. ASSUME NEW w \in Window, NEW k \in Key, NEW v \in Value \cup {Absent}, WindowStores(w, k, v)
        PROVE  FileInv'
    BY <1>1, <2>2 DEF WindowStores, mainVars, fileVars
  <2>3. ASSUME ChangeEventFires \/ UNCHANGED vars
        PROVE  FileInv'
    BY <1>1, <2>3 DEF ChangeEventFires, vars, mainVars, fileVars
  <2> QED
    BY <1>2, <1>3, <1>4, <1>5, <1>6, <1>7, <1>8, <1>9, <2>1, <2>2, <2>3 DEF Next, Stores, Step

LEMMA FileInvariant == Spec => []FileInv
<1>1. Init => FileInv
  <2>1. NoItems \in Items
    BY DEF NoItems, Items
  <2>2. Covered(NewStorage(NoItems), NoItems)
    BY <2>1, NewStorageIsCovered
  <2>3. CloseInv(NewStorage(NoItems))
    BY DEF CloseInv, NewStorage, Flushing, HasPending, Pending, NoRequest
  <2> QED
    BY <2>2, <2>3 DEF Init, FileInv, UnsavedIsPending, Covered, ClosedIsSaved
<1> QED
  BY <1>1, FileStep, TypeCorrect, PTL DEF Spec

\* Storage.flushPending and the throttler forget no change and reorder none:
\* unless an update of the file has failed, the file with the update under way
\* and then the pending changes applied is the cache of the main process.
THEOREM NothingUnsavedIsForgotten == Spec => []UnsavedIsPending
<1>1. FileInv => UnsavedIsPending
  BY DEF FileInv
<1> QED
  BY <1>1, FileInvariant, PTL

\* Storage.close and the close of the database leave every item of the cache
\* in the file, whatever was being flushed, queued or stored when it was
\* asked for, and also when updates of the file had failed.
THEOREM CloseSavesEverything == Spec => []ClosedIsSaved
<1>1. FileInv => ClosedIsSaved
  BY DEF FileInv
<1> QED
  BY <1>1, FileInvariant, PTL

----------------------------------------------------------------------------
(* A window that has nothing to send agrees with the main process.         *)

\* Whether the message tells its window of key k, and the last one of the
\* queue that does tells it v.
Tells(m, k) == m.type = "items" \/ (m.type = "changed" /\ k \in DOMAIN m.items)
Told(q, k, v) ==
  \E j \in DOMAIN q :
    /\ Tells(q[j], k) /\ q[j].items[k] = v
    /\ \A i \in DOMAIN q : i > j => ~Tells(q[i], k)
Untold(q, k) == \A j \in DOMAIN q : ~Tells(q[j], k)

NoneOf(q, type) == \A j \in DOMAIN q : q[j].type # type
OneOf(q, type) ==
  \E j \in DOMAIN q : q[j].type = type /\ \A i \in DOMAIN q : i # j => q[i].type # type

LEMMA Appended ==
  ASSUME NEW S, NEW q \in Seq(S), NEW m \in S
  PROVE  /\ Append(q, m) \in Seq(S) /\ DOMAIN q = 1..Len(q)
         /\ DOMAIN Append(q, m) = 1..(Len(q) + 1) /\ Len(q) \in Nat
         /\ \A i \in 1..Len(q) : Append(q, m)[i] = q[i]
         /\ Append(q, m)[Len(q) + 1] = m
OBVIOUS

LEMMA AppendTells ==
  ASSUME NEW q \in Seq(ToWindow), NEW m \in ToWindow, NEW k, NEW v
  PROVE  /\ ~Tells(m, k) /\ Told(q, k, v) => Told(Append(q, m), k, v)
         /\ ~Tells(m, k) /\ Untold(q, k) => Untold(Append(q, m), k)
         /\ Tells(m, k) => Told(Append(q, m), k, m.items[k])
<1> DEFINE p == Append(q, m)
           n == Len(q)
<1>1. /\ DOMAIN q = 1..n /\ DOMAIN p = 1..(n + 1) /\ n \in Nat
      /\ \A i \in 1..n : p[i] = q[i]
      /\ p[n + 1] = m
  BY Appended
<1> HIDE DEF p, n
<1>2. ASSUME ~Tells(m, k), Told(q, k, v)
      PROVE  Told(p, k, v)
  <2>1. PICK j \in 1..n : /\ Tells(q[j], k) /\ q[j].items[k] = v
                          /\ \A i \in 1..n : i > j => ~Tells(q[i], k)
    BY <1>1, <1>2 DEF Told
  <2>2. j \in 1..(n + 1) /\ p[j] = q[j]
    BY <1>1
  <2>3. ASSUME NEW i \in 1..(n + 1), i > j
        PROVE  ~Tells(p[i], k)
    <3>1. CASE i = n + 1
      BY <1>1, <1>2, <3>1
    <3>2. CASE i # n + 1
      <4>1. i \in 1..n
        BY <1>1, <3>2
      <4> QED
        BY <1>1, <2>1, <2>3, <4>1
    <3> QED
      BY <3>1, <3>2
  <2> QED
    BY <1>1, <2>1, <2>2, <2>3 DEF Told
<1>3. ASSUME ~Tells(m, k), Untold(q, k), NEW i \in 1..(n + 1)
      PROVE  ~Tells(p[i], k)
  <2>1. i = n + 1 \/ i \in 1..n
    BY <1>1
  <2> QED
    BY <1>1, <1>3, <2>1 DEF Untold
<1>4. ASSUME Tells(m, k)
      PROVE  Told(p, k, m.items[k])
  <2>1. n + 1 \in 1..(n + 1) /\ \A i \in 1..(n + 1) : ~(i > n + 1)
    BY <1>1
  <2> QED
    BY <1>1, <1>4, <2>1 DEF Told
<1> QED
  BY <1>1, <1>2, <1>3, <1>4 DEF Untold, p

LEMMA AppendOf ==
  ASSUME NEW q \in Seq(ToWindow), NEW m \in ToWindow, NEW type
  PROVE  /\ m.type # type /\ NoneOf(q, type) => NoneOf(Append(q, m), type)
         /\ m.type # type /\ OneOf(q, type) => OneOf(Append(q, m), type)
         /\ m.type = type /\ NoneOf(q, type) => OneOf(Append(q, m), type)
<1> DEFINE p == Append(q, m)
           n == Len(q)
<1>1. /\ DOMAIN q = 1..n /\ DOMAIN p = 1..(n + 1) /\ n \in Nat
      /\ \A i \in 1..n : p[i] = q[i]
      /\ p[n + 1] = m
      /\ \A i \in 1..(n + 1) : i = n + 1 \/ i \in 1..n
      /\ n + 1 \in 1..(n + 1) /\ \A i \in 1..n : i \in 1..(n + 1) /\ i # n + 1
  BY Appended
<1> HIDE DEF p, n
<1>2. m.type # type /\ NoneOf(q, type) => NoneOf(p, type)
  BY <1>1 DEF NoneOf
<1>3. ASSUME m.type # type, OneOf(q, type)
      PROVE  OneOf(p, type)
  <2>1. PICK j \in 1..n : q[j].type = type /\ \A i \in 1..n : i # j => q[i].type # type
    BY <1>1, <1>3 DEF OneOf
  <2>2. \A i \in 1..(n + 1) : i # j => p[i].type # type
    BY <1>1, <1>3, <2>1
  <2> QED
    BY <1>1, <2>1, <2>2 DEF OneOf
<1>4. ASSUME m.type = type, NoneOf(q, type)
      PROVE  OneOf(p, type)
  <2>1. \A i \in 1..(n + 1) : i # n + 1 => p[i].type # type
    BY <1>1, <1>4 DEF NoneOf
  <2> QED
    BY <1>1, <1>4, <2>1 DEF OneOf
<1> QED
  BY <1>2, <1>3, <1>4 DEF p

LEMMA Shortened ==
  ASSUME NEW S, NEW q \in Seq(S), q # <<>>
  PROVE  /\ Tail(q) \in Seq(S) /\ Head(q) \in S /\ Head(q) = q[1] /\ DOMAIN q = 1..Len(q)
         /\ Len(q) \in Nat /\ Len(q) > 0
         /\ DOMAIN Tail(q) = 1..(Len(q) - 1)
         /\ \A i \in 1..(Len(q) - 1) : Tail(q)[i] = q[i + 1]
<1>1. Tail(q) \in Seq(S) /\ Head(q) \in S /\ Head(q) = q[1] /\ DOMAIN q = 1..Len(q)
      /\ Len(q) \in Nat /\ Len(q) > 0
  OBVIOUS
<1>2. Len(Tail(q)) = Len(q) - 1 /\ \A i \in 1..(Len(q) - 1) : Tail(q)[i] = q[i + 1]
  OBVIOUS
<1> QED
  BY <1>1, <1>2

LEMMA TailTells ==
  ASSUME NEW q \in Seq(ToWindow), q # <<>>, NEW k, NEW v
  PROVE  /\ Told(q, k, v) => \/ Told(Tail(q), k, v)
                             \/ Tells(Head(q), k) /\ Head(q).items[k] = v /\ Untold(Tail(q), k)
         /\ Untold(q, k) => ~Tells(Head(q), k) /\ Untold(Tail(q), k)
<1> DEFINE t == Tail(q)
           n == Len(q)
<1>1. /\ Head(q) = q[1] /\ DOMAIN q = 1..n /\ n \in Nat /\ n > 0
      /\ DOMAIN t = 1..(n - 1)
      /\ \A i \in 1..(n - 1) : t[i] = q[i + 1]
  BY Shortened
<1> HIDE DEF t, n
<1>2. \A i \in 1..(n - 1) : i + 1 \in 1..n /\ i + 1 > 1
  BY <1>1
<1>3. ASSUME Told(q, k, v)
      PROVE  Told(t, k, v) \/ (Tells(q[1], k) /\ q[1].items[k] = v /\ Untold(t, k))
  <2>1. PICK j \in 1..n : /\ Tells(q[j], k) /\ q[j].items[k] = v
                          /\ \A i \in 1..n : i > j => ~Tells(q[i], k)
    BY <1>1, <1>3 DEF Told
  <2>2. CASE j = 1
    BY <1>1, <1>2, <2>1, <2>2 DEF Untold
  <2>3. CASE j # 1
    <3>1. j - 1 \in 1..(n - 1) /\ t[j - 1] = q[j]
      <4>1. j - 1 \in 1..(n - 1) /\ (j - 1) + 1 = j
        BY <1>1, <2>3
      <4> QED
        BY <1>1, <4>1
    <3>2. ASSUME NEW i \in 1..(n - 1), i > j - 1
          PROVE  ~Tells(t[i], k)
      <4>1. i + 1 \in 1..n /\ i + 1 > j
        BY <1>1, <3>2
      <4> QED
        BY <1>1, <2>1, <4>1
    <3> QED
      BY <1>1, <2>1, <3>1, <3>2 DEF Told
  <2> QED
    BY <2>2, <2>3
<1>4. ASSUME Untold(q, k)
      PROVE  ~Tells(q[1], k) /\ Untold(t, k)
  <2>1. 1 \in 1..n /\ \A i \in 1..n : ~Tells(q[i], k)
    BY <1>1, <1>4 DEF Untold
  <2>2. ASSUME NEW i \in 1..(n - 1)
        PROVE  ~Tells(t[i], k)
    BY <1>1, <1>2, <2>1
  <2> QED
    BY <1>1, <2>1, <2>2 DEF Untold
<1> QED
  BY <1>1, <1>3, <1>4 DEF t

LEMMA TailOf ==
  ASSUME NEW q \in Seq(ToWindow), q # <<>>, NEW type
  PROVE  /\ NoneOf(q, type) => NoneOf(Tail(q), type) /\ Head(q).type # type
         /\ OneOf(q, type) /\ Head(q).type = type => NoneOf(Tail(q), type)
         /\ OneOf(q, type) /\ Head(q).type # type => OneOf(Tail(q), type)
<1> DEFINE t == Tail(q)
           n == Len(q)
<1>1. /\ Head(q) = q[1] /\ DOMAIN q = 1..n /\ n \in Nat /\ n > 0
      /\ DOMAIN t = 1..(n - 1)
      /\ \A i \in 1..(n - 1) : t[i] = q[i + 1]
  BY Shortened
<1> HIDE DEF t, n
<1>2. 1 \in 1..n /\ \A i \in 1..(n - 1) : i + 1 \in 1..n /\ i + 1 # 1
  BY <1>1
<1>3. NoneOf(q, type) => NoneOf(t, type) /\ q[1].type # type
  BY <1>1, <1>2 DEF NoneOf
<1>4. ASSUME OneOf(q, type)
      PROVE  IF q[1].type = type THEN NoneOf(t, type) ELSE OneOf(t, type)
  <2>1. PICK j \in 1..n : q[j].type = type /\ \A i \in 1..n : i # j => q[i].type # type
    BY <1>1, <1>4 DEF OneOf
  <2>2. CASE j = 1
    BY <1>1, <1>2, <2>1, <2>2 DEF NoneOf
  <2>3. CASE j # 1
    <3>1. j - 1 \in 1..(n - 1) /\ (j - 1) + 1 = j
      BY <1>1, <2>3
    <3>2. t[j - 1] = q[j]
      BY <1>1, <3>1
    <3>3. ASSUME NEW i \in 1..(n - 1), i # j - 1
          PROVE  t[i].type # type
      <4>1. i + 1 \in 1..n /\ i + 1 # j
        BY <1>1, <3>3
      <4> QED
        BY <1>1, <2>1, <4>1
    <3>4. q[1].type # type
      BY <1>2, <2>1, <2>3
    <3> QED
      BY <1>1, <2>1, <3>1, <3>2, <3>3, <3>4 DEF OneOf
  <2> QED
    BY <2>2, <2>3
<1> QED
  BY <1>1, <1>3, <1>4 DEF t

\* An items message tells of every key.
LEMMA ItemsAreTold ==
  ASSUME NEW q \in Seq(ToWindow), NEW k
  PROVE  OneOf(q, "items") => ~Untold(q, k)
BY DEF OneOf, Untold, Tells

\* What the main process, whose items are c, will have once it has the changes
\* of the storage s, whose active request has yet to reach it if busy.
Wanted(s, busy, c) == Updated(Updated(c, IF busy THEN s.active ELSE NoRequest), Pending(s))

\* What is under way between the main process and a window in life l with
\* storage s: its one request for the items, or that of its flush, or the
\* answer to it.
Line(l, s, tm, q) ==
  /\ l = "closed" => tm = <<>> /\ q = <<>>
  /\ l = "loading" =>
       /\ ~s.closed /\ ~s.triggered /\ ~s.queued /\ ~Flushing(s)
       /\ NoneOf(q, "updated")
       /\ \/ tm = <<GetItems>> /\ NoneOf(q, "items")
          \/ tm = <<>> /\ OneOf(q, "items")
  /\ l \in {"open", "closing"} =>
       /\ l = "open" => ~s.closed
       /\ NoneOf(q, "items")
       /\ \/ ~Flushing(s) /\ tm = <<>> /\ NoneOf(q, "updated")
          \/ Flushing(s) /\ tm = <<UpdateItems(s.active)>> /\ NoneOf(q, "updated")
          \/ Flushing(s) /\ tm = <<>> /\ OneOf(q, "updated")

\* A key is as the main process has it, in what is under way to the window or
\* in the window, unless the main process is about to tell of it or the window
\* has yet to.
Agreement(l, s, busy, q, c, held, k) ==
  \/ k \in held
  \/ Told(q, k, c[k])
  \/ l = "open" /\ Untold(q, k) /\ s.cache[k] \in {c[k], Wanted(s, busy, c)[k]}

WindowInv(l, s, tm, q, c, held) ==
  /\ Line(l, s, tm, q)
  /\ l = "open" \/ (l = "loading" /\ tm = <<>>) =>
       \A k \in Key : Agreement(l, s, tm # <<>>, q, c, held, k)

LEMMA WantedAt ==
  ASSUME NEW s, Sound(s), NEW busy \in BOOLEAN, NEW c \in Items, NEW d \in Items, NEW k \in Key, c[k] = d[k]
  PROVE  Wanted(s, busy, c)[k] = Wanted(s, busy, d)[k]
BY DEF Wanted, Updated

LEMMA StoreCaches ==
  ASSUME NEW s, Sound(s), ~s.closed, NEW items \in Items
  PROVE  LET t == Store(s, items) IN
         t.cache = items /\ t.active = s.active /\ (t.closed <=> s.closed)
<1>1. CASE Changed(s, items) = {}
  <2>1. \A k \in Key : items[k] = s.cache[k]
    BY <1>1 DEF Changed
  <2>2. items = s.cache
    BY <2>1 DEF Sound, StorageType, Items
  <2> QED
    BY <1>1, <2>2 DEF Store
<1>2. CASE Changed(s, items) # {}
  BY <1>2 DEF Store, Sound, StorageType
<1> QED
  BY <1>1, <1>2

\* Storing wants what is stored, and changes nothing else.
LEMMA StoreWants ==
  ASSUME NEW s, Sound(s), ~s.closed, NEW items \in Items, NEW busy \in BOOLEAN, NEW c \in Items, NEW k \in Key
  PROVE  LET t == Store(s, items) IN
         /\ items[k] # s.cache[k] => Wanted(t, busy, c)[k] = items[k]
         /\ items[k] = s.cache[k] => Wanted(t, busy, c)[k] = Wanted(s, busy, c)[k]
<1> DEFINE ks == Changed(s, items)
           t == Store(s, items)
           base == Updated(c, IF busy THEN s.active ELSE NoRequest)
<1>1. \A r : Updated(base, r)[k] = IF k \in r.delete THEN Absent
                                   ELSE IF r.insert[k] # Absent THEN r.insert[k] ELSE base[k]
  BY DEF Updated
<1>2. CASE ks = {}
  <2>1. t = s /\ items[k] = s.cache[k]
    BY <1>2 DEF Store, Changed
  <2> QED
    BY <2>1
<1>3. CASE ks # {}
  <2>1. /\ t.active = s.active
        /\ t.pendingInserts = [x \in Key |-> IF x \in ks THEN items[x] ELSE s.pendingInserts[x]]
        /\ t.pendingDeletes = (s.pendingDeletes \ ks) \cup {x \in ks : items[x] = Absent}
    BY <1>3 DEF Store, Sound, StorageType
  <2> HIDE DEF t
  <2>2. Wanted(t, busy, c) = Updated(base, Pending(t)) /\ Wanted(s, busy, c) = Updated(base, Pending(s))
    BY <2>1 DEF Wanted
  <2> HIDE DEF base
  <2>3. (k \in ks) <=> (items[k] # s.cache[k])
    BY DEF Changed
  <2> QED
    BY <1>1, <2>1, <2>2, <2>3 DEF Pending, t
<1> QED
  BY <1>2, <1>3

\* A flush that begins, and one that has been answered, want the same.
LEMMA FlushPendingWants ==
  ASSUME NEW s, Sound(s), ~Flushing(s), NEW awaited, NEW during, NEW c \in Items
  PROVE  LET t == FlushPending(s, awaited, during) IN
         /\ Wanted(t, Flushing(t), c) = Wanted(s, FALSE, c)
         /\ t.cache = s.cache /\ (t.closed <=> s.closed)
<1> DEFINE t == FlushPending(s, awaited, during)
<1>1. t.cache = s.cache /\ t.active = Pending(s) /\ Pending(t) = NoRequest /\ (t.closed <=> s.closed)
  BY DEF Sound, FlushPending, StorageType, Pending, NoRequest
<1> HIDE DEF t
<1>2. Pending(s) \in Request
  BY DEF Sound, StorageType, Pending, Request
<1>3. Updated(c, Pending(s)) \in Items
  BY <1>2, UpdatedType
<1>4. Wanted(s, FALSE, c) = Updated(c, Pending(s))
  BY UpdatedByNothing DEF Wanted
<1>5. Wanted(t, Flushing(t), c) = Updated(c, Pending(s))
  <2>1. CASE Flushing(t)
    BY <1>1, <1>3, <2>1, UpdatedByNothing DEF Wanted
  <2>2. CASE ~Flushing(t)
    <3>1. Pending(s) = NoRequest
      BY <1>1, <2>2 DEF Flushing
    <3> QED
      BY <1>1, <2>2, <3>1, UpdatedByNothing DEF Wanted
  <2> QED
    BY <2>1, <2>2
<1> QED
  BY <1>1, <1>4, <1>5 DEF t

LEMMA DelayIsOverWants ==
  ASSUME NEW s, Sound(s), ~Flushing(s), NEW c \in Items
  PROVE  LET t == DelayIsOver(s) IN
         /\ Wanted(t, Flushing(t), c) = Wanted(s, FALSE, c)
         /\ t.cache = s.cache /\ (t.closed <=> s.closed)
<1> DEFINE u == [s EXCEPT !.triggered = FALSE]
<1>1. /\ Sound(u) /\ ~Flushing(u) /\ Wanted(u, FALSE, c) = Wanted(s, FALSE, c)
      /\ u.cache = s.cache /\ (u.closed <=> s.closed)
  BY DEF Sound, StorageType, Disjoint, Pending, Flushing, Wanted
<1>2. DelayIsOver(s) = FlushPending(u, "delayed", "flushing")
  BY <1>1 DEF DelayIsOver
<1> HIDE DEF u
<1>3. LET t == FlushPending(u, "delayed", "flushing") IN
      Wanted(t, Flushing(t), c) = Wanted(u, FALSE, c) /\ t.cache = u.cache /\ (t.closed <=> u.closed)
  BY <1>1, FlushPendingWants
<1> QED
  BY <1>1, <1>2, <1>3

LEMMA UpdateDoneWants ==
  ASSUME NEW s, Sound(s), NEW c \in Items
  PROVE  LET t == UpdateDone(s, TRUE) IN
         /\ Wanted(t, Flushing(t), c) = Wanted(s, FALSE, c)
         /\ t.cache = s.cache /\ (t.closed <=> s.closed)
<1> DEFINE closing == CASE s.closing = "flushing" -> "flushed"
                        [] s.closing = "queuedFlush" -> "flushed"
                        [] OTHER -> s.closing
           u == [s EXCEPT !.active = NoRequest, !.queued = FALSE, !.closing = closing]
<1>1. closing \in {"no", "delayed", "flushing", "queued", "queuedFlush", "flushed", "never"}
  BY DEF Sound, StorageType
<1>2. UpdateDone(s, TRUE) = IF s.queued THEN FlushPending(u, "queued", "queuedFlush") ELSE u
  BY DEF UpdateDone
<1> HIDE DEF closing
<1>3. Sound(u) /\ ~Flushing(u)
  BY <1>1 DEF Sound, StorageType, Disjoint, Pending, NoRequest, NoItems, Request, Items, Flushing
<1>4. Wanted(u, FALSE, c) = Wanted(s, FALSE, c) /\ u.cache = s.cache /\ (u.closed <=> s.closed)
  BY DEF Sound, StorageType, Pending, Wanted
<1> HIDE DEF u
<1>5. CASE s.queued
  <2>1. LET t == FlushPending(u, "queued", "queuedFlush") IN
        Wanted(t, Flushing(t), c) = Wanted(u, FALSE, c) /\ t.cache = u.cache /\ (t.closed <=> u.closed)
    BY <1>3, FlushPendingWants
  <2> QED
    BY <1>2, <1>4, <1>5, <2>1
<1>6. CASE ~s.queued
  <2>1. UpdateDone(s, TRUE) = u
    BY <1>2, <1>6
  <2>2. Wanted(u, Flushing(u), c) = Wanted(u, FALSE, c)
    BY <1>3 DEF Wanted
  <2> QED
    BY <1>4, <2>1, <2>2
<1> QED
  BY <1>5, <1>6

\* The main process stores d where it had c, and holds the keys to tell of.
LEMMA MainStoresAgrees ==
  ASSUME NEW l, NEW s, Sound(s), NEW tm, NEW q, NEW c \in Items, NEW d \in Items, NEW held, NEW holds,
         WindowInv(l, s, tm, q, c, held),
         held \subseteq holds, \A k \in Key : c[k] # d[k] => k \in holds
  PROVE  WindowInv(l, s, tm, q, d, holds)
<1>1. ASSUME NEW k \in Key, Agreement(l, s, tm # <<>>, q, c, held, k)
      PROVE  Agreement(l, s, tm # <<>>, q, d, holds, k)
  <2>1. CASE k \in holds
    BY <2>1 DEF Agreement
  <2>2. CASE k \notin holds
    <3>1. c[k] = d[k] /\ k \notin held
      BY <2>2
    <3>2. Wanted(s, tm # <<>>, c)[k] = Wanted(s, tm # <<>>, d)[k]
      BY <3>1, WantedAt
    <3> QED
      BY <1>1, <3>1, <3>2 DEF Agreement
  <2> QED
    BY <2>1, <2>2
<1> QED
  BY <1>1 DEF WindowInv

\* It answers the request for the items.
LEMMA GetItemsAgrees ==
  ASSUME NEW l \in {"closed", "loading", "open", "closing"}, NEW s, NEW tm, NEW q \in Seq(ToWindow), NEW c \in Items, NEW held,
         WindowInv(l, s, tm, q, c, held), tm # <<>>, Head(tm).type = "getItems"
  PROVE  WindowInv(l, s, Tail(tm), Append(q, ItemsAre(c)), c, held)
<1> DEFINE m == ItemsAre(c)
           p == Append(q, m)
<1>1. m \in ToWindow /\ m.type = "items" /\ m.items = c
  BY MessageTypes DEF ItemsAre
<1>2. \A r : Head(<<UpdateItems(r)>>).type = "updateItems"
  BY DEF UpdateItems
<1>3. l = "loading" /\ tm = <<GetItems>>
  BY <1>2 DEF WindowInv, Line
<1>4. Tail(tm) = <<>>
  BY <1>3
<1> HIDE DEF m
<1>5. NoneOf(p, "updated") /\ OneOf(p, "items")
  BY <1>1, <1>3, AppendOf DEF WindowInv, Line
<1>6. ASSUME NEW k \in Key
      PROVE  Told(p, k, c[k])
  <2>1. Tells(m, k)
    BY <1>1 DEF Tells
  <2> QED
    BY <1>1, <2>1, AppendTells
<1> HIDE DEF p
<1>7. Line(l, s, <<>>, p)
  BY <1>3, <1>5 DEF WindowInv, Line
<1> QED
  BY <1>3, <1>4, <1>6, <1>7 DEF WindowInv, Agreement, p, m

\* It has the changes of the window, and answers that.
LEMMA UpdateItemsAgrees ==
  ASSUME NEW l \in {"closed", "loading", "open", "closing"}, NEW s, Sound(s), NEW tm, NEW q \in Seq(ToWindow), NEW c \in Items,
         NEW held, NEW holds,
         WindowInv(l, s, tm, q, c, held), tm # <<>>, Head(tm).type # "getItems",
         held \subseteq holds, \A k \in Key : c[k] # Updated(c, Head(tm).request)[k] => k \in holds
  PROVE  WindowInv(l, s, Tail(tm), Append(q, UpdateIsDone), Updated(c, Head(tm).request), holds)
<1> DEFINE m == UpdateIsDone
           p == Append(q, m)
           d == Updated(c, Head(tm).request)
<1>1. m \in ToWindow /\ m.type = "updated"
  BY MessageTypes DEF UpdateIsDone
<1>2. Head(<<GetItems>>).type = "getItems"
  BY DEF GetItems
<1>3. /\ l \in {"open", "closing"} /\ Flushing(s) /\ tm = <<UpdateItems(s.active)>>
      /\ NoneOf(q, "updated") /\ NoneOf(q, "items") /\ (l = "open" => ~s.closed)
  BY <1>2 DEF WindowInv, Line
<1>4. Tail(tm) = <<>> /\ Head(tm).request = s.active
  BY <1>3 DEF UpdateItems
<1>5. d = Updated(c, s.active) /\ d \in Items
  BY <1>4, UpdatedType DEF Sound, StorageType
<1> HIDE DEF m, d
<1>6. OneOf(p, "updated") /\ NoneOf(p, "items")
  BY <1>1, <1>3, AppendOf
<1>7. Line(l, s, <<>>, p)
  BY <1>3, <1>6 DEF Line
<1>8. Wanted(s, FALSE, d) = Wanted(s, TRUE, c)
  BY <1>5, UpdatedByNothing DEF Wanted
<1>9. ASSUME NEW k \in Key, l = "open"
      PROVE  Agreement(l, s, FALSE, p, d, holds, k)
  <2>1. CASE k \in holds
    BY <2>1 DEF Agreement
  <2>2. CASE k \notin holds
    <3>1. k \notin held /\ c[k] = d[k]
      BY <2>2 DEF d
    <3>2. Agreement(l, s, TRUE, q, c, held, k)
      BY <1>3, <1>9 DEF WindowInv
    <3>3. ~Tells(m, k)
      BY <1>1 DEF Tells
    <3>4. CASE Told(q, k, c[k])
      <4>1. Told(p, k, d[k])
        BY <1>1, <3>1, <3>3, <3>4, AppendTells
      <4> QED
        BY <4>1 DEF Agreement
    <3>5. CASE Untold(q, k) /\ s.cache[k] \in {c[k], Wanted(s, TRUE, c)[k]}
      <4>1. Untold(p, k)
        BY <1>1, <3>3, <3>5, AppendTells
      <4> QED
        BY <1>8, <1>9, <3>1, <3>5, <4>1 DEF Agreement
    <3> QED
      BY <3>1, <3>2, <3>4, <3>5 DEF Agreement
  <2> QED
    BY <2>1, <2>2
<1> HIDE DEF p
<1> QED
  BY <1>3, <1>4, <1>7, <1>9 DEF WindowInv, p, m, d

\* It tells a window of the keys it has held.
LEMMA ChangeEventAgrees ==
  ASSUME NEW l \in {"loading", "open", "closing"}, NEW s, NEW tm, NEW q \in Seq(ToWindow), NEW c \in Items, NEW held \in SUBSET Key,
         WindowInv(l, s, tm, q, c, held)
  PROVE  WindowInv(l, s, tm, Append(q, ChangeEvent([k \in held |-> c[k]])), c, {})
<1> DEFINE m == ChangeEvent([k \in held |-> c[k]])
           p == Append(q, m)
<1>1. m \in ToWindow /\ m.type = "changed" /\ m.items = [k \in held |-> c[k]]
  BY MessageTypes DEF ChangeEvent
<1> HIDE DEF m
<1>2. \A type \in {"items", "updated"} :
        (NoneOf(q, type) => NoneOf(p, type)) /\ (OneOf(q, type) => OneOf(p, type))
  BY <1>1, AppendOf
<1>3. Line(l, s, tm, q)
  BY DEF WindowInv
<1>4. ASSUME NEW k \in Key, NEW busy \in BOOLEAN, Agreement(l, s, busy, q, c, held, k)
      PROVE  Agreement(l, s, busy, p, c, {}, k)
  <2>1. CASE k \in held
    <3>1. Tells(m, k) /\ m.items[k] = c[k]
      BY <1>1, <2>1 DEF Tells
    <3>2. Told(p, k, c[k])
      BY <1>1, <3>1, AppendTells
    <3> QED
      BY <3>2 DEF Agreement
  <2>2. CASE k \notin held
    <3>1. ~Tells(m, k)
      BY <1>1, <2>2 DEF Tells
    <3>2. (Told(q, k, c[k]) => Told(p, k, c[k])) /\ (Untold(q, k) => Untold(p, k))
      BY <1>1, <3>1, AppendTells
    <3> HIDE DEF p
    <3> QED
      BY <1>4, <2>2, <3>2 DEF Agreement
  <2> QED
    BY <2>1, <2>2
<1> HIDE DEF p
<1>5. Line(l, s, tm, p)
  <2>1. CASE l = "loading"
    BY <1>2, <1>3, <2>1 DEF Line
  <2>2. CASE l \in {"open", "closing"}
    BY <1>2, <1>3, <2>2 DEF Line
  <2> QED
    BY <2>1, <2>2
<1> QED
  BY <1>4, <1>5 DEF WindowInv, p, m

\* The window stores items.
LEMMA WindowStoresAgrees ==
  ASSUME NEW s, Sound(s), NEW tm, NEW q, NEW c \in Items, NEW held, NEW items \in Items,
         WindowInv("open", s, tm, q, c, held)
  PROVE  WindowInv("open", Store(s, items), tm, q, c, held)
<1> DEFINE t == Store(s, items)
<1>1. ~s.closed /\ Line("open", s, tm, q)
  BY DEF WindowInv, Line
<1>2. t.cache = items /\ t.active = s.active /\ (t.closed <=> s.closed)
  BY <1>1, StoreCaches
<1>3. \A k \in Key, busy \in BOOLEAN :
        /\ items[k] # s.cache[k] => Wanted(t, busy, c)[k] = items[k]
        /\ items[k] = s.cache[k] => Wanted(t, busy, c)[k] = Wanted(s, busy, c)[k]
  BY <1>1, StoreWants
<1> HIDE DEF t
<1>4. ASSUME NEW k \in Key, NEW busy \in BOOLEAN, Agreement("open", s, busy, q, c, held, k)
      PROVE  Agreement("open", t, busy, q, c, held, k)
  <2>1. CASE items[k] = s.cache[k]
    BY <1>2, <1>3, <1>4, <2>1 DEF Agreement
  <2>2. CASE items[k] # s.cache[k]
    BY <1>2, <1>3, <1>4, <2>2 DEF Agreement
  <2> QED
    BY <2>1, <2>2
<1>5. Line("open", t, tm, q)
  BY <1>1, <1>2 DEF Line, Flushing
<1> QED
  BY <1>4, <1>5 DEF WindowInv, t

LEMMA WindowFlushesAgrees ==
  ASSUME NEW s, Sound(s), NEW tm, NEW q, NEW c \in Items, NEW held,
         WindowInv("open", s, tm, q, c, held)
  PROVE  WindowInv("open", Flush(s), tm, q, c, held) /\ WindowInv("closing", Close(s), tm, q, c, held)
<1>1. ~s.closed /\ Line("open", s, tm, q)
  BY DEF WindowInv, Line
<1>2. /\ Flush(s).cache = s.cache /\ Flush(s).active = s.active /\ ~Flush(s).closed
      /\ Pending(Flush(s)) = Pending(s) /\ Close(s).active = s.active
  BY <1>1 DEF Flush, Close, Sound, StorageType, Pending
<1>3. Line("open", Flush(s), tm, q) /\ Line("closing", Close(s), tm, q)
  BY <1>1, <1>2 DEF Line, Flushing
<1>4. \A k \in Key : Agreement("open", Flush(s), tm # <<>>, q, c, held, k)
  BY <1>2 DEF WindowInv, Agreement, Wanted
<1> QED
  BY <1>3, <1>4 DEF WindowInv

\* The requests under way of a window whose storage becomes s.
Sends(s, tm) == IF Flushing(s) /\ tm = <<>> THEN <<UpdateItems(s.active)>> ELSE tm

\* The delayer of the window hands its flush to the throttler.
LEMMA WindowDelayIsOverAgrees ==
  ASSUME NEW l \in {"loading", "open", "closing"}, NEW s, Sound(s), s.triggered, NEW tm, NEW q, NEW c \in Items, NEW held,
         WindowInv(l, s, tm, q, c, held)
  PROVE  WindowInv(l, DelayIsOver(s), IF Flushing(s) THEN tm ELSE Sends(DelayIsOver(s), tm), q, c, held)
<1> DEFINE t == DelayIsOver(s)
<1>1. l \in {"open", "closing"} /\ Line(l, s, tm, q)
  BY DEF WindowInv, Line
<1>2. CASE Flushing(s)
  <2>1. t.cache = s.cache /\ t.active = s.active /\ (t.closed <=> s.closed) /\ Pending(t) = Pending(s)
    BY <1>2 DEF DelayIsOver, Sound, StorageType, Pending, Flushing
  <2> HIDE DEF t
  <2>2. Line(l, t, tm, q)
    BY <1>1, <2>1 DEF Line, Flushing
  <2>3. \A k \in Key : Agreement(l, s, tm # <<>>, q, c, held, k) => Agreement(l, t, tm # <<>>, q, c, held, k)
    BY <2>1 DEF Agreement, Wanted
  <2> QED
    BY <1>1, <1>2, <2>2, <2>3 DEF WindowInv, t
<1>3. CASE ~Flushing(s)
  <2>1. /\ Wanted(t, Flushing(t), c) = Wanted(s, FALSE, c)
        /\ t.cache = s.cache /\ (t.closed <=> s.closed)
    BY <1>3, DelayIsOverWants
  <2> HIDE DEF t
  <2>2. tm = <<>> /\ NoneOf(q, "items") /\ NoneOf(q, "updated") /\ (l = "open" => ~t.closed)
    BY <1>1, <1>3, <2>1 DEF Line
  <2>3. Sends(t, tm) = (IF Flushing(t) THEN <<UpdateItems(t.active)>> ELSE <<>>)
        /\ (Sends(t, tm) # <<>> <=> Flushing(t))
    BY <2>2 DEF Sends
  <2>4. Line(l, t, Sends(t, tm), q)
    BY <1>1, <2>2, <2>3 DEF Line
  <2>5. ASSUME NEW k \in Key, l = "open"
        PROVE  Agreement(l, t, Sends(t, tm) # <<>>, q, c, held, k)
    <3>1. Agreement(l, s, FALSE, q, c, held, k)
      BY <2>2, <2>5 DEF WindowInv
    <3>2. Wanted(t, Sends(t, tm) # <<>>, c) = Wanted(s, FALSE, c)
      BY <2>1, <2>3 DEF Wanted
    <3> QED
      BY <2>1, <3>1, <3>2 DEF Agreement
  <2> QED
    BY <1>1, <1>3, <2>4, <2>5 DEF WindowInv, t
<1> QED
  BY <1>2, <1>3

\* The window has the items.
LEMMA ItemsReceivedAgrees ==
  ASSUME NEW l \in {"closed", "loading", "open", "closing"}, NEW s, Sound(s), NEW tm, NEW q \in Seq(ToWindow), NEW c \in Items, NEW held,
         WindowInv(l, s, tm, q, c, held), q # <<>>, Head(q).type = "items"
  PROVE  WindowInv("open", [s EXCEPT !.cache = Head(q).items], tm, Tail(q), c, held)
<1> DEFINE m == Head(q)
           t == [s EXCEPT !.cache = m.items]
           r == Tail(q)
<1>1. Line(l, s, tm, q) /\ ~NoneOf(q, "items")
  BY TailOf DEF WindowInv
<1>2. /\ l = "loading" /\ ~s.closed /\ ~Flushing(s) /\ tm = <<>>
      /\ NoneOf(q, "updated") /\ OneOf(q, "items")
  BY <1>1 DEF Line
<1>3. NoneOf(r, "updated") /\ NoneOf(r, "items")
  BY <1>2, TailOf
<1>4. t.cache = m.items /\ (t.closed <=> s.closed) /\ (Flushing(t) <=> Flushing(s))
  BY DEF Sound, StorageType, Flushing
<1> HIDE DEF t
<1>5. Line("open", t, tm, r)
  BY <1>2, <1>3, <1>4 DEF Line
<1>6. ASSUME NEW k \in Key
      PROVE  Agreement("open", t, FALSE, r, c, held, k)
  <2>1. Agreement(l, s, FALSE, q, c, held, k)
    BY <1>2 DEF WindowInv
  <2>2. k \in held \/ Told(q, k, c[k])
    BY <1>2, <2>1 DEF Agreement
  <2>3. k \in held \/ Told(r, k, c[k]) \/ (m.items[k] = c[k] /\ Untold(r, k))
    BY <2>2, TailTells
  <2> QED
    BY <1>4, <2>3 DEF Agreement
<1> QED
  BY <1>2, <1>5, <1>6 DEF WindowInv, t

\* The flush of the window is answered, and the next may begin.
LEMMA UpdatedReceivedAgrees ==
  ASSUME NEW l \in {"closed", "loading", "open", "closing"}, NEW s, Sound(s), NEW tm, NEW q \in Seq(ToWindow), NEW c \in Items, NEW held,
         WindowInv(l, s, tm, q, c, held), q # <<>>, Head(q).type = "updated"
  PROVE  WindowInv(l, UpdateDone(s, TRUE), Sends(UpdateDone(s, TRUE), tm), Tail(q), c, held)
<1> DEFINE t == UpdateDone(s, TRUE)
           r == Tail(q)
<1>1. Line(l, s, tm, q) /\ ~NoneOf(q, "updated")
  BY TailOf DEF WindowInv
<1>2. /\ l \in {"open", "closing"} /\ (l = "open" => ~s.closed) /\ Flushing(s) /\ tm = <<>>
      /\ NoneOf(q, "items") /\ OneOf(q, "updated")
  BY <1>1 DEF Line
<1>3. NoneOf(r, "updated") /\ NoneOf(r, "items")
  BY <1>2, TailOf
<1>4. /\ Wanted(t, Flushing(t), c) = Wanted(s, FALSE, c)
      /\ t.cache = s.cache /\ (t.closed <=> s.closed)
  BY UpdateDoneWants
<1> HIDE DEF t
<1>5. Sends(t, tm) = (IF Flushing(t) THEN <<UpdateItems(t.active)>> ELSE <<>>)
      /\ (Sends(t, tm) # <<>> <=> Flushing(t))
  BY <1>2 DEF Sends
<1>6. Line(l, t, Sends(t, tm), r)
  BY <1>2, <1>3, <1>4, <1>5 DEF Line
<1>7. ASSUME NEW k \in Key, l = "open"
      PROVE  Agreement(l, t, Sends(t, tm) # <<>>, r, c, held, k)
  <2>1. Agreement(l, s, FALSE, q, c, held, k)
    BY <1>2, <1>7 DEF WindowInv
  <2>2. ~Tells(Head(q), k)
    BY DEF Tells
  <2>3. (Told(q, k, c[k]) => Told(r, k, c[k])) /\ (Untold(q, k) => Untold(r, k))
    BY <2>2, TailTells
  <2>4. Agreement(l, s, FALSE, r, c, held, k)
    BY <2>1, <2>3 DEF Agreement
  <2>5. Wanted(t, Sends(t, tm) # <<>>, c) = Wanted(s, FALSE, c)
    BY <1>4, <1>5 DEF Wanted
  <2> QED
    BY <1>4, <2>4, <2>5 DEF Agreement
<1> QED
  BY <1>2, <1>6, <1>7 DEF WindowInv, t

\* The window is told of changes.
LEMMA ChangeReceivedAgrees ==
  ASSUME NEW l \in {"closed", "loading", "open", "closing"}, NEW s, Sound(s), NEW tm, NEW q \in Seq(ToWindow), NEW c \in Items, NEW held,
         WindowInv(l, s, tm, q, c, held), q # <<>>, Head(q).type \notin {"items", "updated"}
  PROVE  WindowInv(l, AcceptExternal(s, Head(q).items), tm, Tail(q), c, held)
<1> DEFINE m == Head(q)
           t == AcceptExternal(s, m.items)
           r == Tail(q)
<1>1. m \in ToWindow /\ m.type = "changed" /\ \A k : Tells(m, k) <=> k \in DOMAIN m.items
  BY Shortened DEF ToWindow, Tells
<1>2. Line(l, s, tm, q)
  BY DEF WindowInv
<1>3. \A type \in {"items", "updated"} :
        (NoneOf(q, type) => NoneOf(r, type)) /\ (OneOf(q, type) => OneOf(r, type))
  BY <1>1, TailOf
<1>4. /\ t.active = s.active /\ (t.closed <=> s.closed) /\ (t.triggered <=> s.triggered)
      /\ (t.queued <=> s.queued) /\ Pending(t) = Pending(s)
  BY DEF AcceptExternal, Sound, StorageType, Pending
<1>5. ASSUME ~s.closed, NEW k \in Key
      PROVE  t.cache[k] = IF Tells(m, k) THEN m.items[k] ELSE s.cache[k]
  BY <1>1, <1>5 DEF AcceptExternal, Sound, StorageType
<1>6. l # "closed"
  BY <1>2 DEF Line
<1>7. \A k \in Key : (Told(q, k, c[k]) => Told(r, k, c[k]) \/ (Tells(m, k) /\ m.items[k] = c[k] /\ Untold(r, k)))
                     /\ (Untold(q, k) => ~Tells(m, k) /\ Untold(r, k))
  BY TailTells
<1>8. \A busy \in BOOLEAN : Wanted(t, busy, c) = Wanted(s, busy, c)
  BY <1>4 DEF Wanted
<1>9. \A k \in Key : OneOf(r, "items") => ~Untold(r, k)
  BY Shortened, ItemsAreTold
<1> HIDE DEF m, t, r
<1>10. Line(l, t, tm, r)
  <2>1. CASE l = "loading"
    BY <1>2, <1>3, <1>4, <2>1 DEF Line, Flushing
  <2>2. CASE l \in {"open", "closing"}
    BY <1>2, <1>3, <1>4, <2>2 DEF Line, Flushing
  <2> QED
    BY <1>6, <2>1, <2>2
<1>11. ASSUME NEW k \in Key, l = "open"
       PROVE  Agreement(l, t, tm # <<>>, r, c, held, k)
  <2>1. ~s.closed /\ Agreement(l, s, tm # <<>>, q, c, held, k)
    BY <1>2, <1>11 DEF WindowInv, Line
  <2> QED
    BY <1>5, <1>7, <1>8, <1>11, <2>1 DEF Agreement
<1>12. ASSUME NEW k \in Key, l = "loading", tm = <<>>
       PROVE  Agreement(l, t, tm # <<>>, r, c, held, k)
  <2>1. ~Untold(r, k) /\ Agreement(l, s, tm # <<>>, q, c, held, k)
    BY <1>2, <1>3, <1>9, <1>12 DEF WindowInv, Line, GetItems
  <2> QED
    BY <1>7, <1>12, <2>1 DEF Agreement
<1> QED
  BY <1>10, <1>11, <1>12 DEF WindowInv, m, t, r

AgreeInvAt(w) == WindowInv(life[w], window[w], toMain[w], toWindow[w], main.cache, changed)
AgreeInv ==
  /\ (\E w \in Window : life[w] # "closed") => mainLife = "up" /\ ~main.closed
  /\ \A w \in Window : AgreeInvAt(w)

LEMMA ClosedAgrees ==
  ASSUME NEW s, NEW c, NEW held
  PROVE  WindowInv("closed", s, <<>>, <<>>, c, held)
BY DEF WindowInv, Line

\* A step of window w, which the main process takes no part in.
LEMMA WindowStepAgrees ==
  ASSUME TypeOK, AgreeInv, NEW w \in Window, UNCHANGED <<main, mainLife, changed>>,
         NEW l, life' = [life EXCEPT ![w] = l], l # "closed" => mainLife = "up" /\ ~main.closed,
         NEW s, window' = [window EXCEPT ![w] = s],
         NEW tm, toMain' = [toMain EXCEPT ![w] = tm],
         NEW q, toWindow' = [toWindow EXCEPT ![w] = q],
         WindowInv(l, s, tm, q, main.cache, changed)
  PROVE  AgreeInv'
<1>1. life'[w] = l /\ window'[w] = s /\ toMain'[w] = tm /\ toWindow'[w] = q
  BY DEF TypeOK
<1>2. \A x \in Window \ {w} : life'[x] = life[x] /\ window'[x] = window[x] /\ toMain'[x] = toMain[x] /\ toWindow'[x] = toWindow[x]
  BY DEF TypeOK
<1>3. ASSUME NEW x \in Window
      PROVE  AgreeInvAt(x)'
  <2>1. CASE x = w
    BY <1>1, <2>1 DEF AgreeInvAt
  <2>2. CASE x # w
    BY <1>2, <2>2 DEF AgreeInv, AgreeInvAt
  <2> QED
    BY <2>1, <2>2
<1>4. ASSUME NEW x \in Window, life'[x] # "closed"
      PROVE  mainLife' = "up" /\ ~main'.closed
  <2>1. CASE x = w
    BY <1>1, <1>4, <2>1
  <2>2. CASE x # w
    BY <1>2, <1>4, <2>2 DEF AgreeInv
  <2> QED
    BY <2>1, <2>2
<1> QED
  BY <1>3, <1>4 DEF AgreeInv

\* A step of the main process that stores nothing and tells nobody.
LEMMA MainStepAgrees ==
  ASSUME AgreeInv, UNCHANGED <<life, window, toMain, toWindow, changed>>,
         (\E w \in Window : life[w] # "closed") =>
           main'.cache = main.cache /\ mainLife' = mainLife /\ (main'.closed <=> main.closed)
  PROVE  AgreeInv'
<1>1. ASSUME NEW w \in Window
      PROVE  AgreeInvAt(w)'
  <2>1. CASE life[w] # "closed"
    BY <2>1 DEF AgreeInv, AgreeInvAt
  <2>2. CASE life[w] = "closed"
    <3>1. toMain[w] = <<>> /\ toWindow[w] = <<>>
      BY <2>2 DEF AgreeInv, AgreeInvAt, WindowInv, Line
    <3> QED
      BY <2>2, <3>1, ClosedAgrees DEF AgreeInvAt
  <2> QED
    BY <2>1, <2>2
<1> QED
  BY <1>1 DEF AgreeInv

\* All windows are closed, and stay so.
LEMMA AllClosedAgree ==
  ASSUME AgreeInv, \A w \in Window : life'[w] = "closed" /\ toMain'[w] = <<>> /\ toWindow'[w] = <<>>
  PROVE  AgreeInv'
BY ClosedAgrees DEF AgreeInv, AgreeInvAt

LEMMA MainStoresItemsHolds ==
  ASSUME TypeOK, NEW items \in Items, MainStoresItems(items), ~main.closed
  PROVE  /\ main'.cache = items /\ ~main'.closed /\ mainLife' = mainLife
         /\ changed \subseteq changed'
         /\ \A k \in Key : main.cache[k] # items[k] => k \in changed'
<1>1. main' = Store(main, items) /\ changed' = changed \cup Changed(main, items) /\ mainLife' = mainLife
  BY DEF MainStoresItems
<1>2. main'.cache = items /\ ~main'.closed
  BY <1>1, StoreCaches, TypeAsSound
<1> QED
  BY <1>1, <1>2 DEF Changed

LEMMA AgreeStep == TypeOK /\ FileInv /\ AgreeInv /\ [Next]_vars => AgreeInv'
<1> SUFFICES ASSUME TypeOK, FileInv, AgreeInv, [Next]_vars
             PROVE  AgreeInv'
  OBVIOUS
<1>0. /\ main.cache \in Items /\ Sound(main) /\ changed \in SUBSET Key
      /\ \A w \in Window : /\ Sound(window[w]) /\ window[w].cache \in Items
                           /\ toWindow[w] \in Seq(ToWindow)
                           /\ life[w] \in {"closed", "loading", "open", "closing"}
                           /\ AgreeInvAt(w)
                           /\ life[w] # "closed" => mainLife = "up" /\ ~main.closed
  BY TypeAsSound DEF Sound, StorageType, TypeOK, AgreeInv
<1>1. ASSUME NEW w \in Window, WindowOpens(w)
      PROVE  AgreeInv'
  <2>1. /\ UNCHANGED <<main, mainLife, changed>> /\ mainLife = "up" /\ ~main.closed /\ life[w] = "closed"
        /\ life' = [life EXCEPT ![w] = "loading"]
        /\ window' = [window EXCEPT ![w] = NewStorage(NoItems)]
        /\ toMain' = [toMain EXCEPT ![w] = <<GetItems>>]
        /\ toWindow' = toWindow
    BY <1>1 DEF WindowOpens, mainVars
  <2>2. toWindow' = [toWindow EXCEPT ![w] = <<>>]
    BY <1>0, <2>1 DEF AgreeInvAt, WindowInv, Line, TypeOK
  <2>3. WindowInv("loading", NewStorage(NoItems), <<GetItems>>, <<>>, main.cache, changed)
    BY DEF WindowInv, Line, NewStorage, Flushing, NoneOf
  <2> QED
    BY <2>1, <2>2, <2>3, WindowStepAgrees
<1>2. ASSUME NEW w \in Window, NEW k \in Key, NEW v \in Value \cup {Absent}, WindowStores(w, k, v)
      PROVE  AgreeInv'
  <2> DEFINE items == [window[w].cache EXCEPT ![k] = v]
  <2>1. items \in Items
    BY <1>0 DEF Items
  <2>2. /\ UNCHANGED <<main, mainLife, changed>> /\ life[w] = "open"
        /\ window' = [window EXCEPT ![w] = Store(window[w], items)]
        /\ UNCHANGED <<life, toMain, toWindow>>
    BY <1>2 DEF WindowStores, mainVars
  <2>3. /\ life' = [life EXCEPT ![w] = "open"]
        /\ toMain' = [toMain EXCEPT ![w] = toMain[w]]
        /\ toWindow' = [toWindow EXCEPT ![w] = toWindow[w]]
    BY <2>2 DEF TypeOK
  <2> HIDE DEF items
  <2>4. WindowInv("open", Store(window[w], items), toMain[w], toWindow[w], main.cache, changed)
    BY <1>0, <2>1, <2>2, WindowStoresAgrees DEF AgreeInvAt
  <2> QED
    BY <1>0, <2>2, <2>3, <2>4, WindowStepAgrees
<1>3. ASSUME NEW w \in Window, WindowFlushes(w) \/ WindowCloses(w)
      PROVE  AgreeInv'
  <2>1. /\ UNCHANGED <<main, mainLife, changed, toMain, toWindow>> /\ life[w] = "open"
        /\ \/ life' = life /\ window' = [window EXCEPT ![w] = Flush(@)]
           \/ life' = [life EXCEPT ![w] = "closing"] /\ window' = [window EXCEPT ![w] = Close(@)]
    BY <1>3 DEF WindowFlushes, WindowCloses, mainVars
  <2>2. PICK l, s : /\ <<l, s>> \in {<<"open", Flush(window[w])>>, <<"closing", Close(window[w])>>}
                    /\ life' = [life EXCEPT ![w] = l]
                    /\ window' = [window EXCEPT ![w] = s]
    BY <2>1 DEF TypeOK
  <2>3. /\ toMain' = [toMain EXCEPT ![w] = toMain[w]]
        /\ toWindow' = [toWindow EXCEPT ![w] = toWindow[w]]
    BY <2>1 DEF TypeOK
  <2>4. WindowInv(l, s, toMain[w], toWindow[w], main.cache, changed)
    BY <1>0, <2>1, <2>2, WindowFlushesAgrees DEF AgreeInvAt
  <2> QED
    BY <1>0, <2>1, <2>2, <2>3, <2>4, WindowStepAgrees
<1>4. ASSUME NEW w \in Window, WindowDelayIsOver(w)
      PROVE  AgreeInv'
  <2> DEFINE s == DelayIsOver(window[w])
             tm == IF Flushing(window[w]) THEN toMain[w] ELSE Sends(s, toMain[w])
  <2>1. UNCHANGED <<main, mainLife, changed, life, toWindow>> /\ window[w].triggered /\ life[w] # "closed"
    BY <1>4 DEF WindowDelayIsOver, mainVars
  <2>2. window' = [window EXCEPT ![w] = s] /\ toMain' = [toMain EXCEPT ![w] = tm]
    BY <1>4 DEF WindowDelayIsOver, BecomesFlushing, Sends, TypeOK
  <2>3. /\ life' = [life EXCEPT ![w] = life[w]]
        /\ toWindow' = [toWindow EXCEPT ![w] = toWindow[w]]
    BY <2>1 DEF TypeOK
  <2>4. WindowInv(life[w], s, tm, toWindow[w], main.cache, changed)
    BY <1>0, <2>1, WindowDelayIsOverAgrees DEF AgreeInvAt
  <2> HIDE DEF s, tm
  <2> QED
    BY <1>0, <2>1, <2>2, <2>3, <2>4, WindowStepAgrees
<1>5. ASSUME NEW w \in Window, WindowReceives(w)
      PROVE  AgreeInv'
  <2> DEFINE m == Head(toWindow[w])
             q == Tail(toWindow[w])
  <2>1. /\ UNCHANGED <<main, mainLife, changed>> /\ toWindow[w] # <<>>
        /\ toWindow' = [toWindow EXCEPT ![w] = q]
    BY <1>5 DEF WindowReceives, mainVars
  <2>2. /\ life' = life => life' = [life EXCEPT ![w] = life[w]]
        /\ toMain' = toMain => toMain' = [toMain EXCEPT ![w] = toMain[w]]
    BY DEF TypeOK
  <2>3. life[w] # "closed"
    BY <1>0, <2>1 DEF AgreeInvAt, WindowInv, Line
  <2>4. CASE m.type = "items"
    <3> DEFINE s == [window[w] EXCEPT !.cache = m.items]
    <3>1. window' = [window EXCEPT ![w] = s] /\ life' = [life EXCEPT ![w] = "open"] /\ toMain' = toMain
      BY <1>5, <2>4 DEF WindowReceives, TypeOK
    <3>2. WindowInv("open", s, toMain[w], q, main.cache, changed)
      BY <1>0, <2>1, <2>4, ItemsReceivedAgrees DEF AgreeInvAt
    <3> HIDE DEF s, q
    <3> QED
      BY <1>0, <2>1, <2>2, <2>3, <3>1, <3>2, WindowStepAgrees
  <2>5. CASE m.type = "updated"
    <3> DEFINE s == UpdateDone(window[w], TRUE)
    <3>1. BecomesFlushing(w, s) /\ life' = life
      BY <1>5, <2>5 DEF WindowReceives
    <3>2. WindowInv(life[w], s, Sends(s, toMain[w]), q, main.cache, changed)
      BY <1>0, <2>1, <2>5, UpdatedReceivedAgrees DEF AgreeInvAt
    <3> HIDE DEF s, q
    <3>3. window' = [window EXCEPT ![w] = s] /\ toMain' = [toMain EXCEPT ![w] = Sends(s, toMain[w])]
      BY <3>1 DEF BecomesFlushing, Sends, TypeOK
    <3> QED
      BY <1>0, <2>1, <2>2, <2>3, <3>1, <3>2, <3>3, WindowStepAgrees
  <2>6. CASE m.type \notin {"items", "updated"}
    <3> DEFINE s == AcceptExternal(window[w], m.items)
    <3>1. window' = [window EXCEPT ![w] = s] /\ UNCHANGED <<life, toMain>>
      BY <1>5, <2>6 DEF WindowReceives
    <3>2. WindowInv(life[w], s, toMain[w], q, main.cache, changed)
      BY <1>0, <2>1, <2>6, ChangeReceivedAgrees DEF AgreeInvAt
    <3> HIDE DEF s, q
    <3> QED
      BY <1>0, <2>1, <2>2, <2>3, <3>1, <3>2, WindowStepAgrees
  <2> QED
    BY <2>4, <2>5, <2>6
<1>6. ASSUME NEW w \in Window, WindowClosed(w) \/ WindowCrashes(w)
      PROVE  AgreeInv'
  <2>1. WindowEnds(w)
    BY <1>6 DEF WindowClosed, WindowCrashes
  <2> QED
    BY <2>1, ClosedAgrees, WindowStepAgrees DEF WindowEnds, mainVars
<1>7. ASSUME NEW k \in Key, NEW v \in Value \cup {Absent}, MainStores(k, v)
      PROVE  AgreeInv'
  <2> DEFINE items == [main.cache EXCEPT ![k] = v]
  <2>1. items \in Items
    BY <1>0 DEF Items
  <2>2. MainStoresItems(items) /\ UNCHANGED <<life, window, toMain, toWindow>>
    BY <1>7 DEF MainStores, windowVars
  <2> HIDE DEF items
  <2>3. CASE main.closed
    <3>1. main' = main /\ changed' = changed /\ mainLife' = mainLife
      BY <2>2, <2>3 DEF MainStoresItems, Store
    <3> QED
      BY <2>2, <3>1, MainStepAgrees
  <2>4. CASE ~main.closed
    <3>1. /\ main'.cache = items /\ ~main'.closed /\ mainLife' = mainLife
          /\ changed \subseteq changed'
          /\ \A x \in Key : main.cache[x] # items[x] => x \in changed'
      BY <2>1, <2>2, <2>4, MainStoresItemsHolds
    <3>2. ASSUME NEW w \in Window
          PROVE  AgreeInvAt(w)'
      <4>1. WindowInv(life[w], window[w], toMain[w], toWindow[w], items, changed')
        BY <1>0, <2>1, <3>1, MainStoresAgrees DEF AgreeInvAt
      <4> QED
        BY <2>2, <3>1, <4>1 DEF AgreeInvAt
    <3> QED
      BY <1>0, <2>2, <3>1, <3>2 DEF AgreeInv
  <2> QED
    BY <2>3, <2>4
<1>8. ASSUME NEW w \in Window, MainReceives(w)
      PROVE  AgreeInv'
  <2> DEFINE m == Head(toMain[w])
             tm == Tail(toMain[w])
  <2>1. toMain[w] # <<>> /\ UNCHANGED <<life, window>> /\ toMain' = [toMain EXCEPT ![w] = tm]
    BY <1>8 DEF MainReceives, windowVars
  <2>2. life[w] # "closed" /\ mainLife = "up" /\ ~main.closed
    BY <1>0, <2>1 DEF AgreeInvAt, WindowInv, Line
  <2>3. m.request \in Request
    BY <2>1, MessagesReceived
  <2>4. CASE m.type = "getItems"
    <3> DEFINE q == Append(toWindow[w], ItemsAre(main.cache))
    <3>1. toWindow' = [toWindow EXCEPT ![w] = q] /\ UNCHANGED <<main, mainLife, changed>>
      BY <1>8, <2>4 DEF MainReceives, mainVars
    <3>2. WindowInv(life[w], window[w], tm, q, main.cache, changed)
      BY <1>0, <2>1, <2>4, GetItemsAgrees DEF AgreeInvAt
    <3>3. life' = [life EXCEPT ![w] = life[w]] /\ window' = [window EXCEPT ![w] = window[w]]
      BY <2>1 DEF TypeOK
    <3> HIDE DEF q, tm
    <3> QED
      BY <2>1, <2>2, <3>1, <3>2, <3>3, WindowStepAgrees
  <2>5. CASE m.type # "getItems"
    <3> DEFINE q == Append(toWindow[w], UpdateIsDone)
               items == Updated(main.cache, m.request)
    <3>1. toWindow' = [toWindow EXCEPT ![w] = q] /\ MainStoresItems(items)
      BY <1>8, <2>5 DEF MainReceives
    <3>2. items \in Items
      BY <1>0, <2>3, UpdatedType
    <3>3. /\ main'.cache = items /\ ~main'.closed /\ mainLife' = mainLife
          /\ changed \subseteq changed'
          /\ \A x \in Key : main.cache[x] # items[x] => x \in changed'
      BY <2>2, <3>1, <3>2, MainStoresItemsHolds
    <3>4. WindowInv(life[w], window[w], tm, q, items, changed')
      BY <1>0, <2>1, <2>5, <3>3, UpdateItemsAgrees DEF AgreeInvAt
    <3> HIDE DEF q, tm, items
    <3>5. AgreeInvAt(w)'
      <4>1. toMain'[w] = tm /\ toWindow'[w] = q
        BY <2>1, <3>1 DEF TypeOK
      <4> QED
        BY <2>1, <3>3, <3>4, <4>1 DEF AgreeInvAt
    <3>6. ASSUME NEW x \in Window \ {w}
          PROVE  AgreeInvAt(x)'
      <4>1. WindowInv(life[x], window[x], toMain[x], toWindow[x], items, changed')
        BY <1>0, <3>2, <3>3, MainStoresAgrees DEF AgreeInvAt
      <4>2. toMain'[x] = toMain[x] /\ toWindow'[x] = toWindow[x]
        BY <2>1, <3>1 DEF TypeOK
      <4> QED
        BY <2>1, <3>3, <4>1, <4>2 DEF AgreeInvAt
    <3> QED
      BY <2>1, <2>2, <3>3, <3>5, <3>6 DEF AgreeInv
  <2> QED
    BY <2>4, <2>5
<1>9. CASE ChangeEventFires
  <2> DEFINE m == ChangeEvent([k \in changed |-> main.cache[k]])
  <2>1. /\ UNCHANGED <<life, window, main, mainLife, toMain>> /\ changed' = {}
        /\ toWindow' = [w \in Window |-> IF life[w] = "closed" THEN toWindow[w] ELSE Append(toWindow[w], m)]
    BY <1>9 DEF ChangeEventFires, windowVars
  <2>2. ASSUME NEW w \in Window, life[w] # "closed"
        PROVE  WindowInv(life[w], window[w], toMain[w], Append(toWindow[w], m), main.cache, {})
    BY <1>0, <2>2, ChangeEventAgrees DEF AgreeInvAt
  <2> HIDE DEF m
  <2>3. ASSUME NEW w \in Window
        PROVE  AgreeInvAt(w)'
    <3>1. CASE life[w] = "closed"
      <4>1. toMain[w] = <<>> /\ toWindow[w] = <<>>
        BY <1>0, <3>1 DEF AgreeInvAt, WindowInv, Line
      <4> QED
        BY <2>1, <3>1, <4>1, ClosedAgrees DEF AgreeInvAt
    <3>2. CASE life[w] # "closed"
      BY <2>1, <2>2, <3>2 DEF AgreeInvAt
    <3> QED
      BY <3>1, <3>2
  <2> QED
    BY <2>1, <2>3 DEF AgreeInv
<1>10. CASE MainFlushes \/ MainDelayIsOver \/ DiskUpdates \/ DiskUpdateFails
  <2>1. UNCHANGED <<life, window, toMain, toWindow, changed, mainLife>>
    BY <1>10 DEF MainFlushes, MainDelayIsOver, DiskUpdates, DiskUpdateFails, windowVars
  <2>2. PICK ok \in BOOLEAN : main' \in {Flush(main), DelayIsOver(main), UpdateDone(main, ok)}
    BY <1>10 DEF MainFlushes, MainDelayIsOver, DiskUpdates, DiskUpdateFails
  <2>3. main'.cache = main.cache /\ (main'.closed <=> main.closed)
    <3>1. CASE main' = Flush(main)
      BY <1>0, <3>1 DEF Flush, Sound, StorageType
    <3>2. CASE main' = DelayIsOver(main)
      BY <1>0, <3>2 DEF DelayIsOver, FlushPending, Sound, StorageType
    <3>3. CASE main' = UpdateDone(main, ok)
      BY <1>0, <3>3 DEF UpdateDone, FlushPending, Sound, StorageType
    <3> QED
      BY <2>2, <3>1, <3>2, <3>3
  <2> QED
    BY <2>1, <2>3, MainStepAgrees
<1>11. CASE MainCloses \/ DatabaseCloses \/ RecoveryFails \/ MainStarts
  <2>1. \A w \in Window : life[w] = "closed"
    <3>1. CASE MainCloses \/ MainStarts
      BY <1>0, <3>1 DEF MainCloses, MainStarts
    <3>2. CASE DatabaseCloses \/ RecoveryFails
      <4>1. main.closing = "flushed"
        BY <3>2 DEF DatabaseCloses, RecoveryFails
      <4>2. main.closed
        BY <4>1 DEF FileInv, CloseInv
      <4> QED
        BY <1>0, <4>2
    <3> QED
      BY <1>11, <3>1, <3>2
  <2>2. UNCHANGED <<life, toMain, toWindow>>
    BY <1>11 DEF MainCloses, DatabaseCloses, RecoveryFails, MainStarts, windowVars
  <2>3. \A w \in Window : toMain[w] = <<>> /\ toWindow[w] = <<>>
    BY <1>0, <2>1 DEF AgreeInvAt, WindowInv, Line
  <2> QED
    BY <2>1, <2>2, <2>3, AllClosedAgree
<1>12. CASE MainCrashes
  BY <1>12, AllClosedAgree DEF MainCrashes
<1>13. CASE UNCHANGED vars
  BY <1>13, MainStepAgrees DEF vars, windowVars, mainVars
<1> QED
  BY <1>1, <1>2, <1>3, <1>4, <1>5, <1>6, <1>7, <1>8, <1>9, <1>10, <1>11, <1>12, <1>13 DEF Next, Stores, Step

\* What a window stores reaches the main process, and what the main process
\* stores reaches every window, in an order that leaves them the same items: a
\* window that has nothing to send, and to which nothing is under way, has the
\* items of the main process, whatever others stored at the same time.
THEOREM QuietWindowsHaveTheItems == Spec => []QuietWindowsAgree
<1>1. Init => AgreeInv
  <2> SUFFICES ASSUME Init
               PROVE  AgreeInv
    OBVIOUS
  <2>1. \A w \in Window : life[w] = "closed" /\ toMain[w] = <<>> /\ toWindow[w] = <<>>
    BY DEF Init
  <2> QED
    BY <2>1, ClosedAgrees DEF AgreeInv, AgreeInvAt
<1>2. TypeOK /\ AgreeInv => QuietWindowsAgree
  <2> SUFFICES ASSUME TypeOK, AgreeInv,
                      NEW w \in Window, life[w] = "open", ~HasPending(window[w]), ~Flushing(window[w]),
                      toWindow[w] = <<>>, changed = {}
               PROVE  window[w].cache = main.cache
    BY DEF QuietWindowsAgree
  <2> DEFINE s == window[w]
  <2>1. main.cache \in Items /\ s.cache \in Items
    BY DEF TypeOK, StorageType
  <2>2. WindowInv("open", s, toMain[w], <<>>, main.cache, {})
    BY DEF AgreeInv, AgreeInvAt
  <2>3. toMain[w] = <<>>
    BY <2>2 DEF WindowInv, Line
  <2>4. Wanted(s, FALSE, main.cache) = main.cache
    BY <2>1, UpdatedByNothing DEF Wanted, HasPending
  <2>5. ASSUME NEW k \in Key
        PROVE  s.cache[k] = main.cache[k]
    <3>1. Agreement("open", s, FALSE, <<>>, main.cache, {}, k)
      BY <2>2, <2>3 DEF WindowInv
    <3>2. ~Told(<<>>, k, main.cache[k])
      BY DEF Told
    <3> QED
      BY <2>4, <3>1, <3>2 DEF Agreement
  <2> HIDE DEF s
  <2>6. s.cache = main.cache
    BY <2>1, <2>5 DEF Items
  <2> QED
    BY <2>6 DEF s
<1> QED
  BY <1>1, <1>2, AgreeStep, TypeCorrect, FileInvariant, PTL DEF Spec

=============
