# Verification of the agent host and of the services around it

This directory models, model-checks and proves parts of this repository, a fork of VS Code with an *agent host*:
a process that runs coding agents, keeps the authoritative state of their sessions and synchronises it with every
window that looks at them. The agent host is the newest code of the repository, and the one whose correctness
depends most on the order in which processes, connections and callbacks run; it comes first here. The services that
carry durable or replicated state follow: the connection to a remote server, the key-value storage, and the working
copies of files with their backups.

All paths below are relative to `src/vs/`; `agentHost/` stands for `platform/agentHost/`.

## 1. Inventory

### Agent host

| Component | Source | State it keeps | Operations |
| --- | --- | --- | --- |
| State manager | `agentHost/node/sessionStateManager.ts` | root state, session states, `_serverSeq`, `_activeTurnToSession` | create and remove a session, apply an action and emit its envelope, snapshots |
| Protocol server | `agentHost/node/protocolServerHandler.ts` | `_clients` with their subscriptions, `_replayBuffer` | handshake, subscribe, unsubscribe, dispatch, create and dispose a session, reconnect, close, broadcast |
| Reducers | `agentHost/common/state/protocol/reducers.ts` | none, pure functions | turns, tool calls, permissions, metadata |
| Side effects, event mapping | `agentHost/node/agentSideEffects.ts`, `agentEventMapper.ts` | `_pendingPermissions` (which agent asked) | what an action makes the agent do; what an agent's event does to the session |
| Copilot agent | `agentHost/node/copilot/copilotAgent.ts` | SDK client, session wrappers, permission requests held | send, abort, answer a permission, resume, shut down, change token |
| Protocol client | `agentHost/electron-browser/remoteAgentHostProtocolClient.ts` | pending requests | handshake, requests, notifications |
| Client state | `agentHost/common/state/sessionClientState.ts` | confirmed and optimistic states, pending actions, `_nextClientSeq`, `_lastSeenServerSeq` | snapshot, write ahead, reconcile, unsubscribe |
| Chat session handler | `workbench/contrib/chat/browser/agentSessions/agentHost/agentHostSessionHandler.ts` | open chat sessions, the running request, its prompts | open, create, close, run a turn, cancel, answer prompts |
| Root-state holders | `.../agentHost/agentHostChatContribution.ts`, `sessions/contrib/remoteAgentHost/` | one client state for the root, a handler per provider | subscribe to the root, register agents |
| Local service and process | `agentHost/node/agentService.ts`, `agentHostMain.ts`, `agentHostService.ts` | child process, restart count | in-process path, restarts |

How they interact: a window *writes ahead*. It applies an action to its optimistic state, keeps it pending and
notifies the server. The server reduces the action, numbers it (`serverSeq`) and broadcasts it in an envelope, with
its origin, to every connection subscribed to the resource; then it runs the side effect (send the prompt, abort,
answer a permission). The agent runs in a process behind an SDK; its events come back asynchronously, name a
session only, and are attributed to the turn that is active when they arrive. Each window settles the pending action
an envelope echoes and replays the others on top of the confirmed state.

What is hard: two windows acting on one session, snapshots taken while envelopes are under way, echoes among foreign
actions, turns ended from both sides at once, permission requests crossing cancellations, connections that break,
sessions removed while in use. `PROJECT.json` lists these hazards one by one, at the line where each bites.

What makes it correct: a copy is a prefix of the server's state with exactly the rest under way (`InSync`); a cached
optimistic state is what confirmed and pending say (`OptimisticIsRebased`); nothing the user did is shown twice or
kept pending for ever (`AppliedOnce`, `PendingResolves`); turn tracking misses no turn (`ActiveTurnIsTracked`); a
turn ends once, tool outcomes stick, no permission request is lost, a request finishes.

### Services

| Component | Source | State it keeps | Operations |
| --- | --- | --- | --- |
| Persistent IPC protocol | `base/parts/ipc/common/ipc.net.ts` | message and acknowledgement counters, `_outgoingUnackMsg` | send, receive, acknowledge, ask for and do a replay, begin and end a reconnection |
| Remote connection | `platform/remote/common/remoteAgentConnection.ts`, `server/node/remoteExtensionHostAgentServer.ts`, `remoteExtensionManagement.ts` | reconnection loop, `_managementConnections`, grace timers | notice a closed or silent socket, reconnect with a handshake, accept or refuse, give up, dispose |
| Storage | `base/parts/storage/common/storage.ts`, `platform/storage/`, `base/parts/storage/node/storage.ts` | cache, pending inserts and deletes in every window and in the main process; SQLite file and its backup | set, delete, delayed flush, update over IPC, change events, close, backup, recovery |
| Asynchronous primitives | `base/common/async.ts` | active and queued promises, timers | `Throttler`, `ThrottledDelayer`, `TaskSequentializer` |
| Stored file working copies | `workbench/services/workingCopy/common/storedFileWorkingCopy.ts`, `storedFileWorkingCopyManager.ts`, `platform/files/common/fileService.ts` | model, dirty, conflict and error flags, `lastResolvedFileStat`, save sequentializer | edit, undo, save, resolve, reload, revert |
| Backups and hot exit | `workbench/services/workingCopy/common/workingCopyBackupTracker.ts`, `workingCopyBackupService.ts`, `electron-browser/` | pending backup operations, backup model, I/O queue | schedule, write, discard, back up at shutdown, restore |

How they interact: a window's connection to a remote server is a `PersistentProtocol` at each end over sockets that
are replaced; the reconnection loop and the server's handshake decide which socket it is and whether it lives on. A
window's storage has the main process for its database, and the main process an SQLite file; changes travel up as
updates and down as events. A working copy is reloaded by file events, saved through the file service, and followed by
the backup tracker, whose backups a later window restores.

What is hard: messages and acknowledgements that cross a broken socket, answers to an earlier attempt, timers that
race with a reconnection; changes under way in both directions while others are pending, updates that fail, a close
behind a flush; edits made while the file is written, read or reverted, a file that others write, an operation that
fails or a window that dies between any two of these steps.

What makes it correct: the connection is a reliable FIFO channel whatever its sockets do (`ImplementsChannel`,
`UndeliveredIsKept`, `EverythingArrives`), is not disposed while in use nor kept for a client that is gone; no change of
a storage is forgotten (`UnsavedIsPending`, `ClosedIsSaved`) and all copies agree in the end (`WindowsAgree`); a clean
working copy shows the file (`CleanIsOnDisk`), nothing unseen is overwritten (`NothingUnknownIsOverwritten`), and
unsaved text survives in a backup (`BackupIsCurrent`, `HotExit`).

### Other subsystems

| Component | Source | What is hard | Status |
| --- | --- | --- | --- |
| Undo-redo | `platform/undoRedo/common/undoRedoService.ts` | elements shared by resources, asynchronous undo | next |
| Shutdown vetoes, extension-host RPC | `platform/lifecycle/`, `workbench/services/extensions/` | ordering and cancellation | later |
| Settings sync, text model, Rust CLI, question and preview extensions | see `PROJECT.json` | | not planned |

## 2. Plan

Done, in this order: **SessionProtocol**, **AgentTurns**, **PersistentProtocol** with **RemoteConnection**,
**Storage** with **SharedStorage**, **WorkingCopy**. Left:

1. **UndoRedo**: stacks shared by several resources, locked while an asynchronous element is undone.
2. AgentTurns with a second window: a late cancellation, a session removed under a running request.
3. Extension-host connections, whose acceptance awaits a free port in between.
4. **CopilotClient**: start, token change, resume and shutdown of the SDK client.

The reconnection of the agent host's own protocol (`_handleReconnect`) is not planned any more: no client in `src/`
sends `reconnect`.

## 3. Modules

### SessionProtocol

| Variables | Code |
| --- | --- |
| `serverSeq`, `state`, `activeTurnToSession` | fields of `SessionStateManager` |
| `phase` | whether a session has a state (`_sessionStates.has`), was never created, or is known to its provider only |
| `clients`, `subscriptions`, `creating` | `_clients`, `IConnectedClient.subscriptions`, `createSession` requests awaiting the agent |
| `c2s`, `s2c`, `link` | the WebSocket, both directions |
| `subscribedSessions`, `confirmed`, `optimistic`, `pending`, `nextClientSeq`, `lastSeenServerSeq` | fields of `SessionClientState`, per handler |
| `view`, `running`, `usedTurns` | an editor's life, the request being awaited in `_handleTurn`, the turn ids generated |

Actions carry the names of the methods they model (`HandleSubscribe`, `HandleDispatchAction`, `HandleSnapshot`,
`ReceiveEnvelope`, `StartTurn` for `_handleTurn`, and so on). Each is one synchronous stretch of JavaScript: an
`await` on another process ends an action, a microtask does not. `subscribe` is such a case: its response is sent a
microtask after the subscription is recorded, and nothing in `src/` emits an envelope in between.

Abstractions. A state is the sequence of the actions reduced into it, with the `serverSeq` of each: the reducers are
pure, so that two copies that reduced the same sequence are equal, and the properties can speak about what was
reduced and in which order. The active turn, on which guards depend, is kept beside it. Pending actions are kept per
session instead of in one list; every use of the list is per session or by `clientSeq`. Session and turn ids are
generated once (UUIDs). An envelope an agent produces stands for all of them: `AgentIdle`, the one that ends a turn.
A failing agent is `SessionCreationFails` here and part of AgentTurns otherwise. `session/modelChanged` and the
other actions without an effect on turns behave as `ready` does in the protocol. No action is rejected: no code sets
`rejectionReason`.

### AgentTurns

One session with one window, its connection working; what SessionProtocol leaves open about the agent. `Reduce` is
`sessionReducer` with its tool call and permission state machines. `HandleDispatchAction` is the reduction, the
broadcast and the side effect of one action, `HandleProgress` the arrival of one SDK event at the agent and in the
listener of the side effects, synchronously. The window's actions are those of `_handleTurn`: start, cancel (which
also denies the open prompts), answer a prompt, react to a new state.

The SDK is external. It is modelled from the calls made to it and the events listened to: it processes its prompts
one after the other, runs tools, asks for permissions and waits for the answers, then reports that it is idle or
failed. Assumed of it: calls and events are delivered in order; an abort stops the prompt at work and may be followed
by an idle event; a permission request asked before an abort must still be answered (the agent denies it); an error
event ends its prompt. The agent's session wrapper exists (a session resumed after a restart of the host is planned
with CopilotClient). Left out: text, reasoning and usage, which change no control; the tool-call confirmations of the
reducer that nothing in `src/` dispatches; model changes.

### PersistentProtocol, RemoteConnection, ReliableChannel

`PersistentProtocol` has the methods of the class of that name as operators on the fields of one end: each yields the
fields after the call and the messages written. `RemoteConnection` composes two of them with what surrounds them.

| Variables | Code |
| --- | --- |
| `endpoint`, `socketOf` | the fields of each end's `PersistentProtocol`, its `_socket` |
| `wire`, `up` | the sockets: per direction the messages under way, and whether they still carry any |
| `phase`, `controlMessages` | where the client is in `_runReconnectingLoop` and in the handshake; what its `onControlMessage` has buffered |
| `handshake` | the state of `_handleWebSocketConnection`, with a temporary protocol, on each socket |
| `managed`, `timers` | `_managementConnections`, `_disconnectRunner1` and `2` |
| `sent`, `received` | history: what the two ends' users sent and got |

`ReliableChannel` is the abstract specification: in each direction a FIFO channel. `ImplementsChannel` says that
`RemoteConnection` implements it, with `sent` and `received` mapped to themselves: every step sends, hands over the next
message, or does neither.

Abstractions. The model starts with an established connection. Sockets are FIFO until they close; their ids are used
again. A paused protocol or an unflushed writer only delays, as a slow socket does. What arrives in one chunk with the
client's last handshake message is read after, not before, the end of the acceptance; it acknowledges, and can carry
nothing else. Time is left out: a timeout may happen at any time, an unnecessary one counts as a fault. Only
management connections are modelled.

### Storage, SharedStorage

`Storage` has the methods of the class `Storage`, and of the throttled delayer it flushes with, as operators on the
fields of one storage. `SharedStorage` composes one for each window and one for the main process with the IPC channel
between them and the SQLite file below.

| Variables | Code |
| --- | --- |
| `window`, `main` | the `Storage` of each window and of the main process: cache, pending changes, delayer, throttler, close |
| `life`, `mainLife` | the life of the processes |
| `toMain`, `toWindow` | `ApplicationStorageDatabaseClient` and `StorageDatabaseChannel` |
| `changed` | the changes the channel's debouncer holds |
| `disk`, `backup`, `erroneous` | the file, its backup, `isErroneous` of the connection |

Abstractions. Application scope only; the other scopes run the same code. A flush is asked for with a delay or
without; the model lets any delay pass. The fallback to an in-memory database, when neither the file nor its backup can
be opened, is left out. An update is one transaction: it is rejected as a whole, or one of its two statements fails
unnoticed by the caller, which is what the code's error handling allows.

### WorkingCopy

| Variables | Code |
| --- | --- |
| `file`, `event` | the file and what the watcher is still to report |
| `copy` | `StoredFileWorkingCopy`: text, undo stack, version, dirty, saved version, conflict and error flags, `lastResolvedFileStat` |
| `saving` | `saveSequentializer`: saves running, which one it knows, which one is queued |
| `reading`, `reverting`, `reloads` | `resolveFromFile` under way, `revert` under way, the manager's reload queue |
| `tracker`, `backup` | the tracker's pending operation, the service's I/O queue and model; the backup file |
| `life` | the window |

An action is a stretch between two awaits. A save is three of them: after the participants, after the snapshot (the
check for a modified file and the write), after the file service's stat. `copy.by`, `copy.known` and `copy.leaving`
are history, read by properties only.

Abstractions. A text is a number; the version id of the model (the alternative version id, to which undo returns) is
the text. Every text has a length of its own and every write a mtime of its own: an etag tells texts and writes apart
(two writes of one length within the resolution of the clock are not told apart by the code either; it says so). The
check and the write of the file service are one step. One revert at a time. Left out: a file half written when its
write fails, orphaned and read-only copies, disposal and renames, forced and soft reverts, auto-save timers, veto
dialogs.

### MC modules and configurations

`MCSessionProtocol` and `MCAgentTurns` define the topologies and the symmetry sets, `MCRemoteConnection` what the ends
send, `MCLastStore` an observer of the values stored. Symmetry is used in runs of safety properties only, over ids that
no `CHOOSE` of the model tells apart.

The modules named `...Proofs` hold the theorems about the module they extend; the sessions protocol has three, each
resting on the one before (`SessionProtocolProofs`, `SessionSyncProofs`, `WriteAheadProofs`). `LeftFolds` has the
lemmas about folds over sequences.

## 4. Runs

| Run | Instance | Checks | States |
| --- | --- | --- | --- |
| SharedSession | 2 windows, 2 connections, 1 session, 2 turns | `TypeOK` `InSync` `OptimisticIsRebased` `AppliedOnce` `ActiveTurnIsTracked` `EnvelopesAreNew` `EchoSettlesItsAction` `RequestSequenced` | 1.09 M |
| RootState | a session handler and the root holder on one connection | `InSync` | 39 k |
| Settling | 2 windows, 1 turn, one breakable connection, `FairSpec` | `PendingResolves` | 104 k |
| TwoProviders | 2 handlers on one connection, a session each | violates `EchoSettlesItsAction` | |
| AgentTurns | 3 turns of which 1 may be cancelled, 1 tool, 2 permission requests | `TypeOK` `TurnsRecordedOnce` `ToolOutcomeSticks` `HeldRequests` `PromptsAreAnswerable` `WindowAgrees` | 240 k |
| RequestsFinish | 2 turns, 2 tools with a request each, no cancellation, `FairSpec` | `RequestFinishes` | 30 k |
| LateIdle | 2 turns, both cancellable | violates `CompletedTurnIsIdle` | |
| Reconnection | 3 sockets, 2 messages up and 1 down, 2 faults, `FairSpec` | `TypeOK` `ImplementsChannel` `UndeliveredIsKept` `NoGap` `ConnectedToEachOther` `FailureIsFinal` `GraceTimersOnlyWhenClosed` `EverythingArrives` `GoneClientsAreDisposed` | 222 k |
| SharedStorage | 2 windows, 1 key, 1 value, 4 calls, 1 fault, `FairSpec` | `TypeOK` `UnsavedIsPending` `QuietWindowsAgree` `ClosedIsSaved` `WindowsAgree` `CloseEnds` | 358 k |
| LastStore | 1 window, 1 key, 2 values, 4 calls | violates `LastStoreWins` | |
| WorkingCopy | 1 edit, 1 write by another program, 1 fault or shutdown | `TypeOK` `SavesDoNotOverlap` `ErrorIsDirty` `CleanIsOnDisk` `BackupIsCurrent` `NothingUnknownIsOverwritten` `HotExit` | 2.23 M |
| Revert | 1 edit | violates `RevertedIsOnDisk` | |

**Bounds of the agent host.** `Turn`, `Session`, `Tool`, `Request` are finite, each id is used once: they bound the behaviours, and
with them `serverSeq`, the client sequence numbers and the queues, so that no other bound is needed. `Breakable` and
`Cancellable` say which connections may break and which turns may be cancelled. A session can be created, or be found
as one its provider lists, be shared, closed and disposed by one window while the other uses it. Two turns let one
turn replace, cross or follow another; the third turn of AgentTurns lets a prompt queue up behind one that is still
at work. Two windows suffice for echoes among foreign actions: a third would only be another foreign origin.

**Bounds of the services.** Three sockets are one the server still holds, one whose handshake it has not finished and
one the client opens; with two faults the link fails during a reconnection after it failed once, or an attempt is too
late for its answer. Two messages one way and one the other cross each other, and let one be acknowledged while the
next is not. Any number of other clients may connect. For storages, `MaxCalls` bounds opening windows, storing and
flushing, `MaxFaults` failed updates, failed backups and crashes; keys do not interact (an update of the file applies
them independently), so that one is enough, and a value and its absence tell insertion and deletion apart. Two values
are needed only where a value returns (LastStore). For the working copy, one edit with any number of undos, saves,
reverts, reloads and restarts, one foreign write and one fault reach every branch; undo brings the saved version back
without a second edit.

**Deadlock** is not checked: every instance really stops, when its turn ids, messages, calls or edits are used up and
its sessions, connections or windows are closed.

**Fairness.** Sockets are read and a `createSession` request is answered, with success or an error
(`SessionProtocol!Fairness`); nothing makes a user act, a link break or an agent finish. In AgentTurns, every queue is
read, the SDK takes its calls, completes the tool calls it may complete, finishes its prompt, and the user answers the
prompts. The last two are assumptions about the SDK and the user, not facts of this code: `RequestFinishes` says that
nothing but them can keep a request waiting. It excludes cancellation: a permission request that arrives while no turn
is active is held by the agent and shown to nobody (listed as a hazard), and what follows it waits.

In RemoteConnection, sockets are read, closed ones noticed, the client's loop goes on and timers expire; nothing makes
an end send, a link fail or a window close. In SharedStorage, delays pass, IPC messages arrive and the database
answers; nothing makes anyone store, close or crash. All of these are the event loop's work, timers or the operating
system's. WorkingCopy states no fairness.

**What the failing runs show.**

- *TwoProviders*: handlers of two providers share a `clientId` and count `clientSeq` separately; the echo of the one's
  action removes the other's pending action with the same number. `protocol.md:371` requires the echoed action to be
  one's own. The property `EchoSettlesItsAction` holds with one handler per connection (SharedSession).
- *LateIdle*: start a turn, cancel it, start another: the idle event of the first completes the second before its
  prompt was processed. `actions.ts:376` calls a completed turn one after which the assistant is idle.
- *LastStore*: store x, flush, store y and, when the echo of x has come back from the main process and overwritten the
  cached y, store x again: the cache has it already, `set` returns early (`base/parts/storage/common/storage.ts:277`),
  y is written and stays. `IStorageService.store` promises to store the value it is given. An echo of a window's own
  change is not told from another window's (`platform/storage/electron-main/storageIpc.ts:49-53`).
- *Revert*: `forceReadFromFile: true` is lost between `forceResolveFromFile` and the manager
  (`storedFileWorkingCopyManager.ts:486`, which reads `reload.force`; line 536 passes only `reload.async`). The revert
  reads with the etag it knows, the file service answers that the file was not modified, and the edited text stays in
  the model, marked clean. `storedFileWorkingCopy.ts:1280` says "Force read from disk unless reverting soft".

**Mutants.** Each property has a mutant in the module it is about (marked `Mutant:`), a plausible slip in the code
that makes the run fail: a subscription not recorded, an echo that settles the oldest pending action, a dropped
denial, an unchecked idle event, a replay left out, a timer not cancelled, a stat taken over without its content. They
are used by no specification.

## 5. Proofs

Proved with TLAPS for every value of the constants that satisfies the assumptions of the modules: in SessionProtocol,
`ClientOf` and `Serves` are functions, handlers on one connection serve disjoint resources, the holder of the root state
serves nothing else (it is a `SessionClientState` of its own), `Root`, `NoTurn` and
`NoOrigin` are distinct from the ids, turn ids are finite in number (needed only for the cardinality announced in the
root state); in AgentTurns, `ToolOf` is a function from requests to tools, `Cancellable` a set of turns and `NoTurn` no
turn; in the others, the constants that mean "none" are no data, socket, value or items, there is a socket, and
the bounds are numbers. The bounds limit TLC; no proof depends on their size.

- `SessionProtocolProofs!TypeCorrect`: `Spec => []TypeOK`. `TypeOK` does not mention the optimistic states, on which
  typing does not depend, because they are folds over sequences; everything else is typed by it and inductive as it
  stands. One lemma per helper (`Reply`, `Deliver`, `Emit`, `Dispatch`, `ReceiveEnvelope`) and one step per action.
- `SessionProtocolProofs!ActiveTurnsAreTracked`: `Spec => []ActiveTurnIsTracked`. Not inductive by itself: a turn that
  ends is taken off the tracking table by its id, so if two sessions could have the same active turn, ending one
  would untrack the other. The invariant `TurnInv` adds `OneSessionPerTurn` (a turn id is mentioned with one session,
  in messages, pending actions and states together) and `MentionedTurnsAreUsed` (only ids handed out are mentioned),
  which make a new turn id fresh. The proof separates steps that put a message with a turn into a queue, steps that
  apply one, and steps that mention nothing new.
- `SessionProtocolProofs!HoldersStaySubscribed`: `Spec => []HoldersAreSubscribed`. Who has a copy of a live resource over
  an open connection, or a snapshot on its way, is subscribed and has no disposal of it under way. It rests on
  `LifeInv`, the life of connections, sessions and views: a handler has one question about a resource under way
  (`OneExchange`: asked, with the agent, or answered), every message is addressed to a handler of its connection that
  serves the resource, a session is created once, before anything else is asked of it, and a connection carries
  nothing but its handshake until that ends. `Orderly` adds what a window's queue to the server says of taking back: an
  unsubscribe is followed by the disposal of the same session, and nothing subscribed is disposed by a message behind it.
- `SessionSyncProofs!NothingOldIsReceived` and `CopiesAreInSync`: `Spec => EnvelopesAreNew` and `Spec => []InSync`.
  `SequenceInv` says that everything numbered increases: the entries of every state, the snapshots and envelopes of
  every queue, and `lastSeenServerSeq` below the envelopes under way. `SyncInv` adds `InStep`: what a copy lacks of the
  server's entries is exactly what the queue carries of its resource, from the head on for a handler's copy, from
  behind the snapshot for the copy a snapshot is going to be. A snapshot starts with nothing lacking
  (`FollowsFromHere`), an envelope adds to both sides because holders are subscribed (`FollowsEmitted`), and an envelope
  that is taken brings the very next entry because both sides increase (`FollowsReceives`).
- `WriteAheadProofs!EchoesSettleTheirs`, `WindowsShowRebased`, `RequestsAreSequenced` and `ActionsAreShownOnce`: what
  windows write ahead of the server, under `OneSessionHandler`, that a connection has one handler of sessions beside the holder of the root
  state. Without it the first is false (run TwoProviders); the code satisfies it, because the agent host registers one
  provider (`agentHostMain.ts:68`; the mock agent needs a flag for tests) and the client makes a handler per
  provider. The invariant is `AheadInv`. `PendingInv`: a pending action belongs to its session and has a number its
  handler gave once; only a handler that serves a session over a connection past its handshake writes. `OwnInv`: what
  is on its way to the server or back under a handler's number is what is still pending under it, so that an echo,
  recognised by its number alone, settles its own action (`EchoSettlesItsAction`). `PastInv`: a session on which a
  window has written without a copy of it gets no snapshot any more. This is why a snapshot never meets pending actions
  and why rebasing on a snapshot, on a write and on an envelope come to the same: `RebaseInv` (`OptimisticIsRebased`).
  `RunInv`: a request waits for a turn whose start is in the copy, or is the last pending action; the rebased state then
  has it as the active turn, so that the change listener does not take it for ended (`RequestSequenced`).
  For `AppliedOnce` three more parts are needed, because an action is in many places at once: in the state, in copies
  and snapshots of it, in envelopes, in queues to the server and pending. `OnceInv`: all places that have an action with
  a number have it with the same one, and it has none while it is queued, in one queue; what is written or emitted is
  new, because a turn is used once, is started or cancelled by the one request that waits for it, and is completed by
  the server only while it is active. `PairInv`: an action is pending in one place of its handler, not while that
  handler's copy has it, and under way only under its own number. `CopiesInv`: copies and snapshots keep the order of
  the numbers, so that an entry with one number is in one place of a copy. What a window shows is the entries of its
  copy and then its pending actions (`RebaseShows`, an induction over the fold); no two of them are the same.
- `LeftFolds` says what `FoldLeft` of the community modules computes, for every operator `Op`: it is the last of the
  values one gets from the base by taking the elements in turn (`FoldSteps`), can be unfolded at either end (`FoldCons`,
  `FoldAppend`), splits where the sequence does (`FoldConcat`) and keeps a set that `Op` keeps (`FoldStays`). The lemmas
  are by induction on the length, with a set of numbers in the place of the operator that the library's induction
  theorems want (`SetInduction`). `AgentTurnsProofs` instantiates it with `Reduce`,
  `WriteAheadProofs` with `Replay`.
- `AgentTurnsProofs`: everything the run AgentTurns checks. `EchoInv` says that the window's pending actions are the
  echoes under way to it, in order, followed by what it has under way to the server; it is needed already for
  `TypeCorrect`, because the window takes the oldest pending action off when it reads an echo.
  `WaitsForTheHeld` (`HeldRequests`) is inductive as it stands. `EveryTurnIsRecordedOnce` (`TurnsRecordedOnce`) adds that
  a start under way to the server is the only one of its turn, which is used, and neither active nor recorded.
  `OutcomesStay` (`ToolOutcomeSticks`) adds the same of a tool's start event (`ToolInv`): a tool call that starts is
  unknown to the session, so that it cannot reset a settled one. `QuietWindowAgrees` (`WindowAgrees`) follows from
  `SyncInv`, that the window's confirmed state with the actions under way to it reduced is the session, and `SeenInv`,
  that what the window shows is the turn it waits for, with its prompts; `AskInv` keeps a request that was answered from
  being asked for again. `PromptsCanBeAnswered` (`PromptsAreAnswerable`) needs `PromptInv`: a request under way to the
  window is held, or the echo of the cancellation that denied it is under way behind it, a pending
  cancellation finds the turn it names active, or none, and the prompts and pending answers about a request of the
  window's copy name its active turn.
- `StorageProofs!NothingUnsavedIsForgotten` and `CloseSavesEverything`: `Spec => []UnsavedIsPending` and
  `Spec => []ClosedIsSaved`. The invariant `FileInv` says of the main process's storage what each stage of `closing`
  excludes (`CloseInv`: nothing is pending once the close flushes, nothing flushes once it has flushed), that the file
  with the update under way and the pending changes applied is the cache, and that only a flushed storage is closed.
  A lemma per method of `Storage` shows that it keeps each part; `CloseSavesEverything` then follows because a flushed
  storage has neither an update under way nor pending changes, or, after a failed update, because the close of the
  database writes the cache once more. `TypeCorrect` adds to the types that no update has a key both to insert and to
  delete, which makes the order of its two statements irrelevant.
- `StorageProofs!QuietWindowsHaveTheItems`: `Spec => []QuietWindowsAgree`. `AgreeInv` says of each open window and key
  that the last message under way that tells the window of the key tells the main process's value; or the debouncer
  holds the key; or the window has what the main process will have, once the window's update under way and its pending
  changes have arrived there. A window has at most one request or answer under way, and none is open unless the main
  process is up and its storage not closed.
- `RemoteConnectionProofs!ConnectionIsAChannel`: `Spec => ImplementsChannel`, the refinement of the FIFO channel, with
  `NothingUndeliveredIsForgotten` (`Spec => []UndeliveredIsKept`) from the same invariant. `ChannelInv` has three parts:
  `EndsInv`, that an end's queue is exactly what it sent beyond `outgoingAckId`, in order and as sent, and that
  acknowledged never exceeds received, nor received sent; `Wires`, that every message under way in any socket, old
  or new, is honest: it acknowledges no more than its sender has received and has the content sent under its number;
  and `RestOK`, that a handshake and the connection's own protocol never read the same socket. Honesty only grows while the
  ends go on (`HonestGrows`), so that messages may wait in any socket, and be read after any reconnection. The order
  of messages in a socket is not needed for the channel: the number alone decides what is handed over.
- `RemoteConnectionProofs!ClientAndServerMeet` and `RefusalIsFinal`: `Spec => []ConnectedToEachOther` and
  `Spec => []FailureIsFinal`, from `JoinInv`: no socket is up but the client's, and the server reads it, in its
  handshake or with the connection's own protocol, the latter as soon as the client has done its part; at most one
  control message is under way to the client on it, the answer to the step the client is at; and nothing is under way
  to the client on any other. So no answer to an earlier attempt is taken for one to the present attempt.
- `RemoteConnectionProofs!NothingIsSkipped`: `Spec => []NoGap`, from `GapInv`: what is under way on an end's own socket
  follows without a gap on what the end has received, and reaches up to the last message sent as long as the socket is
  up and the peer's own protocol writes to it; nothing regular is sent to a temporary protocol; and no request for a
  replay is ever under way, since no end has reason to send one. Here order matters, and the replay at a reconnection:
  it starts no later than at the first message the peer is missing.
- `RemoteConnectionProofs!NoTimerInUse`: `Spec => []GraceTimersOnlyWhenClosed`, with the addition that a disposed
  connection has no socket.
- `WorkingCopyProofs`: everything the run WorkingCopy checks, from one invariant `Inv`. `SavesAreQueued` (one save runs,
  it is the one the sequentializer knows, and one is queued only if the copy changed since) gives `OneSaveAtATime`.
  `StatsAreSeen` and `StatsAreKnown` say of every stat anyone holds, in a save, a read, a backup, that the file had it and
  that the copy knows its text; with them a write that the file service allows replaces a known text
  (`SavesOverwriteTheKnown`). `ReadingIsStale` and `CleanIsUpToDate` give `CleanCopiesShowTheFile`: a copy that is clean
  after a load or a save has the text of its stat, and if that is not the file's, an event, a queued reload or a read
  that will load is still to come; a read that began before an edit or a save can no longer pass for up to date.
  `TrackerFollows` and `BackupsAreOfVersions` give `BackupsAreCurrent`: what the tracker has pending or in its queue
  makes the backup follow the dirty flag, and a backup of the present version has the present text. `LeavingIsBackedUp`
  says the same of a window that is shutting down, and gives `HotExitKeepsTheUnsaved`. TLC checked each part of `Inv` as
  an invariant of the run before it was proved.

Only model-checked: liveness (`PendingResolves`, `RequestFinishes`, `EverythingArrives`, `GoneClientsAreDisposed`,
`WindowsAgree`, `CloseEnds`), which needs `ENABLED`.

## 6. Not modelled

`_handleReconnect` of the agent host's protocol (no client in `src/` sends `reconnect`, so that a model would have to
invent the client's half), session notifications and lists, the local in-process path of `AgentService`, the life cycle
of the SDK client, disposal of a chat session while it is being created, files browsed on the host, authentication,
WebSocket framing; first connections and extension-host connections to a remote server; workspace and profile storage
and their migrations; what section 3 leaves out of the working copy. `PROJECT.json` gives the reason for each
component, and names the hazards no property covers yet.
