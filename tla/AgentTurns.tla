----------------------------- MODULE AgentTurns -----------------------------
(***************************************************************************)
(* The turns of one session of the agent host, from the chat request in a  *)
(* window to the agent and back (platform/agentHost):                      *)
(*                                                                         *)
(*   window  AgentHostSessionHandler: one chat request at a time, the      *)
(*           permission prompts it shows, its pending actions              *)
(*   server  SessionStateManager with sessionReducer, AgentSideEffects     *)
(*           (what an action makes the agent do, what an agent event does  *)
(*           to the session)                                               *)
(*   agent   CopilotAgent: the permission requests it holds                *)
(*   SDK     the Copilot session behind it, in a process of its own; it is *)
(*           external and modelled from the calls and the events used here *)
(*                                                                         *)
(* An agent event carries the session only: the server attributes it to    *)
(* the turn that is active when the event arrives.  Text, reasoning and    *)
(* usage are left out, they change no control.  The window's queues are    *)
(* those of SessionProtocol, with one handler: an echo settles the oldest  *)
(* pending action.                                                         *)
(***************************************************************************)
EXTENDS Integers, Sequences, FiniteSets, SequencesExt

CONSTANTS
  Turn,         \* turn ids, generated once
  Tool,         \* tool call ids, generated once by the SDK
  Request,      \* permission request ids, generated once
  NoTurn,       \* "no active turn"
  ToolOf,       \* the tool call a permission request is about
  Cancellable   \* the turns the user may cancel (bounds the instance)

ASSUME ToolOfAssumption == ToolOf \in [Request -> Tool]
ASSUME CancellableAssumption == Cancellable \subseteq Turn
ASSUME NoTurnAssumption == NoTurn \notin Turn

----------------------------------------------------------------------------
(* The session state and its reducer *)

Settled == {"completed", "cancelled"}
ToolStatus == Settled \cup {"absent", "streaming", "pendingConfirmation", "running"}

ActiveTurn ==
  [id : Turn \cup {NoTurn}, toolCalls : [Tool -> ToolStatus],
   pendingPermissions : SUBSET Request]
FinishedTurn ==
  [id : Turn, state : {"complete", "cancelled", "error"},
   toolCalls : [Tool -> Settled \cup {"absent"}]]
SessionState == [activeTurn : ActiveTurn, turns : Seq(FinishedTurn)]

NewTurn(t) ==
  [id |-> t, toolCalls |-> [k \in Tool |-> "absent"], pendingPermissions |-> {}]
EmptySession == [activeTurn |-> NewTurn(NoTurn), turns |-> <<>>]

\* An action and the turn it names; which of the other fields it has depends
\* on its type.
TurnAction == [type : {"turnStarted", "turnComplete", "turnCancelled", "error"}, turn : Turn]
ToolAction ==
  [type : {"toolCallStart", "toolCallReady", "toolCallComplete"}, turn : Turn, tool : Tool]
PermissionAction ==
  [type : {"permissionRequest"}, turn : Turn, request : Request]
  \cup [type : {"permissionResolved"}, turn : Turn, request : Request, approved : BOOLEAN]
Action == TurnAction \cup ToolAction \cup PermissionAction

TurnEnd == {"turnComplete", "turnCancelled", "error"}

\* Mutant: the tool calls are recorded as they are.
EndTurnAsIs(st, a) ==
  [activeTurn |-> NewTurn(NoTurn),
   turns |-> Append(st.turns,
     [id |-> st.activeTurn.id, state |-> "complete", toolCalls |-> st.activeTurn.toolCalls])]

\* Mutant: the turn is recorded and stays the active one.
EndTurnKeepsActive(st, a) ==
  [st EXCEPT !.turns = Append(@,
     [id |-> st.activeTurn.id, state |-> "complete", toolCalls |-> [k \in Tool |-> "absent"]])]

\* endTurn: the tool calls that are not settled are forced to cancelled.
EndTurn(st, a) ==
  [activeTurn |-> NewTurn(NoTurn),
   turns |-> Append(st.turns,
     [id    |-> st.activeTurn.id,
      state |-> CASE a.type = "turnComplete" -> "complete"
                  [] a.type = "turnCancelled" -> "cancelled"
                  [] a.type = "error" -> "error",
      toolCalls |-> [k \in Tool |->
        IF st.activeTurn.toolCalls[k] \in Settled \cup {"absent"}
        THEN st.activeTurn.toolCalls[k] ELSE "cancelled"]])]

\* Mutant: a completion is applied whatever the status.
ToolAfterAnyway(status, a) ==
  CASE a.type = "toolCallStart" -> "streaming"
    [] a.type = "toolCallReady" -> "running"
    [] a.type = "toolCallComplete" -> "completed"

\* The status of a tool call after an action on it.
ToolAfter(status, a) ==
  CASE a.type = "toolCallStart" -> "streaming"
    [] a.type = "toolCallReady" /\ status # "absent" -> "running"
    [] a.type = "toolCallComplete" /\ status \in {"running", "pendingConfirmation"} -> "completed"
    [] OTHER -> status

RequestPermission(turn, r) ==
  [turn EXCEPT
     !.pendingPermissions = @ \cup {r},
     !.toolCalls[ToolOf[r]] = IF @ \in {"running", "streaming"} THEN "pendingConfirmation" ELSE @]

ResolvePermission(turn, r, approved) ==
  [turn EXCEPT
     !.pendingPermissions = @ \ {r},
     !.toolCalls[ToolOf[r]] =
       IF r \notin turn.pendingPermissions \/ @ # "pendingConfirmation" THEN @
       ELSE IF approved THEN "running" ELSE "cancelled"]

\* sessionReducer: everything but the start of a turn is about the active turn
\* or nothing.
Reduce(st, a) ==
  IF a.type = "turnStarted" THEN [st EXCEPT !.activeTurn = NewTurn(a.turn)]
  ELSE IF a.turn # st.activeTurn.id THEN st
  ELSE CASE a.type \in TurnEnd -> EndTurn(st, a)
         [] a.type = "permissionRequest" ->
              [st EXCEPT !.activeTurn = RequestPermission(@, a.request)]
         [] a.type = "permissionResolved" ->
              [st EXCEPT !.activeTurn = ResolvePermission(@, a.request, a.approved)]
         [] OTHER -> [st EXCEPT !.activeTurn.toolCalls[a.tool] = ToolAfter(@, a)]

ReduceAll(st, actions) == FoldLeft(Reduce, st, actions)

----------------------------------------------------------------------------
VARIABLES
  \* server
  session,    \* the authoritative state of the session
  routed,     \* AgentSideEffects._pendingPermissions
  \* agent
  waiting,    \* CopilotAgent._pendingPermissions: requests not decided yet
  \* SDK and the pipe to its process
  commands,   \* calls on their way to the SDK
  events,     \* events on their way from it
  work,       \* the turn whose prompt it is processing
  queue,      \* the prompts it has not come to
  tools,      \* the tool calls it is executing
  blocked,    \* the permission requests it waits for
  \* window and its connection
  toServer,   \* dispatched actions
  toWindow,   \* envelopes: an action, and whether it is the window's own
  confirmed, pending,
  running,    \* the turn the current chat request waits for
  prompts,    \* permission requests before the user, with their turns
  shown,      \* permission requests shown during this request
  \* ids handed out so far
  usedTurns, usedTools, usedRequests

server == <<session, routed, waiting>>
sdk    == <<work, queue, tools, blocked, usedTools, usedRequests>>
pipe   == <<commands, events>>
window == <<confirmed, pending, running, prompts, shown, usedTurns>>
net    == <<toServer, toWindow>>
vars   == <<server, sdk, pipe, window, net>>

Init ==
  /\ session = EmptySession /\ routed = {} /\ waiting = {}
  /\ commands = <<>> /\ events = <<>>
  /\ work = NoTurn /\ queue = <<>> /\ tools = {} /\ blocked = {}
  /\ toServer = <<>> /\ toWindow = <<>>
  /\ confirmed = EmptySession /\ pending = <<>>
  /\ running = NoTurn /\ prompts = {} /\ shown = {}
  /\ usedTurns = {} /\ usedTools = {} /\ usedRequests = {}

----------------------------------------------------------------------------
(* Server *)

\* Mutant: the envelopes do not say whose action they echo.
ApplyWithoutOrigin(actions, own) ==
  /\ session' = ReduceAll(session, actions)
  /\ toWindow' = toWindow \o [i \in DOMAIN actions |-> [action |-> actions[i], own |-> FALSE]]

\* Actions are reduced and broadcast in order.
Apply(actions, own) ==
  /\ session' = ReduceAll(session, actions)
  /\ toWindow' = toWindow \o [i \in DOMAIN actions |-> [action |-> actions[i], own |-> own]]

Answer(r, approved) == [call |-> "answer", request |-> r, approved |-> approved]

\* Mutant: aborting forgets the requests held instead of denying them.
NoDenials == <<>>

\* _denyPendingPermissionsForSession completes promises, so that the denials
\* are written after the abort that follows it.
Denials == LET held == SetToSeq(waiting) IN [i \in DOMAIN held |-> Answer(held[i], FALSE)]

\* Mutant: an answer clears the routing table.
NoRoutes(r) == {}

\* The routing table once r is answered.
RoutesAfter(r) == routed \ {r}

\* AgentSideEffects.handleAction.  A cancellation aborts the session, whatever
\* turn it names.
SideEffect(a) ==
  \/ /\ a.type = "turnStarted"
     /\ commands' = Append(commands, [call |-> "send", turn |-> a.turn])
     /\ UNCHANGED <<routed, waiting>>
  \/ /\ a.type = "turnCancelled"
     /\ commands' = Append(commands, [call |-> "abort"]) \o Denials
     /\ waiting' = {}
     /\ UNCHANGED routed
  \/ /\ a.type = "permissionResolved"
     /\ routed' = RoutesAfter(a.request)
     /\ IF a.request \in routed \cap waiting
        THEN /\ waiting' = waiting \ {a.request}
             /\ commands' = Append(commands, Answer(a.request, a.approved))
        ELSE UNCHANGED <<waiting, commands>>

HandleDispatchAction ==
  /\ toServer # <<>>
  /\ toServer' = Tail(toServer)
  /\ Apply(<<Head(toServer)>>, TRUE)
  /\ SideEffect(Head(toServer))
  /\ UNCHANGED <<sdk, events, window>>

\* mapProgressEventToActions, for the active turn t.
ActionsOf(e, t) ==
  CASE e.type = "tool_start" ->
         <<[type |-> "toolCallStart", turn |-> t, tool |-> e.tool],
           [type |-> "toolCallReady", turn |-> t, tool |-> e.tool]>>
    [] e.type = "tool_complete" ->
         <<[type |-> "toolCallComplete", turn |-> t, tool |-> e.tool]>>
    [] e.type = "permission_request" ->
         <<[type |-> "permissionRequest", turn |-> t, request |-> e.request]>>
    [] e.type = "idle" -> <<[type |-> "turnComplete", turn |-> t]>>
    [] e.type = "error" -> <<[type |-> "error", turn |-> t]>>

\* An event of the SDK reaches the agent and, in the same step, the listener
\* of AgentSideEffects.
HandleProgress ==
  /\ events # <<>> /\ Head(events).type # "sendFailed"
  /\ events' = Tail(events)
  /\ LET e    == Head(events)
         asks == IF e.type = "permission_request" THEN {e.request} ELSE {}
     IN /\ waiting' = waiting \cup asks
        /\ routed' = routed \cup asks
        /\ Apply(IF session.activeTurn.id = NoTurn THEN <<>>
                 ELSE ActionsOf(e, session.activeTurn.id), FALSE)
  /\ UNCHANGED <<sdk, commands, window, toServer>>

\* Mutant: a rejected sendMessage is only logged.
HandleSendFailedQuietly ==
  /\ events # <<>> /\ Head(events).type = "sendFailed"
  /\ events' = Tail(events)
  /\ UNCHANGED <<session, toWindow, routed, waiting, sdk, commands, window, toServer>>

\* sendMessage rejected: the error names the turn it was called for.
HandleSendFailed ==
  /\ events # <<>> /\ Head(events).type = "sendFailed"
  /\ events' = Tail(events)
  /\ Apply(<<[type |-> "error", turn |-> Head(events).turn]>>, FALSE)
  /\ UNCHANGED <<routed, waiting, sdk, commands, window, toServer>>

----------------------------------------------------------------------------
(* SDK (external) *)

Notify(e) == events' = Append(events, e)

\* The prompt at work is done with, the next one is taken up.
NextPrompt(q) ==
  /\ work' = IF q = <<>> THEN NoTurn ELSE Head(q)
  /\ queue' = IF q = <<>> THEN <<>> ELSE Tail(q)

Called(call) ==
  /\ commands # <<>> /\ Head(commands).call = call
  /\ commands' = Tail(commands)

SdkSend ==
  /\ Called("send")
  /\ LET t == Head(commands).turn IN
       \/ /\ IF work = NoTurn THEN NextPrompt(<<t>>)
             ELSE queue' = Append(queue, t) /\ UNCHANGED work
          /\ UNCHANGED events
       \/ /\ Notify([type |-> "sendFailed", turn |-> t])
          /\ UNCHANGED <<work, queue>>
  /\ UNCHANGED <<server, tools, blocked, usedTools, usedRequests, window, net>>

\* An abort stops the prompt at work; an idle event may follow.  Requests it
\* made still have to be answered.
SdkAbort ==
  /\ Called("abort")
  /\ tools' = {}
  /\ NextPrompt(queue)
  /\ Notify([type |-> "idle"]) \/ UNCHANGED events
  /\ UNCHANGED <<server, blocked, usedTools, usedRequests, window, net>>

SdkAnswer ==
  /\ Called("answer")
  /\ blocked' = blocked \ {Head(commands).request}
  /\ UNCHANGED <<server, events, work, queue, tools, usedTools, usedRequests, window, net>>

SdkToolStart(k) ==
  /\ work # NoTurn /\ k \notin usedTools
  /\ tools' = tools \cup {k} /\ usedTools' = usedTools \cup {k}
  /\ Notify([type |-> "tool_start", tool |-> k])
  /\ UNCHANGED <<server, commands, work, queue, blocked, usedRequests, window, net>>

SdkAsk(r) ==
  /\ ToolOf[r] \in tools /\ r \notin usedRequests
  /\ blocked' = blocked \cup {r} /\ usedRequests' = usedRequests \cup {r}
  /\ Notify([type |-> "permission_request", request |-> r])
  /\ UNCHANGED <<server, commands, work, queue, tools, usedTools, window, net>>

SdkToolComplete(k) ==
  /\ k \in tools /\ \A r \in blocked : ToolOf[r] # k
  /\ tools' = tools \ {k}
  /\ Notify([type |-> "tool_complete", tool |-> k])
  /\ UNCHANGED <<server, commands, work, queue, blocked, usedTools, usedRequests, window, net>>

\* A prompt ends, in success or with an error; the session is idle when there
\* is none left.
SdkFinish ==
  /\ work # NoTurn /\ tools = {} /\ blocked = {}
  /\ NextPrompt(queue)
  /\ \/ Notify([type |-> "idle"])
     \/ Notify([type |-> "error"])
     \/ queue # <<>> /\ UNCHANGED events
  /\ UNCHANGED <<server, commands, tools, blocked, usedTools, usedRequests, window, net>>

----------------------------------------------------------------------------
(* Window *)

Optimistic(conf, pend) == ReduceAll(conf, pend)

Dispatch(actions) ==
  /\ pending' = pending \o actions
  /\ toServer' = toServer \o actions

Resolved(p, approved) ==
  [type |-> "permissionResolved", turn |-> p.turn, request |-> p.request,
   approved |-> approved]

\* _handleTurn
StartTurn(t) ==
  /\ running = NoTurn
  /\ t \notin usedTurns
  /\ usedTurns' = usedTurns \cup {t}
  /\ running' = t
  /\ shown' = {}
  /\ Dispatch(<<[type |-> "turnStarted", turn |-> t]>>)
  /\ UNCHANGED <<server, sdk, pipe, confirmed, prompts, toWindow>>

\* The request is cancelled: the turn is cancelled, then every prompt of it
\* that is still open is denied.
CancelTurn ==
  /\ running \in Cancellable
  /\ LET open   == SetToSeq({p \in prompts : p.turn = running})
         denied == [i \in DOMAIN open |-> Resolved(open[i], FALSE)]
     IN /\ Dispatch(<<[type |-> "turnCancelled", turn |-> running]>> \o denied)
        /\ prompts' = prompts \ ToSet(open)
  /\ running' = NoTurn
  /\ UNCHANGED <<server, sdk, pipe, confirmed, shown, usedTurns, toWindow>>

\* The user answers a prompt, of the running request or of one that has
\* finished meanwhile.
AnswerPrompt(p, approved) ==
  /\ p \in prompts
  /\ prompts' = prompts \ {p}
  /\ Dispatch(<<Resolved(p, approved)>>)
  /\ UNCHANGED <<server, sdk, pipe, confirmed, running, shown, usedTurns, toWindow>>

\* receiveEnvelope and the change listener of the running request: it ends
\* with its turn, and shows the permission requests it has not shown yet.
ReceiveEnvelope ==
  /\ toWindow # <<>>
  /\ toWindow' = Tail(toWindow)
  /\ LET m == Head(toWindow) IN
       /\ confirmed' = Reduce(confirmed, m.action)
       /\ pending' = IF m.own THEN Tail(pending) ELSE pending
  /\ LET seen == Optimistic(confirmed', pending').activeTurn IN
       IF running = NoTurn THEN UNCHANGED <<running, prompts, shown>>
       ELSE IF seen.id # running THEN running' = NoTurn /\ UNCHANGED <<prompts, shown>>
       ELSE /\ prompts' = prompts \cup
                 [turn : {running}, request : seen.pendingPermissions \ shown]
            /\ shown' = shown \cup seen.pendingPermissions
            /\ UNCHANGED running
  /\ UNCHANGED <<server, sdk, pipe, usedTurns, toServer>>

----------------------------------------------------------------------------
Sdk ==
  \/ SdkSend \/ SdkAbort \/ SdkAnswer \/ SdkFinish
  \/ \E k \in Tool : SdkToolStart(k) \/ SdkToolComplete(k)
  \/ \E r \in Request : SdkAsk(r)

AnswerSome == \E p \in prompts, approved \in BOOLEAN : AnswerPrompt(p, approved)

Next ==
  \/ HandleDispatchAction \/ HandleProgress \/ HandleSendFailed
  \/ Sdk
  \/ \E t \in Turn : StartTurn(t)
  \/ CancelTurn \/ AnswerSome \/ ReceiveEnvelope

Spec == Init /\ [][Next]_vars

\* Every queue is read, the SDK works through its prompts and finishes the
\* tool calls it may, and the user answers what is asked.
Fairness ==
  /\ WF_vars(HandleDispatchAction)
  /\ WF_vars(HandleProgress \/ HandleSendFailed)
  /\ WF_vars(ReceiveEnvelope)
  /\ WF_vars(SdkSend \/ SdkAbort \/ SdkAnswer)
  /\ WF_vars(SdkFinish)
  /\ \A k \in Tool : WF_vars(SdkToolComplete(k))
  /\ WF_vars(AnswerSome)

FairSpec == Spec /\ Fairness

----------------------------------------------------------------------------
(* Properties *)

\* Types.
TypeOK ==
  /\ {session, confirmed} \subseteq SessionState
  /\ routed \subseteq Request /\ waiting \subseteq Request
  /\ {work, running} \subseteq Turn \cup {NoTurn}
  /\ queue \in Seq(Turn)
  /\ tools \subseteq Tool /\ blocked \subseteq Request
  /\ toServer \in Seq(Action) /\ pending \in Seq(Action)
  /\ toWindow \in Seq([action : Action, own : BOOLEAN])
  /\ prompts \subseteq [turn : Turn, request : Request]
  /\ shown \subseteq Request

\* A turn is recorded at most once, and never while it is still active,
\* whatever ends it first: the agent's idle or error event, a failed send, or
\* a cancellation that crosses them.
TurnsRecordedOnce ==
  /\ \A i, j \in DOMAIN session.turns : session.turns[i].id = session.turns[j].id => i = j
  /\ \A i \in DOMAIN session.turns : session.turns[i].id # session.activeTurn.id

\* The outcome of a tool call sticks while its turn is active: a permission
\* that was denied, or a result that arrived, is not undone by an event or an
\* answer that comes after it.
ToolOutcomeSticks ==
  [][session'.activeTurn.id = session.activeTurn.id =>
       \A k \in Tool : session.activeTurn.toolCalls[k] \in Settled =>
         session'.activeTurn.toolCalls[k] = session.activeTurn.toolCalls[k]]_vars

\* The SDK never waits for a permission nobody holds: the request is on its
\* way to the agent, held by it, or its answer is on its way back, however
\* answers and cancellations cross.
HeldRequests ==
  \A r \in blocked :
    \/ r \in waiting
    \/ [type |-> "permission_request", request |-> r] \in ToSet(events)
    \/ \E approved \in BOOLEAN : Answer(r, approved) \in ToSet(commands)

\* A prompt of the running request can be answered: the server still routes
\* the answer and the agent still holds the request.
PromptsAreAnswerable ==
  \A p \in prompts : p.turn = running => p.request \in routed \cap waiting

\* With nothing under way between them, the window waits for the turn that is
\* active on the server, holds the same state, and has put before the user
\* exactly the permissions that turn waits for.
WindowAgrees ==
  toServer = <<>> /\ toWindow = <<>> =>
    /\ pending = <<>> /\ confirmed = session
    /\ running = session.activeTurn.id
    /\ session.activeTurn.pendingPermissions = {p.request : p \in {q \in prompts : q.turn = running}}

\* actions.ts: turnComplete is "Turn finished -- the assistant is idle", so
\* the turn an idle event completes is neither at work in the SDK nor still
\* to be worked on.
CompletedTurnIsIdle ==
  [][HandleProgress /\ Head(events).type = "idle" =>
       LET t == session.activeTurn.id IN
       t # NoTurn => /\ work # t /\ t \notin ToSet(queue)
                     /\ [call |-> "send", turn |-> t] \notin ToSet(commands)]_vars

\* A chat request that nobody cancels finishes: its turn ends on the server
\* and the window learns of it.
RequestFinishes == \A t \in Turn : running = t ~> running # t

=============================================================================
