-------------------------- MODULE SessionProtocol --------------------------
(***************************************************************************)
(* The sessions protocol of the agent host (platform/agentHost): one       *)
(* server holds the authoritative state of the root and of every session,  *)
(* clients hold copies of it and write ahead of the server.                *)
(*                                                                         *)
(*   server   SessionStateManager (state, serverSeq, turn tracking),       *)
(*            ProtocolServerHandler (connections, subscriptions, routing)  *)
(*   client   RemoteAgentHostProtocolClient: one connection, one clientId  *)
(*   handler  AgentHostSessionHandler: one per agent provider, several may *)
(*            share a connection; each owns a SessionClientState (confirmed*)
(*            state, pending actions, optimistic state) and its own        *)
(*            clientSeq counter.                                           *)
(*                                                                         *)
(* The content of a session (text, tool calls, titles) is abstracted to    *)
(* the sequence of the actions reduced into it: the reducers are pure, so  *)
(* equal sequences give equal states.  The active turn, which guards       *)
(* depend on, is kept beside it.                                           *)
(***************************************************************************)
EXTENDS Integers, Sequences, FiniteSets, SequencesExt

CONSTANTS
  Client,     \* connections, each a client object with a fresh clientId
  Handler,    \* session handlers and root-state holders living on them
  Session,    \* session URIs, generated once and never reused
  Turn,       \* turn ids, generated once (bounds the requests made)
  Root,       \* the URI of the root state
  NoTurn,     \* "no active turn"
  NoOrigin,   \* the origin of a server-produced envelope
  ClientOf,   \* the connection each handler lives on
  Serves,     \* the resources each handler opens: its provider's sessions
  Breakable   \* the connections that may break (bounds the instance)

Resource == Session \cup {Root}

ASSUME ClientOfAssumption == ClientOf \in [Handler -> Client]
ASSUME ServesAssumption ==
  /\ Serves \in [Handler -> SUBSET Resource]
  /\ \A h1, h2 \in Handler :
       h1 # h2 /\ ClientOf[h1] = ClientOf[h2] => Serves[h1] \cap Serves[h2] = {}
  \* the root state has a SessionClientState of its own, with no session in it
  /\ \A h \in Handler : Root \in Serves[h] => Serves[h] = {Root}
ASSUME BreakableAssumption == Breakable \subseteq Client
ASSUME RootAssumption == Root \notin Session
ASSUME NoTurnAssumption == NoTurn \notin Turn
ASSUME NoOriginAssumption == NoOrigin \notin [client : Client, clientSeq : Nat]
ASSUME FiniteTurns == IsFiniteSet(Turn)

----------------------------------------------------------------------------
(* Actions, states, envelopes and messages *)

TurnEnd == {"turnComplete", "turnCancelled"}

SessionAction ==
  [type : {"ready"}, resource : Session, turn : {NoTurn}, count : {0}]
  \cup [type : TurnEnd \cup {"turnStarted"}, resource : Session, turn : Turn, count : {0}]
RootAction ==
  [type : {"activeSessions"}, resource : {Root}, turn : {NoTurn}, count : Nat]
Action == SessionAction \cup RootAction

ActionOf(type, s, t) == [type |-> type, resource |-> s, turn |-> t, count |-> 0]
ActiveSessionsChanged(n) ==
  [type |-> "activeSessions", resource |-> Root, turn |-> NoTurn, count |-> n]

\* An action that was reduced, with the serverSeq of the envelope that
\* carried it; 0 for one that is only applied optimistically.
Entry == [serverSeq : Nat, action : Action]
State == [entries : Seq(Entry), activeTurn : Turn \cup {NoTurn}]
InitialState == [entries |-> <<>>, activeTurn |-> NoTurn]

\* Mutant: a cancelled turn stays the active one.
ReduceKeepingCancelled(st, a, seq) ==
  [entries    |-> Append(st.entries, [serverSeq |-> seq, action |-> a]),
   activeTurn |-> IF a.type = "turnStarted" THEN a.turn
                  ELSE IF a.type = "turnComplete" /\ a.turn = st.activeTurn THEN NoTurn
                  ELSE st.activeTurn]

\* rootReducer and sessionReducer: a turn that starts replaces the active
\* one, a turn that ends clears the active turn only if it is that turn.
Reduce(st, a, seq) ==
  [entries    |-> Append(st.entries, [serverSeq |-> seq, action |-> a]),
   activeTurn |-> IF a.type = "turnStarted" THEN a.turn
                  ELSE IF a.type \in TurnEnd /\ a.turn = st.activeTurn THEN NoTurn
                  ELSE st.activeTurn]

Origin == [client : Client, clientSeq : Nat] \cup {NoOrigin}
Envelope == [action : Action, serverSeq : Nat, origin : Origin]
PendingAction == [clientSeq : Nat, action : SessionAction]

\* Pending actions replayed on top of a confirmed state.
Replay(st, p) == Reduce(st, p.action, 0)
Rebase(st, pend) == FoldLeft(Replay, st, pend)

ToServer ==
  [kind : {"initialize"}]
  \cup [kind : {"subscribe"}, resource : Resource, handler : Handler]
  \cup [kind : {"unsubscribe", "disposeSession"}, resource : Session]
  \cup [kind : {"createSession"}, resource : Session, handler : Handler]
  \cup [kind : {"dispatchAction"}, action : SessionAction, clientSeq : Nat]

ToClient ==
  [kind : {"initialized"}]
  \cup [kind : {"action"}, envelope : Envelope]
  \cup [kind : {"snapshot"}, resource : Resource, handler : Handler,
        state : State, fromSeq : Nat]
  \cup [kind : {"notFound"}, resource : Resource, handler : Handler]
  \cup [kind : {"created", "createFailed"}, resource : Session, handler : Handler]

----------------------------------------------------------------------------
VARIABLES
  \* SessionStateManager
  serverSeq,            \* the last sequence number assigned
  state,                \* the root state and the session states
  phase,                \* "none": not created yet, "live": has a state,
                        \* "removed": known to its provider at most
  activeTurnToSession,  \* the turn ids tracked as active
  \* ProtocolServerHandler
  clients,              \* the connections registered by a handshake
  subscriptions,        \* the resources each connection is subscribed to
  creating,             \* createSession requests awaiting the agent
  \* the transports, in order and reliable until they close
  c2s, s2c, link,
  \* SessionClientState, per handler
  subscribedSessions,   \* the resources with a confirmed state
  confirmed, optimistic, pending, nextClientSeq, lastSeenServerSeq,
  \* AgentHostSessionHandler
  view,                 \* where a session's chat editor is in its life
  running,              \* the turn the current chat request waits for
  usedTurns             \* the turn ids generated so far

server  == <<serverSeq, state, phase, activeTurnToSession>>
handler == <<clients, subscriptions, creating>>
net     == <<c2s, s2c, link>>
sync    == <<subscribedSessions, confirmed, optimistic, pending,
             nextClientSeq, lastSeenServerSeq>>
chat    == <<view, running, usedTurns>>
vars    == <<server, handler, net, sync, chat>>

Init ==
  /\ serverSeq = 0
  /\ state = [r \in Resource |-> InitialState]
  /\ phase \in [Session -> {"none", "removed"}]
  /\ activeTurnToSession = {}
  /\ clients = {}
  /\ subscriptions = [c \in Client |-> {}]
  /\ creating = {}
  /\ c2s = [c \in Client |-> <<>>]
  /\ s2c = [c \in Client |-> <<>>]
  /\ link = [c \in Client |-> "none"]
  /\ subscribedSessions = [h \in Handler |-> {}]
  /\ confirmed = [h \in Handler |-> [r \in Resource |-> InitialState]]
  /\ optimistic = confirmed
  /\ pending = [h \in Handler |-> [s \in Session |-> <<>>]]
  /\ nextClientSeq = [h \in Handler |-> 1]
  /\ lastSeenServerSeq = [h \in Handler |-> 0]
  /\ view = [h \in Handler |-> [r \in Resource |-> "none"]]
  /\ running = [h \in Handler |-> [s \in Session |-> NoTurn]]
  /\ usedTurns = {}

Live(r) == r = Root \/ (r \in Session /\ phase[r] = "live")

----------------------------------------------------------------------------
(* Server: applying an action and broadcasting its envelope *)

Deliver(q, env) ==
  [c \in Client |->
     IF c \in clients /\ link[c] # "closed" /\ env.action.resource \in subscriptions[c]
     THEN Append(q[c], [kind |-> "action", envelope |-> env])
     ELSE q[c]]

\* An action on a turn of a session that exists: the root count changes
\* first, so its envelope is emitted (and numbered) before the action's own.
EmitTracked(q, a, origin) ==
  LET turns    == IF a.type = "turnStarted"
                  THEN activeTurnToSession \cup {a.turn}
                  ELSE activeTurnToSession \ {a.turn}
      counted  == ActiveSessionsChanged(Cardinality(turns))
      rootEnv  == [action |-> counted, serverSeq |-> serverSeq + 1, origin |-> NoOrigin]
      env      == [action |-> a, serverSeq |-> serverSeq + 2, origin |-> origin]
  IN /\ activeTurnToSession' = turns
     /\ serverSeq' = serverSeq + 2
     /\ state' = [state EXCEPT ![a.resource] = Reduce(@, a, serverSeq + 2),
                               ![Root] = Reduce(@, counted, serverSeq + 1)]
     /\ s2c' = Deliver(Deliver(q, rootEnv), env)

\* Any other action; one for an unknown session changes no state, yet its
\* envelope is numbered and broadcast all the same.
EmitUntracked(q, a, origin) ==
  /\ serverSeq' = serverSeq + 1
  /\ state' = IF Live(a.resource)
              THEN [state EXCEPT ![a.resource] = Reduce(@, a, serverSeq + 1)]
              ELSE state
  /\ s2c' = Deliver(q, [action |-> a, serverSeq |-> serverSeq + 1, origin |-> origin])
  /\ UNCHANGED activeTurnToSession

Emit(q, a, origin) ==
  IF Live(a.resource) /\ a.type \in TurnEnd \cup {"turnStarted"}
  THEN EmitTracked(q, a, origin)
  ELSE EmitUntracked(q, a, origin)

(* Server: handling the next message of a connection.  A request other
   than initialize, or a notification, is ignored until the handshake has
   registered the client. *)

Handling(c, kind) ==
  /\ c2s[c] # <<>>
  /\ Head(c2s[c]).kind = kind
  /\ c2s' = [c2s EXCEPT ![c] = Tail(@)]

Reply(c, m) ==
  s2c' = IF link[c] = "closed" THEN s2c ELSE [s2c EXCEPT ![c] = Append(@, m)]

HandleInitialize(c) ==
  /\ Handling(c, "initialize")
  /\ c \notin clients
  /\ clients' = clients \cup {c}
  /\ subscriptions' = [subscriptions EXCEPT ![c] = {}]
  /\ Reply(c, [kind |-> "initialized"])
  /\ UNCHANGED <<server, creating, link, sync, chat>>

\* Mutant: the snapshot is sent, the subscription is not recorded.
HandleSubscribeOnce(c) ==
  /\ Handling(c, "subscribe")
  /\ LET m == Head(c2s[c]) IN
       /\ Live(m.resource)
       /\ Reply(c, [kind |-> "snapshot", resource |-> m.resource, handler |-> m.handler,
                    state |-> state[m.resource], fromSeq |-> serverSeq])
  /\ UNCHANGED <<server, handler, link, sync, chat>>

\* Mutant: fromSeq is the next serverSeq, not the last one assigned.
HandleSubscribeFromNext(c) ==
  /\ Handling(c, "subscribe")
  /\ LET m == Head(c2s[c]) IN
       /\ Live(m.resource)
       /\ subscriptions' = [subscriptions EXCEPT ![c] = @ \cup {m.resource}]
       /\ Reply(c, [kind |-> "snapshot", resource |-> m.resource, handler |-> m.handler,
                    state |-> state[m.resource], fromSeq |-> serverSeq + 1])
  /\ UNCHANGED <<server, clients, creating, link, sync, chat>>

\* The snapshot and the subscription are taken in one synchronous step.
HandleSubscribe(c) ==
  /\ Handling(c, "subscribe")
  /\ LET m == Head(c2s[c]) IN
       IF Live(m.resource)
       THEN /\ subscriptions' = [subscriptions EXCEPT ![c] = @ \cup {m.resource}]
            /\ Reply(c, [kind |-> "snapshot", resource |-> m.resource,
                         handler |-> m.handler, state |-> state[m.resource],
                         fromSeq |-> serverSeq])
       ELSE /\ Reply(c, [kind |-> "notFound", resource |-> m.resource,
                         handler |-> m.handler])
            /\ UNCHANGED subscriptions
  /\ UNCHANGED <<server, clients, creating, link, sync, chat>>

HandleUnsubscribe(c) ==
  /\ Handling(c, "unsubscribe")
  /\ subscriptions' = [subscriptions EXCEPT ![c] = @ \ {Head(c2s[c]).resource}]
  /\ UNCHANGED <<server, clients, creating, s2c, link, sync, chat>>

\* Mutant: an action on a session that does not exist is dropped.
HandleKnownAction(c) ==
  /\ Handling(c, "dispatchAction")
  /\ LET m == Head(c2s[c]) IN
       IF Live(m.action.resource)
       THEN Emit(s2c, m.action, [client |-> c, clientSeq |-> m.clientSeq])
       ELSE UNCHANGED <<server, s2c>>
  /\ UNCHANGED <<phase, handler, link, sync, chat>>

HandleDispatchAction(c) ==
  /\ Handling(c, "dispatchAction")
  /\ LET m == Head(c2s[c]) IN
       Emit(s2c, m.action, [client |-> c, clientSeq |-> m.clientSeq])
  /\ UNCHANGED <<phase, handler, link, sync, chat>>

\* handleCreateSession up to the await of agent.createSession.
HandleCreateSession(c) ==
  /\ Handling(c, "createSession")
  /\ creating' = creating \cup
       {[client |-> c, resource |-> Head(c2s[c]).resource, handler |-> Head(c2s[c]).handler]}
  /\ UNCHANGED <<server, clients, subscriptions, s2c, link, sync, chat>>

\* removeSession: the turn tracked for the active turn goes with the
\* session, the announced count does not change, and the subscriptions of
\* other clients stay.
HandleDisposeSession(c) ==
  /\ Handling(c, "disposeSession")
  /\ LET s == Head(c2s[c]).resource IN
       IF phase[s] = "live"
       THEN /\ phase' = [phase EXCEPT ![s] = "removed"]
            /\ activeTurnToSession' = activeTurnToSession \ {state[s].activeTurn}
            /\ state' = [state EXCEPT ![s] = InitialState]
       ELSE UNCHANGED <<phase, activeTurnToSession, state>>
  /\ UNCHANGED <<serverSeq, handler, s2c, link, sync, chat>>

Answer(q, p, kind) ==
  IF link[p.client] # "closed"
  THEN [q EXCEPT ![p.client] =
          Append(@, [kind |-> kind, resource |-> p.resource, handler |-> p.handler])]
  ELSE q

\* The agent created the session: its state exists, and session/ready is
\* dispatched, before the response is sent.
SessionCreated(p) ==
  /\ p \in creating
  /\ creating' = creating \ {p}
  /\ phase' = [phase EXCEPT ![p.resource] = "live"]
  /\ serverSeq' = serverSeq + 1
  /\ state' = [state EXCEPT ![p.resource] =
                 Reduce(InitialState, ActionOf("ready", p.resource, NoTurn), serverSeq + 1)]
  /\ s2c' = Answer(Deliver(s2c, [action    |-> ActionOf("ready", p.resource, NoTurn),
                                 serverSeq |-> serverSeq + 1,
                                 origin    |-> NoOrigin]),
                   p, "created")
  /\ UNCHANGED <<activeTurnToSession, clients, subscriptions, c2s, link, sync, chat>>

SessionCreationFails(p) ==
  /\ p \in creating
  /\ creating' = creating \ {p}
  /\ s2c' = Answer(s2c, p, "createFailed")
  /\ UNCHANGED <<server, clients, subscriptions, c2s, link, sync, chat>>

\* Mutant: an idle event is not checked against the active turn.
AgentIdleUnchecked(s) ==
  /\ phase[s] = "live"
  /\ Emit(s2c, ActionOf("turnComplete", s, state[s].activeTurn), NoOrigin)
  /\ UNCHANGED <<phase, handler, c2s, link, sync, chat>>

\* The agent reports that the session is idle; the event carries the session
\* only and is attributed to the turn that is active now.
AgentIdle(s) ==
  /\ phase[s] = "live"
  /\ state[s].activeTurn # NoTurn
  /\ Emit(s2c, ActionOf("turnComplete", s, state[s].activeTurn), NoOrigin)
  /\ UNCHANGED <<phase, handler, c2s, link, sync, chat>>

\* transport.onClose at the server.
HandleClose(c) ==
  /\ link[c] = "closed"
  /\ c \in clients \/ c2s[c] # <<>>
  /\ clients' = clients \ {c}
  /\ subscriptions' = [subscriptions EXCEPT ![c] = {}]
  /\ c2s' = [c2s EXCEPT ![c] = <<>>]
  /\ UNCHANGED <<server, creating, s2c, link, sync, chat>>

----------------------------------------------------------------------------
(* Client: the connection *)

Send(c, msgs) == c2s' = [c2s EXCEPT ![c] = @ \o msgs]

\* connect(): the handshake is awaited before anything else uses the
\* connection; it subscribes to nothing.
Connect(c) ==
  /\ link[c] = "none"
  /\ link' = [link EXCEPT ![c] = "handshake"]
  /\ Send(c, <<[kind |-> "initialize"]>>)
  /\ UNCHANGED <<server, handler, s2c, sync, chat>>

Receiving(c, kind) ==
  /\ s2c[c] # <<>>
  /\ Head(s2c[c]).kind = kind
  /\ s2c' = [s2c EXCEPT ![c] = Tail(@)]

Initialized(c) ==
  /\ Receiving(c, "initialized")
  /\ link' = [link EXCEPT ![c] = "open"]
  /\ UNCHANGED <<server, handler, c2s, sync, chat>>

\* The connection breaks: what was on its way to the client is lost, the
\* server may still read what had reached it before it sees the close.
Disconnect(c) ==
  /\ c \in Breakable
  /\ link[c] = "open"
  /\ link' = [link EXCEPT ![c] = "closed"]
  /\ s2c' = [s2c EXCEPT ![c] = <<>>]
  /\ UNCHANGED <<server, handler, c2s, sync, chat>>

----------------------------------------------------------------------------
(* Client: opening and closing sessions *)

SetView(h, r, v) == view' = [view EXCEPT ![h][r] = v]

\* provideChatSessionContent for a session that is listed, and the root
\* subscription made after connecting.
OpenExisting(h, r) ==
  /\ link[ClientOf[h]] = "open"
  /\ r \in Serves[h]
  /\ r \in Session => phase[r] # "none"
  /\ view[h][r] = "none"
  /\ SetView(h, r, "subscribing")
  /\ Send(ClientOf[h], <<[kind |-> "subscribe", resource |-> r, handler |-> h]>>)
  /\ UNCHANGED <<server, handler, s2c, link, sync, running, usedTurns>>

\* _createAndSubscribe, up to the await of createSession, with a fresh URI.
CreateSession(h, s) ==
  /\ link[ClientOf[h]] = "open"
  /\ s \in Serves[h]
  /\ phase[s] = "none"
  /\ \A h2 \in Handler : view[h2][s] = "none"
  /\ SetView(h, s, "creating")
  /\ Send(ClientOf[h], <<[kind |-> "createSession", resource |-> s, handler |-> h]>>)
  /\ UNCHANGED <<server, handler, s2c, link, sync, running, usedTurns>>

SessionCreateReturns(c) ==
  /\ Receiving(c, "created")
  /\ LET m == Head(s2c[c]) IN
       /\ SetView(m.handler, m.resource, "subscribing")
       /\ Send(c, <<[kind |-> "subscribe", resource |-> m.resource, handler |-> m.handler]>>)
  /\ UNCHANGED <<server, handler, link, sync, running, usedTurns>>

SessionCreateThrows(c) ==
  /\ Receiving(c, "createFailed")
  /\ SetView(Head(s2c[c]).handler, Head(s2c[c]).resource, "none")
  /\ UNCHANGED <<server, handler, c2s, link, sync, running, usedTurns>>

\* The change listener of a chat request, given the new optimistic state: a
\* request whose turn is not the active one is finished.
Awaited(h, s, st) == IF st.activeTurn = running[h][s] THEN running[h][s] ELSE NoTurn

\* SessionClientState.handleSnapshot: the confirmed state is replaced and
\* the pending actions of the session are replayed on it.
HandleSnapshot(c) ==
  /\ Receiving(c, "snapshot")
  /\ LET m == Head(s2c[c])
         h == m.handler
     IN /\ lastSeenServerSeq' = [lastSeenServerSeq EXCEPT ![h] = Max({@, m.fromSeq})]
        /\ subscribedSessions' = [subscribedSessions EXCEPT ![h] = @ \cup {m.resource}]
        /\ confirmed' = [confirmed EXCEPT ![h][m.resource] = m.state]
        /\ optimistic' = [optimistic EXCEPT ![h][m.resource] =
                            IF m.resource = Root THEN m.state
                            ELSE Rebase(m.state, pending[h][m.resource])]
        /\ SetView(h, m.resource, "open")
        /\ running' = IF m.resource = Root THEN running
                      ELSE [running EXCEPT ![h][m.resource] =
                              Awaited(h, m.resource, optimistic'[h][m.resource])]
  /\ UNCHANGED <<server, handler, c2s, link, pending, nextClientSeq, usedTurns>>

\* A failed subscribe is only logged: the chat session opens all the same.
SubscribeFails(c) ==
  /\ Receiving(c, "notFound")
  /\ SetView(Head(s2c[c]).handler, Head(s2c[c]).resource, "open")
  /\ UNCHANGED <<server, handler, c2s, link, sync, running, usedTurns>>

\* The chat session is disposed: its local state and its pending actions are
\* dropped, and the backend session is disposed with it.
CloseSession(h, s) ==
  /\ link[ClientOf[h]] = "open"
  /\ view[h][s] = "open"
  /\ SetView(h, s, "none")
  /\ subscribedSessions' = [subscribedSessions EXCEPT ![h] = @ \ {s}]
  /\ confirmed' = [confirmed EXCEPT ![h][s] = InitialState]
  /\ optimistic' = [optimistic EXCEPT ![h][s] = InitialState]
  /\ pending' = [pending EXCEPT ![h][s] = <<>>]
  /\ Send(ClientOf[h], <<[kind |-> "unsubscribe", resource |-> s],
                         [kind |-> "disposeSession", resource |-> s]>>)
  /\ UNCHANGED <<server, handler, s2c, link, nextClientSeq, lastSeenServerSeq,
                 running, usedTurns>>

----------------------------------------------------------------------------
(* Client: write-ahead and reconciliation *)

\* applyOptimistic, and the dispatchAction notification its caller sends.
Dispatch(h, a) ==
  /\ pending' = [pending EXCEPT ![h][a.resource] =
                   Append(@, [clientSeq |-> nextClientSeq[h], action |-> a])]
  /\ optimistic' = IF a.resource \in subscribedSessions[h]
                   THEN [optimistic EXCEPT ![h][a.resource] = Reduce(@, a, 0)]
                   ELSE optimistic
  /\ nextClientSeq' = [nextClientSeq EXCEPT ![h] = @ + 1]
  /\ Send(ClientOf[h], <<[kind |-> "dispatchAction", action |-> a,
                          clientSeq |-> nextClientSeq[h]]>>)

\* _handleTurn for a chat request: one request at a time per session.
StartTurn(h, s, t) ==
  /\ link[ClientOf[h]] = "open"
  /\ view[h][s] = "open"
  /\ running[h][s] = NoTurn
  /\ t \notin usedTurns
  /\ usedTurns' = usedTurns \cup {t}
  /\ running' = [running EXCEPT ![h][s] = t]
  /\ Dispatch(h, ActionOf("turnStarted", s, t))
  /\ UNCHANGED <<server, handler, s2c, link, subscribedSessions, confirmed,
                 lastSeenServerSeq, view>>

\* The user cancels the request: it finishes without waiting for the server.
CancelTurn(h, s) ==
  /\ link[ClientOf[h]] = "open"
  /\ running[h][s] # NoTurn
  /\ running' = [running EXCEPT ![h][s] = NoTurn]
  /\ Dispatch(h, ActionOf("turnCancelled", s, running[h][s]))
  /\ UNCHANGED <<server, handler, s2c, link, subscribedSessions, confirmed,
                 lastSeenServerSeq, view, usedTurns>>

\* Mutants: an echo settles nothing; it settles the oldest pending action.
DropNothing(pend, n) == pend
DropOldest(pend, n) == IF pend = <<>> THEN pend ELSE Tail(pend)

\* findIndex and splice: the entry with this clientSeq, if there is one.
DropPending(pend, n) ==
  IF \E i \in DOMAIN pend : pend[i].clientSeq = n
  THEN RemoveAt(pend, CHOOSE i \in DOMAIN pend : pend[i].clientSeq = n)
  ELSE pend

\* Mutant: the holder of the root state takes no action at all.
ListensToSessions(h, env) ==
  env.action.resource # Root /\ Root \notin Serves[h]

\* The holder of the root state takes root actions only, the session
\* handlers session actions only.
Listens(h, env) ==
  (env.action.resource = Root) = (Root \in Serves[h])

ConfirmedAfter(h, env) ==
  LET r == env.action.resource IN
  IF Listens(h, env) /\ r \in subscribedSessions[h]
  THEN [confirmed[h] EXCEPT ![r] = Reduce(@, env.action, env.serverSeq)]
  ELSE confirmed[h]

\* An echo is recognised by clientId and clientSeq alone.
PendingAfter(h, env) ==
  IF Listens(h, env) /\ env.origin # NoOrigin /\ env.origin.client = ClientOf[h]
  THEN [s \in Session |-> DropPending(pending[h][s], env.origin.clientSeq)]
  ELSE pending[h]

\* Mutant: only the sessions that still have pending actions are recomputed.
RecomputedIfPending(h, env) ==
  IF Listens(h, env)
  THEN {r \in subscribedSessions[h] : r \in Session /\ PendingAfter(h, env)[r] # <<>>}
  ELSE {}

\* The optimistic states that are recomputed, each firing a change event: of
\* the action's resource and of the sessions that still have pending actions.
Recomputed(h, env) ==
  IF Listens(h, env)
  THEN {r \in subscribedSessions[h] :
          r = env.action.resource \/ (r \in Session /\ PendingAfter(h, env)[r] # <<>>)}
  ELSE {}

OptimisticAfter(h, env) ==
  [r \in Resource |->
     IF r \notin Recomputed(h, env) THEN optimistic[h][r]
     ELSE IF r = Root THEN ConfirmedAfter(h, env)[r]
     ELSE Rebase(ConfirmedAfter(h, env)[r], PendingAfter(h, env)[r])]

\* Mutant: the listener looks at the confirmed state, which may be behind.
RunningAfterConfirmed(h, env) ==
  [s \in Session |->
     IF s \in Recomputed(h, env) THEN Awaited(h, s, ConfirmedAfter(h, env)[s])
     ELSE running[h][s]]

RunningAfter(h, env) ==
  [s \in Session |->
     IF s \in Recomputed(h, env) THEN Awaited(h, s, OptimisticAfter(h, env)[s])
     ELSE running[h][s]]

\* onDidAction reaches every handler of the connection in the same step.
ReceiveEnvelope(c) ==
  /\ Receiving(c, "action")
  /\ LET env == Head(s2c[c]).envelope
         On(f, after) == [h \in Handler |-> IF ClientOf[h] = c THEN after[h] ELSE f[h]]
     IN /\ confirmed' = On(confirmed, [h \in Handler |-> ConfirmedAfter(h, env)])
        /\ pending' = On(pending, [h \in Handler |-> PendingAfter(h, env)])
        /\ optimistic' = On(optimistic, [h \in Handler |-> OptimisticAfter(h, env)])
        /\ running' = On(running, [h \in Handler |-> RunningAfter(h, env)])
        /\ lastSeenServerSeq' =
             On(lastSeenServerSeq,
                [h \in Handler |-> IF Listens(h, env)
                                   THEN Max({lastSeenServerSeq[h], env.serverSeq})
                                   ELSE lastSeenServerSeq[h]])
  /\ UNCHANGED <<server, handler, c2s, link, subscribedSessions, nextClientSeq,
                 view, usedTurns>>

----------------------------------------------------------------------------
HandleMessage(c) ==
  \/ HandleInitialize(c)
  \/ HandleSubscribe(c)
  \/ HandleUnsubscribe(c)
  \/ HandleDispatchAction(c)
  \/ HandleCreateSession(c)
  \/ HandleDisposeSession(c)

ReceiveMessage(c) ==
  \/ Initialized(c)
  \/ SessionCreateReturns(c)
  \/ SessionCreateThrows(c)
  \/ HandleSnapshot(c)
  \/ SubscribeFails(c)
  \/ ReceiveEnvelope(c)

Next ==
  \/ \E c \in Client : HandleMessage(c) \/ ReceiveMessage(c)
  \/ \E c \in Client : Connect(c) \/ Disconnect(c) \/ HandleClose(c)
  \/ \E p \in creating : SessionCreated(p) \/ SessionCreationFails(p)
  \/ \E s \in Session : AgentIdle(s)
  \/ \E h \in Handler, r \in Resource : OpenExisting(h, r)
  \/ \E h \in Handler, s \in Session :
       CreateSession(h, s) \/ CloseSession(h, s) \/ CancelTurn(h, s)
  \/ \E h \in Handler, s \in Session, t \in Turn : StartTurn(h, s, t)

Spec == Init /\ [][Next]_vars

\* Both ends read their sockets, and an agent answers a createSession
\* request; nothing makes a user act, an agent finish or a link break.
Fairness ==
  /\ \A c \in Client : WF_vars(HandleMessage(c)) /\ WF_vars(ReceiveMessage(c))
  /\ WF_vars(\E p \in creating : SessionCreated(p) \/ SessionCreationFails(p))

FairSpec == Spec /\ Fairness

----------------------------------------------------------------------------
(* Properties *)

\* Types.  The optimistic states are pinned by OptimisticIsRebased instead.
TypeOK ==
  /\ serverSeq \in Nat
  /\ state \in [Resource -> State]
  /\ phase \in [Session -> {"none", "live", "removed"}]
  /\ activeTurnToSession \subseteq Turn
  /\ clients \subseteq Client
  /\ subscriptions \in [Client -> SUBSET Resource]
  /\ creating \subseteq [client : Client, resource : Session, handler : Handler]
  /\ c2s \in [Client -> Seq(ToServer)]
  /\ s2c \in [Client -> Seq(ToClient)]
  /\ link \in [Client -> {"none", "handshake", "open", "closed"}]
  /\ subscribedSessions \in [Handler -> SUBSET Resource]
  /\ confirmed \in [Handler -> [Resource -> State]]
  /\ pending \in [Handler -> [Session -> Seq(PendingAction)]]
  /\ nextClientSeq \in [Handler -> Nat]
  /\ lastSeenServerSeq \in [Handler -> Nat]
  /\ view \in [Handler -> [Resource -> {"none", "creating", "subscribing", "open"}]]
  /\ running \in [Handler -> [Session -> Turn \cup {NoTurn}]]
  /\ usedTurns \subseteq Turn

\* The message carries an action on r.
Carries(m, r) == m.kind = "action" /\ m.envelope.action.resource = r

\* What a client will reduce when it receives the message.
EntryOf(m) == [serverSeq |-> m.envelope.serverSeq, action |-> m.envelope.action]

Prefix(short, long) ==
  /\ Len(short) <= Len(long)
  /\ \A i \in 1 .. Len(short) : short[i] = long[i]

\* A handler that holds a live resource over an unbroken connection has
\* reduced a prefix of what the server reduced into it, and exactly the rest
\* is on its way, in order: nothing is lost, repeated or reordered between
\* the snapshot of a subscription and the envelopes sent around it.
\* Code: subscribe and _broadcastAction against handleSnapshot and
\* receiveEnvelope, which does not compare serverSeq with fromSeq.
InSync ==
  \A h \in Handler : \A r \in subscribedSessions[h] :
    link[ClientOf[h]] = "open" /\ Live(r) =>
      LET q    == s2c[ClientOf[h]]
          have == confirmed[h][r].entries
          all  == state[r].entries
      IN /\ Prefix(have, all)
         /\ \A i \in Len(have) + 1 .. Len(all) :
              \E j \in DOMAIN q : Carries(q[j], r) /\ EntryOf(q[j]) = all[i]
         /\ \A j \in DOMAIN q : Carries(q[j], r) =>
              \E i \in Len(have) + 1 .. Len(all) : EntryOf(q[j]) = all[i]
         /\ \A j, k \in DOMAIN q : j < k /\ Carries(q[j], r) /\ Carries(q[k], r) =>
              q[j].envelope.serverSeq < q[k].envelope.serverSeq

\* No handler is ever handed an envelope at or below the highest serverSeq it
\* has seen, whether in a snapshot or in an earlier envelope.
\* Code: lastSeenServerSeq is a running maximum, not a filter.
EnvelopesAreNew ==
  [][\A c \in Client : ReceiveEnvelope(c) =>
       LET env == Head(s2c[c]).envelope IN
       \A h \in Handler : ClientOf[h] = c /\ Listens(h, env) =>
         env.serverSeq > lastSeenServerSeq[h]]_vars

\* The cached optimistic state is the confirmed one with the pending actions
\* of that session on top, however it was last maintained (incrementally by
\* applyOptimistic, by a snapshot, by a selective recomputation).
OptimisticIsRebased ==
  \A h \in Handler : \A r \in subscribedSessions[h] :
    optimistic[h][r] = IF r = Root THEN confirmed[h][r]
                       ELSE Rebase(confirmed[h][r], pending[h][r])

\* What the user sees never has an action in it twice: an own action is
\* pending or confirmed, and never both.
AppliedOnce ==
  \A h \in Handler : \A s \in subscribedSessions[h] \cap Session :
    LET shown == optimistic[h][s].entries IN
    \A i, j \in DOMAIN shown : shown[i].action = shown[j].action => i = j

\* A chat request that its user did not cancel is not finished by a state
\* change before the server has sequenced the turn it started.
\* Code: the change listener of _handleTurn takes a missing or different
\* active turn of the optimistic state for the end of its own turn.
RequestSequenced ==
  [][\A h \in Handler, s \in Session :
       running[h][s] # NoTurn /\ running'[h][s] # running[h][s] =>
         \/ CancelTurn(h, s)
         \/ \E i \in DOMAIN confirmed'[h][s].entries :
              confirmed'[h][s].entries[i].action = ActionOf("turnStarted", s, running[h][s])]_vars

\* protocol.md: "Own action echoed: origin.clientId === myId and matches head
\* of pendingActions -> pop from pending, apply to confirmedState".  An
\* envelope settles no pending action but the one it echoes.
EchoSettlesItsAction ==
  [][\A c \in Client : ReceiveEnvelope(c) =>
       \A h \in Handler, s \in Session : ClientOf[h] = c =>
         \A i \in DOMAIN pending[h][s] :
           \/ \E j \in DOMAIN pending'[h][s] : pending'[h][s][j] = pending[h][s][i]
           \/ pending[h][s][i].action = Head(s2c[c]).envelope.action]_vars

\* hasActiveSessions never misses a running turn: whatever ends, is replaced
\* or is removed around it, a session's active turn is tracked.
ActiveTurnIsTracked ==
  \A s \in Session : state[s].activeTurn # NoTurn =>
    state[s].activeTurn \in activeTurnToSession

\* Every write a handler made ahead of the server on a session it shows is
\* eventually settled, unless its connection breaks.
PendingResolves ==
  \A h \in Handler, s \in Session :
    s \in subscribedSessions[h] /\ pending[h][s] # <<>>
      ~> pending[h][s] = <<>> \/ link[ClientOf[h]] = "closed"

=============================================================================
