----------------------- MODULE SessionProtocolProofs -----------------------
(***************************************************************************)
(* Proofs about SessionProtocol, for any number of clients, handlers,      *)
(* sessions and turns.                                                     *)
(***************************************************************************)
EXTENDS SessionProtocol, SequenceTheorems, FiniteSetTheorems, TLAPS

USE ClientOfAssumption, ServesAssumption, RootAssumption, BreakableAssumption

----------------------------------------------------------------------------
(* The operators the model is built from *)

LEMMA MaxOfTwo ==
  ASSUME NEW m \in Nat, NEW n \in Nat
  PROVE  Max({m, n}) \in Nat /\ Max({m, n}) >= m /\ Max({m, n}) >= n
         /\ (Max({m, n}) = m \/ Max({m, n}) = n)
<1>1. \E x \in {m, n} : \A y \in {m, n} : x >= y
  <2>1. CASE m >= n
    BY <2>1
  <2>2. CASE n >= m
    BY <2>2
  <2> QED
    BY <2>1, <2>2
<1> QED
  BY <1>1 DEF Max

LEMMA ReduceType ==
  ASSUME NEW st \in State, NEW a \in Action, NEW n \in Nat
  PROVE  Reduce(st, a, n) \in State
<1>1. a.turn \in Turn \cup {NoTurn}
  BY DEF Action, SessionAction, RootAction
<1>2. Append(st.entries, [serverSeq |-> n, action |-> a]) \in Seq(Entry)
  BY DEF State, Entry
<1> QED
  BY <1>1, <1>2 DEF State, Reduce

LEMMA DropPendingType ==
  ASSUME NEW pend \in Seq(PendingAction), NEW n \in Nat
  PROVE  DropPending(pend, n) \in Seq(PendingAction)
<1>1. ASSUME NEW i \in DOMAIN pend
      PROVE  RemoveAt(pend, i) \in Seq(PendingAction)
  <2>1. SubSeq(pend, 1, i - 1) \in Seq(PendingAction)
    BY SubSeqProperties
  <2>2. SubSeq(pend, i + 1, Len(pend)) \in Seq(PendingAction)
    BY SubSeqProperties
  <2> QED
    BY <2>1, <2>2 DEF RemoveAt
<1>2. CASE \E i \in DOMAIN pend : pend[i].clientSeq = n
  BY <1>1, <1>2 DEF DropPending
<1> QED
  BY <1>2 DEF DropPending

LEMMA ActionTypes ==
  /\ \A s \in Session : ActionOf("ready", s, NoTurn) \in SessionAction
  /\ \A type \in TurnEnd \cup {"turnStarted"}, s \in Session, t \in Turn :
       ActionOf(type, s, t) \in SessionAction
  /\ \A n \in Nat : ActiveSessionsChanged(n) \in RootAction
BY DEF ActionOf, ActiveSessionsChanged, SessionAction, RootAction

LEMMA InitialStateType == InitialState \in State
BY DEF InitialState, State

LEMMA HeadTail ==
  ASSUME NEW S, NEW q \in Seq(S), q # <<>>
  PROVE  Head(q) \in S /\ Tail(q) \in Seq(S)
OBVIOUS

----------------------------------------------------------------------------
(* Types *)

\* The queues, as one typed function each.
ServerQueues == [Client -> Seq(ToServer)]
ClientQueues == [Client -> Seq(ToClient)]

LEMMA DeliverType ==
  ASSUME NEW q \in ClientQueues, NEW env \in Envelope
  PROVE  Deliver(q, env) \in ClientQueues
<1>1. [kind |-> "action", envelope |-> env] \in ToClient
  BY DEF ToClient
<1> QED
  BY <1>1 DEF Deliver, ClientQueues

LEMMA EmitType ==
  ASSUME TypeOK, NEW q \in ClientQueues, NEW a \in SessionAction, NEW origin \in Origin,
         Emit(q, a, origin)
  PROVE  /\ serverSeq' \in Nat
         /\ state' \in [Resource -> State]
         /\ activeTurnToSession' \subseteq Turn
         /\ s2c' \in ClientQueues
<1>1. a \in Action /\ a.resource \in Resource
  BY DEF Action, SessionAction, Resource
<1>2. serverSeq \in Nat /\ state \in [Resource -> State]
  BY DEF TypeOK
<1>3. NoOrigin \in Origin /\ Root \in Resource
  BY DEF Origin, Resource
<1>4. CASE EmitTracked(q, a, origin)
  <2> DEFINE turns   == IF a.type = "turnStarted"
                        THEN activeTurnToSession \cup {a.turn}
                        ELSE activeTurnToSession \ {a.turn}
             counted == ActiveSessionsChanged(Cardinality(turns))
             rootEnv == [action |-> counted, serverSeq |-> serverSeq + 1, origin |-> NoOrigin]
             env     == [action |-> a, serverSeq |-> serverSeq + 2, origin |-> origin]
  <2>1. turns \subseteq Turn
    BY <1>4 DEF TypeOK, SessionAction, TurnEnd, EmitTracked, Emit
  <2>2. Cardinality(turns) \in Nat
    BY <2>1, FiniteTurns, FS_Subset, FS_CardinalityType
  <2>3. counted \in Action
    BY <2>2, ActionTypes DEF Action
  <2>4. rootEnv \in Envelope /\ env \in Envelope
    BY <1>1, <1>2, <1>3, <2>3 DEF Envelope
  <2>5. Deliver(Deliver(q, rootEnv), env) \in ClientQueues
    <3>1. Deliver(q, rootEnv) \in ClientQueues
      BY <2>4, DeliverType
    <3> QED
      BY <2>4, <3>1, DeliverType
  <2>6. \A st \in State : Reduce(st, a, serverSeq + 2) \in State
    BY <1>1, <1>2, ReduceType
  <2>7. \A st \in State : Reduce(st, counted, serverSeq + 1) \in State
    BY <1>2, <2>3, ReduceType
  <2>8. state' = [state EXCEPT ![a.resource] = Reduce(@, a, serverSeq + 2),
                               ![Root] = Reduce(@, counted, serverSeq + 1)]
    BY <1>4 DEF EmitTracked
  <2>9. state' \in [Resource -> State]
    <3> HIDE DEF counted
    <3> QED
      BY <1>1, <1>2, <1>3, <2>6, <2>7, <2>8
  <2>10. /\ activeTurnToSession' = turns
         /\ serverSeq' = serverSeq + 2
         /\ s2c' = Deliver(Deliver(q, rootEnv), env)
    BY <1>4 DEF EmitTracked
  <2> QED
    BY <1>2, <2>1, <2>5, <2>9, <2>10
<1>5. CASE EmitUntracked(q, a, origin)
  <2> DEFINE env == [action |-> a, serverSeq |-> serverSeq + 1, origin |-> origin]
  <2>1. env \in Envelope
    BY <1>1, <1>2 DEF Envelope
  <2>2. s2c' = Deliver(q, env) /\ serverSeq' = serverSeq + 1
        /\ activeTurnToSession' = activeTurnToSession
    BY <1>5 DEF EmitUntracked
  <2>3. Deliver(q, env) \in ClientQueues
    BY <2>1, DeliverType
  <2>4. \A st \in State : Reduce(st, a, serverSeq + 1) \in State
    BY <1>1, <1>2, ReduceType
  <2>5. state' \in [Resource -> State]
    BY <1>1, <1>2, <1>5, <2>4 DEF EmitUntracked
  <2> QED
    BY <1>2, <2>2, <2>3, <2>5 DEF TypeOK
<1> QED
  BY <1>4, <1>5 DEF Emit

\* What a message at the head of a connection's queue is.
LEMMA HeadOfC2S ==
  ASSUME TypeOK, NEW c \in Client, NEW kind, Handling(c, kind)
  PROVE  /\ Head(c2s[c]) \in ToServer
         /\ c2s' \in ServerQueues
BY DEF TypeOK, Handling, ServerQueues

LEMMA HeadOfS2C ==
  ASSUME TypeOK, NEW c \in Client, NEW kind, Receiving(c, kind)
  PROVE  /\ Head(s2c[c]) \in ToClient
         /\ s2c' \in ClientQueues
BY DEF TypeOK, Receiving, ClientQueues

LEMMA ReplyType ==
  ASSUME TypeOK, NEW c \in Client, NEW m \in ToClient, Reply(c, m)
  PROVE  s2c' \in ClientQueues
BY DEF TypeOK, Reply, ClientQueues

LEMMA SendType ==
  ASSUME TypeOK, NEW c \in Client, NEW msgs \in Seq(ToServer), Send(c, msgs)
  PROVE  c2s' \in ServerQueues
BY DEF TypeOK, Send, ServerQueues

LEMMA DispatchType ==
  ASSUME TypeOK, NEW h \in Handler, NEW a \in SessionAction, Dispatch(h, a)
  PROVE  /\ pending' \in [Handler -> [Session -> Seq(PendingAction)]]
         /\ nextClientSeq' \in [Handler -> Nat]
         /\ c2s' \in ServerQueues
<1>1. nextClientSeq[h] \in Nat /\ a.resource \in Session
  BY DEF TypeOK, SessionAction
<1>2. [clientSeq |-> nextClientSeq[h], action |-> a] \in PendingAction
  BY <1>1 DEF PendingAction
<1>3. [kind |-> "dispatchAction", action |-> a, clientSeq |-> nextClientSeq[h]] \in ToServer
  BY <1>1 DEF ToServer
<1>4. c2s' \in ServerQueues
  <2> DEFINE msg == [kind |-> "dispatchAction", action |-> a, clientSeq |-> nextClientSeq[h]]
  <2>1. <<msg>> \in Seq(ToServer) /\ ClientOf[h] \in Client
    BY <1>3
  <2> QED
    BY <2>1, SendType DEF Dispatch
<1>5. pending' \in [Handler -> [Session -> Seq(PendingAction)]]
  BY <1>1, <1>2 DEF TypeOK, Dispatch
<1> QED
  BY <1>1, <1>4, <1>5 DEF TypeOK, Dispatch

LEMMA ReceiveEnvelopeType ==
  ASSUME TypeOK, NEW h \in Handler, NEW env \in Envelope
  PROVE  /\ ConfirmedAfter(h, env) \in [Resource -> State]
         /\ PendingAfter(h, env) \in [Session -> Seq(PendingAction)]
         /\ RunningAfter(h, env) \in [Session -> Turn \cup {NoTurn}]
<1>1. env.action \in Action /\ env.serverSeq \in Nat /\ env.origin \in Origin
  BY DEF Envelope
<1>2. ConfirmedAfter(h, env) \in [Resource -> State]
  <2>1. \A st \in State : Reduce(st, env.action, env.serverSeq) \in State
    BY <1>1, ReduceType
  <2>2. confirmed[h] \in [Resource -> State]
    BY DEF TypeOK
  <2> QED
    BY <2>1, <2>2 DEF ConfirmedAfter
<1>3. PendingAfter(h, env) \in [Session -> Seq(PendingAction)]
  <2>1. pending[h] \in [Session -> Seq(PendingAction)]
    BY DEF TypeOK
  <2>2. CASE env.origin # NoOrigin
    <3>1. env.origin.clientSeq \in Nat
      BY <1>1, <2>2 DEF Origin
    <3>2. \A s \in Session : DropPending(pending[h][s], env.origin.clientSeq) \in Seq(PendingAction)
      BY <2>1, <3>1, DropPendingType
    <3> QED
      BY <2>1, <3>2 DEF PendingAfter
  <2> QED
    BY <2>1, <2>2 DEF PendingAfter
<1>4. RunningAfter(h, env) \in [Session -> Turn \cup {NoTurn}]
  BY DEF RunningAfter, Awaited, TypeOK
<1> QED
  BY <1>2, <1>3, <1>4

LEMMA TypeStep == TypeOK /\ [Next]_vars => TypeOK'
<1> SUFFICES ASSUME TypeOK, [Next]_vars
             PROVE  TypeOK'
  OBVIOUS
<1>1. ASSUME NEW c \in Client, HandleInitialize(c)
      PROVE  TypeOK'
  <2>1. [kind |-> "initialized"] \in ToClient
    BY DEF ToClient
  <2>2. c2s' \in ServerQueues
    BY <1>1, HeadOfC2S DEF HandleInitialize
  <2>3. s2c' \in ClientQueues
    BY <1>1, <2>1, ReplyType DEF HandleInitialize
  <2> QED
    BY <1>1, <2>2, <2>3 DEF TypeOK, HandleInitialize, server, sync, chat, ServerQueues, ClientQueues
<1>2. ASSUME NEW c \in Client, HandleSubscribe(c)
      PROVE  TypeOK'
  <2> DEFINE m == Head(c2s[c])
  <2>1. c2s' \in ServerQueues /\ m \in ToServer /\ m.kind = "subscribe"
    BY <1>2, HeadOfC2S DEF HandleSubscribe, Handling
  <2>2. m.resource \in Resource /\ m.handler \in Handler
    BY <2>1 DEF ToServer
  <2>3. s2c' \in ClientQueues
    <3>1. [kind |-> "snapshot", resource |-> m.resource, handler |-> m.handler,
           state |-> state[m.resource], fromSeq |-> serverSeq] \in ToClient
      BY <2>2 DEF ToClient, TypeOK
    <3>2. [kind |-> "notFound", resource |-> m.resource, handler |-> m.handler] \in ToClient
      BY <2>2 DEF ToClient
    <3> HIDE DEF m
    <3> QED
      BY <1>2, <3>1, <3>2, ReplyType DEF HandleSubscribe, m
  <2>4. subscriptions' \in [Client -> SUBSET Resource]
    <3>1. subscriptions \in [Client -> SUBSET Resource]
      BY DEF TypeOK
    <3>2. \/ subscriptions' = subscriptions
          \/ subscriptions' = [subscriptions EXCEPT ![c] = @ \cup {m.resource}]
      BY <1>2 DEF HandleSubscribe
    <3> HIDE DEF m
    <3> QED
      BY <2>2, <3>1, <3>2
  <2> QED
    BY <1>2, <2>1, <2>3, <2>4 DEF TypeOK, HandleSubscribe, server, sync, chat, ServerQueues, ClientQueues
<1>3. ASSUME NEW c \in Client, HandleUnsubscribe(c)
      PROVE  TypeOK'
  <2>1. c2s' \in ServerQueues
    BY <1>3, HeadOfC2S DEF HandleUnsubscribe
  <2>2. subscriptions' \in [Client -> SUBSET Resource]
    BY <1>3 DEF HandleUnsubscribe, TypeOK
  <2> QED
    BY <1>3, <2>1, <2>2 DEF TypeOK, HandleUnsubscribe, server, sync, chat, ServerQueues
<1>4. ASSUME NEW c \in Client, HandleDispatchAction(c)
      PROVE  TypeOK'
  <2> DEFINE m == Head(c2s[c])
  <2>1. c2s' \in ServerQueues /\ m \in ToServer /\ m.kind = "dispatchAction"
    BY <1>4, HeadOfC2S DEF HandleDispatchAction, Handling
  <2>2. m.action \in SessionAction /\ m.clientSeq \in Nat
    BY <2>1 DEF ToServer
  <2>3. [client |-> c, clientSeq |-> m.clientSeq] \in Origin
    BY <2>2 DEF Origin
  <2>4. s2c \in ClientQueues
    BY DEF TypeOK, ClientQueues
  <2>5. Emit(s2c, m.action, [client |-> c, clientSeq |-> m.clientSeq])
    BY <1>4 DEF HandleDispatchAction
  <2>6. /\ serverSeq' \in Nat
        /\ state' \in [Resource -> State]
        /\ activeTurnToSession' \subseteq Turn
        /\ s2c' \in ClientQueues
    BY <2>2, <2>3, <2>4, <2>5, EmitType
  <2> QED
    BY <1>4, <2>1, <2>6 DEF TypeOK, HandleDispatchAction, handler, sync, chat, ServerQueues, ClientQueues
<1>5. ASSUME NEW c \in Client, HandleCreateSession(c)
      PROVE  TypeOK'
  <2>1. c2s' \in ServerQueues /\ Head(c2s[c]) \in ToServer /\ Head(c2s[c]).kind = "createSession"
    BY <1>5, HeadOfC2S DEF HandleCreateSession, Handling
  <2>2. Head(c2s[c]).resource \in Session /\ Head(c2s[c]).handler \in Handler
    BY <2>1 DEF ToServer
  <2>3. creating' \subseteq [client : Client, resource : Session, handler : Handler]
    BY <1>5, <2>2 DEF HandleCreateSession, TypeOK
  <2> QED
    BY <1>5, <2>1, <2>3 DEF TypeOK, HandleCreateSession, server, sync, chat, ServerQueues
<1>6. ASSUME NEW c \in Client, HandleDisposeSession(c)
      PROVE  TypeOK'
  <2>1. c2s' \in ServerQueues /\ Head(c2s[c]) \in ToServer /\ Head(c2s[c]).kind = "disposeSession"
    BY <1>6, HeadOfC2S DEF HandleDisposeSession, Handling
  <2>2. Head(c2s[c]).resource \in Session
    BY <2>1 DEF ToServer
  <2>3. /\ state' \in [Resource -> State]
        /\ phase' \in [Session -> {"none", "live", "removed"}]
        /\ activeTurnToSession' \subseteq Turn
    <3>1. state \in [Resource -> State] /\ InitialState \in State
      BY InitialStateType DEF TypeOK
    <3>2. state' \in [Resource -> State]
      BY <1>6, <3>1 DEF HandleDisposeSession
    <3> QED
      BY <1>6, <2>2, <3>2 DEF TypeOK, HandleDisposeSession
  <2> QED
    BY <1>6, <2>1, <2>3 DEF TypeOK, HandleDisposeSession, handler, sync, chat, ServerQueues
<1>7. ASSUME NEW p \in creating, SessionCreated(p)
      PROVE  TypeOK'
  <2> DEFINE ready == ActionOf("ready", p.resource, NoTurn)
             env   == [action |-> ready, serverSeq |-> serverSeq + 1, origin |-> NoOrigin]
             made  == [kind |-> "created", resource |-> p.resource, handler |-> p.handler]
  <2>1. p.client \in Client /\ p.resource \in Session /\ p.handler \in Handler
    BY DEF TypeOK
  <2>2. ready \in Action /\ serverSeq + 1 \in Nat
    BY <2>1, ActionTypes DEF Action, TypeOK
  <2>3. env \in Envelope
    BY <2>2 DEF Envelope, Origin
  <2>4. Deliver(s2c, env) \in ClientQueues
    BY <2>3, DeliverType DEF TypeOK, ClientQueues
  <2>5. made \in ToClient
    BY <2>1 DEF ToClient
  <2>6. s2c' \in ClientQueues
    <3>1. s2c' = Answer(Deliver(s2c, env), p, "created")
      BY <1>7 DEF SessionCreated
    <3> HIDE DEF env
    <3> QED
      BY <2>1, <2>4, <2>5, <3>1 DEF Answer, ClientQueues
  <2>7. Reduce(InitialState, ready, serverSeq + 1) \in State
    BY <2>2, InitialStateType, ReduceType
  <2>8. state' \in [Resource -> State]
    BY <1>7, <2>1, <2>7 DEF SessionCreated, TypeOK
  <2>9. /\ creating' \subseteq [client : Client, resource : Session, handler : Handler]
        /\ phase' \in [Session -> {"none", "live", "removed"}]
        /\ serverSeq' \in Nat
    BY <1>7, <2>1, <2>2 DEF SessionCreated, TypeOK
  <2> QED
    BY <1>7, <2>6, <2>8, <2>9 DEF TypeOK, SessionCreated, sync, chat, ClientQueues
<1>8. ASSUME NEW p \in creating, SessionCreationFails(p)
      PROVE  TypeOK'
  <2>1. p.client \in Client /\ p.resource \in Session /\ p.handler \in Handler
    BY DEF TypeOK
  <2>2. [kind |-> "createFailed", resource |-> p.resource, handler |-> p.handler] \in ToClient
    BY <2>1 DEF ToClient
  <2>3. s2c' \in ClientQueues
    BY <1>8, <2>1, <2>2 DEF SessionCreationFails, Answer, TypeOK, ClientQueues
  <2> QED
    BY <1>8, <2>3 DEF TypeOK, SessionCreationFails, server, sync, chat, ClientQueues
<1>9. ASSUME NEW s \in Session, AgentIdle(s)
      PROVE  TypeOK'
  <2> DEFINE a == ActionOf("turnComplete", s, state[s].activeTurn)
  <2>1. state[s].activeTurn \in Turn
    BY <1>9 DEF AgentIdle, TypeOK, State, Resource
  <2>2. a \in SessionAction
    BY <2>1, ActionTypes DEF TurnEnd
  <2>3. s2c \in ClientQueues /\ NoOrigin \in Origin /\ Emit(s2c, a, NoOrigin)
    BY <1>9 DEF TypeOK, ClientQueues, Origin, AgentIdle
  <2>4. /\ serverSeq' \in Nat
        /\ state' \in [Resource -> State]
        /\ activeTurnToSession' \subseteq Turn
        /\ s2c' \in ClientQueues
    BY <2>2, <2>3, EmitType
  <2> QED
    BY <1>9, <2>4 DEF TypeOK, AgentIdle, handler, sync, chat, ClientQueues
<1>10. ASSUME NEW c \in Client, HandleClose(c)
       PROVE  TypeOK'
  BY <1>10 DEF TypeOK, HandleClose, server, sync, chat
<1>11. ASSUME NEW c \in Client, Connect(c)
       PROVE  TypeOK'
  <2>1. <<[kind |-> "initialize"]>> \in Seq(ToServer)
    BY DEF ToServer
  <2>2. c2s' \in ServerQueues
    BY <1>11, <2>1, SendType DEF Connect
  <2> QED
    BY <1>11, <2>2 DEF TypeOK, Connect, server, handler, sync, chat, ServerQueues
<1>12. ASSUME NEW c \in Client, Initialized(c)
       PROVE  TypeOK'
  <2>1. s2c' \in ClientQueues
    BY <1>12, HeadOfS2C DEF Initialized
  <2> QED
    BY <1>12, <2>1 DEF TypeOK, Initialized, server, handler, sync, chat, ClientQueues
<1>13. ASSUME NEW c \in Client, Disconnect(c)
       PROVE  TypeOK'
  BY <1>13 DEF TypeOK, Disconnect, server, handler, sync, chat
<1>14. ASSUME NEW h \in Handler, NEW r \in Resource, OpenExisting(h, r)
       PROVE  TypeOK'
  <2>1. <<[kind |-> "subscribe", resource |-> r, handler |-> h]>> \in Seq(ToServer)
    BY DEF ToServer
  <2>2. c2s' \in ServerQueues
    BY <1>14, <2>1, SendType DEF OpenExisting
  <2> QED
    BY <1>14, <2>2 DEF TypeOK, OpenExisting, SetView, server, handler, sync, ServerQueues
<1>15. ASSUME NEW h \in Handler, NEW s \in Session, CreateSession(h, s)
       PROVE  TypeOK'
  <2>1. <<[kind |-> "createSession", resource |-> s, handler |-> h]>> \in Seq(ToServer)
    BY DEF ToServer
  <2>2. c2s' \in ServerQueues
    BY <1>15, <2>1, SendType DEF CreateSession
  <2> QED
    BY <1>15, <2>2 DEF TypeOK, CreateSession, SetView, server, handler, sync, ServerQueues
<1>16. ASSUME NEW c \in Client, SessionCreateReturns(c)
       PROVE  TypeOK'
  <2> DEFINE m == Head(s2c[c])
  <2>1. s2c' \in ClientQueues /\ m \in ToClient /\ m.kind = "created"
    BY <1>16, HeadOfS2C DEF SessionCreateReturns, Receiving
  <2>2. m.resource \in Resource /\ m.handler \in Handler
    BY <2>1 DEF ToClient, Resource
  <2>3. <<[kind |-> "subscribe", resource |-> m.resource, handler |-> m.handler]>> \in Seq(ToServer)
    BY <2>2 DEF ToServer
  <2>4. c2s' \in ServerQueues
    BY <1>16, <2>3, SendType DEF SessionCreateReturns
  <2>5. view' \in [Handler -> [Resource -> {"none", "creating", "subscribing", "open"}]]
    BY <1>16, <2>2 DEF TypeOK, SessionCreateReturns, SetView
  <2> QED
    BY <1>16, <2>1, <2>4, <2>5
    DEF TypeOK, SessionCreateReturns, server, handler, sync, ServerQueues, ClientQueues
<1>17. ASSUME NEW c \in Client, SessionCreateThrows(c)
       PROVE  TypeOK'
  <2>1. s2c' \in ClientQueues
    BY <1>17, HeadOfS2C DEF SessionCreateThrows
  <2> QED
    BY <1>17, <2>1 DEF TypeOK, SessionCreateThrows, SetView, server, handler, sync, ClientQueues
<1>18. ASSUME NEW c \in Client, HandleSnapshot(c)
       PROVE  TypeOK'
  <2> DEFINE m == Head(s2c[c])
  <2>1. s2c' \in ClientQueues /\ m \in ToClient /\ m.kind = "snapshot"
    BY <1>18, HeadOfS2C DEF HandleSnapshot, Receiving
  <2>2. /\ m.resource \in Resource /\ m.handler \in Handler
        /\ m.state \in State /\ m.fromSeq \in Nat
    BY <2>1 DEF ToClient
  <2>3. lastSeenServerSeq' \in [Handler -> Nat]
    <3>1. Max({lastSeenServerSeq[m.handler], m.fromSeq}) \in Nat
      BY <2>2, MaxOfTwo DEF TypeOK
    <3> QED
      BY <1>18, <2>2, <3>1 DEF TypeOK, HandleSnapshot
  <2>4. /\ subscribedSessions' \in [Handler -> SUBSET Resource]
        /\ confirmed' \in [Handler -> [Resource -> State]]
        /\ view' \in [Handler -> [Resource -> {"none", "creating", "subscribing", "open"}]]
    BY <1>18, <2>2 DEF TypeOK, HandleSnapshot, SetView
  <2>5. running' \in [Handler -> [Session -> Turn \cup {NoTurn}]]
    <3>1. running \in [Handler -> [Session -> Turn \cup {NoTurn}]]
      BY DEF TypeOK
    <3>2. PICK h \in Handler, r \in Resource : h = m.handler /\ r = m.resource
      BY <2>2
    <3>3. CASE running' = running
      BY <3>1, <3>3
    <3>4. CASE r \in Session /\ running' = [running EXCEPT ![h][r] = Awaited(h, r, optimistic'[h][r])]
      <4>1. running[h][r] \in Turn \cup {NoTurn} /\ running[h] \in [Session -> Turn \cup {NoTurn}]
        BY <3>1, <3>4
      <4>2. PICK t \in Turn \cup {NoTurn} : t = Awaited(h, r, optimistic'[h][r])
        BY <4>1 DEF Awaited
      <4>3. [running[h] EXCEPT ![r] = t] \in [Session -> Turn \cup {NoTurn}]
        BY <4>1
      <4> QED
        BY <3>1, <3>4, <4>2, <4>3
    <3> QED
      BY <1>18, <3>2, <3>3, <3>4 DEF HandleSnapshot, Resource
  <2> QED
    BY <1>18, <2>1, <2>3, <2>4, <2>5 DEF TypeOK, HandleSnapshot, server, handler, ClientQueues
<1>19. ASSUME NEW c \in Client, SubscribeFails(c)
       PROVE  TypeOK'
  <2>1. s2c' \in ClientQueues
    BY <1>19, HeadOfS2C DEF SubscribeFails
  <2> QED
    BY <1>19, <2>1 DEF TypeOK, SubscribeFails, SetView, server, handler, sync, ClientQueues
<1>20. ASSUME NEW h \in Handler, NEW s \in Session, CloseSession(h, s)
       PROVE  TypeOK'
  <2>1. <<[kind |-> "unsubscribe", resource |-> s],
          [kind |-> "disposeSession", resource |-> s]>> \in Seq(ToServer)
    BY DEF ToServer
  <2>2. c2s' \in ServerQueues
    BY <1>20, <2>1, SendType DEF CloseSession
  <2>3. /\ confirmed' \in [Handler -> [Resource -> State]]
        /\ subscribedSessions' \in [Handler -> SUBSET Resource]
        /\ view' \in [Handler -> [Resource -> {"none", "creating", "subscribing", "open"}]]
    BY <1>20, InitialStateType DEF TypeOK, CloseSession, SetView, Resource
  <2>4. pending' \in [Handler -> [Session -> Seq(PendingAction)]]
    BY <1>20 DEF TypeOK, CloseSession
  <2> QED
    BY <1>20, <2>2, <2>3, <2>4 DEF TypeOK, CloseSession, server, handler, ServerQueues
<1>21. ASSUME NEW h \in Handler, NEW s \in Session, NEW t \in Turn, StartTurn(h, s, t)
       PROVE  TypeOK'
  <2>1. ActionOf("turnStarted", s, t) \in SessionAction
    BY ActionTypes
  <2>2. /\ pending' \in [Handler -> [Session -> Seq(PendingAction)]]
        /\ nextClientSeq' \in [Handler -> Nat]
        /\ c2s' \in ServerQueues
    BY <1>21, <2>1, DispatchType DEF StartTurn
  <2> QED
    BY <1>21, <2>2 DEF TypeOK, StartTurn, server, handler, ServerQueues
<1>22. ASSUME NEW h \in Handler, NEW s \in Session, CancelTurn(h, s)
       PROVE  TypeOK'
  <2>1. running[h][s] \in Turn
    BY <1>22 DEF TypeOK, CancelTurn
  <2>2. ActionOf("turnCancelled", s, running[h][s]) \in SessionAction
    BY <2>1, ActionTypes DEF TurnEnd
  <2>3. /\ pending' \in [Handler -> [Session -> Seq(PendingAction)]]
        /\ nextClientSeq' \in [Handler -> Nat]
        /\ c2s' \in ServerQueues
    BY <1>22, <2>2, DispatchType DEF CancelTurn
  <2> QED
    BY <1>22, <2>3 DEF TypeOK, CancelTurn, server, handler, ServerQueues
<1>23. ASSUME NEW c \in Client, ReceiveEnvelope(c)
       PROVE  TypeOK'
  <2> DEFINE env == Head(s2c[c]).envelope
  <2>1. s2c' \in ClientQueues /\ env \in Envelope
    BY <1>23, HeadOfS2C DEF ReceiveEnvelope, Receiving, ToClient
  <2>2. /\ confirmed' \in [Handler -> [Resource -> State]]
        /\ pending' \in [Handler -> [Session -> Seq(PendingAction)]]
        /\ running' \in [Handler -> [Session -> Turn \cup {NoTurn}]]
    <3> DEFINE On(f, after) == [h \in Handler |-> IF ClientOf[h] = c THEN after[h] ELSE f[h]]
    <3>1. /\ confirmed' = On(confirmed, [h \in Handler |-> ConfirmedAfter(h, env)])
          /\ pending' = On(pending, [h \in Handler |-> PendingAfter(h, env)])
          /\ running' = On(running, [h \in Handler |-> RunningAfter(h, env)])
      BY <1>23 DEF ReceiveEnvelope
    <3>2. \A h \in Handler :
            /\ ConfirmedAfter(h, env) \in [Resource -> State]
            /\ PendingAfter(h, env) \in [Session -> Seq(PendingAction)]
            /\ RunningAfter(h, env) \in [Session -> Turn \cup {NoTurn}]
      BY <2>1, ReceiveEnvelopeType
    <3>3. \A S, f, after :
            f \in [Handler -> S] /\ (\A h \in Handler : after[h] \in S)
              => On(f, after) \in [Handler -> S]
      OBVIOUS
    <3> HIDE DEF env, On
    <3>4. confirmed' \in [Handler -> [Resource -> State]]
      BY <3>1, <3>2, <3>3 DEF TypeOK
    <3>5. pending' \in [Handler -> [Session -> Seq(PendingAction)]]
      BY <3>1, <3>2, <3>3 DEF TypeOK
    <3>6. running' \in [Handler -> [Session -> Turn \cup {NoTurn}]]
      BY <3>1, <3>2, <3>3 DEF TypeOK
    <3> QED
      BY <3>4, <3>5, <3>6
  <2>3. lastSeenServerSeq' \in [Handler -> Nat]
    <3>1. env.serverSeq \in Nat
      BY <2>1 DEF Envelope
    <3>2. \A h \in Handler : Max({lastSeenServerSeq[h], env.serverSeq}) \in Nat
      BY <3>1, MaxOfTwo DEF TypeOK
    <3> QED
      BY <1>23, <3>2 DEF TypeOK, ReceiveEnvelope
  <2> QED
    BY <1>23, <2>1, <2>2, <2>3 DEF TypeOK, ReceiveEnvelope, server, handler, ClientQueues
<1>24. CASE UNCHANGED vars
  BY <1>24 DEF TypeOK, vars, server, handler, net, sync, chat
<1> QED
  BY <1>1, <1>2, <1>3, <1>4, <1>5, <1>6, <1>7, <1>8, <1>9, <1>10, <1>11, <1>12, <1>13,
     <1>14, <1>15, <1>16, <1>17, <1>18, <1>19, <1>20, <1>21, <1>22, <1>23, <1>24
  DEF Next, HandleMessage, ReceiveMessage

\* Every variable keeps its type, for any clients, handlers, sessions and turns.
THEOREM TypeCorrect == Spec => []TypeOK
<1>1. Init => TypeOK
  BY InitialStateType DEF Init, TypeOK
<1> QED
  BY <1>1, TypeStep, PTL DEF Spec

----------------------------------------------------------------------------
(***************************************************************************)
(* The server never loses track of an active turn: ActiveTurnIsTracked for *)
(* any number of clients, handlers, sessions and turns.                    *)
(*                                                                         *)
(* It is not inductive: an end of turn t on one session removes t from the *)
(* tracked turns, which is harmless only because t is active in no other   *)
(* session.  The strengthening says that a turn id belongs to one session, *)
(* wherever it is: active at the server, awaited by a chat request, or in a*)
(* message on its way to the server.                                       *)
(***************************************************************************)
USE NoTurnAssumption

IsSent(m) == \E c \in Client : \E i \in DOMAIN c2s[c] : c2s[c][i] = m

Requested(s, t) ==
  \E m \in ToServer :
    IsSent(m) /\ m.kind = "dispatchAction" /\ m.action.resource = s /\ m.action.turn = t

\* The places where turn t of session s is known.
Mentions(s, t) ==
  \/ state[s].activeTurn = t
  \/ \E h \in Handler : running[h][s] = t
  \/ Requested(s, t)

OneSessionPerTurn ==
  \A t \in Turn, s1, s2 \in Session : Mentions(s1, t) /\ Mentions(s2, t) => s1 = s2

MentionedTurnsAreUsed ==
  \A t \in Turn, s \in Session : Mentions(s, t) => t \in usedTurns

TurnInv == OneSessionPerTurn /\ MentionedTurnsAreUsed /\ ActiveTurnIsTracked

----------------------------------------------------------------------------
(* What a step does to the queues to the server *)

LEMMA HandlingSent ==
  ASSUME TypeOK, NEW c \in Client, NEW kind, Handling(c, kind), NEW m, IsSent(m)'
  PROVE  IsSent(m)
<1>1. c2s \in [Client -> Seq(ToServer)]
  BY DEF TypeOK
<1>2. PICK d \in Client : \E i \in DOMAIN c2s'[d] : c2s'[d][i] = m
  BY DEF IsSent
<1> PICK i \in DOMAIN c2s'[d] : c2s'[d][i] = m
  BY <1>2
<1>3. c2s' = [c2s EXCEPT ![c] = Tail(@)] /\ c2s[c] # <<>>
  BY DEF Handling
<1>4. CASE d = c
  <2>1. c2s'[d] = Tail(c2s[c]) /\ c2s[c] \in Seq(ToServer)
    BY <1>1, <1>3, <1>4
  <2>2. i + 1 \in DOMAIN c2s[c] /\ c2s[c][i + 1] = m
    <3>1. /\ Len(Tail(c2s[c])) = Len(c2s[c]) - 1
          /\ \A j \in 1 .. Len(Tail(c2s[c])) : Tail(c2s[c])[j] = c2s[c][j + 1]
      BY <1>3, <2>1, HeadTailProperties
    <3>2. i \in 1 .. Len(Tail(c2s[c])) /\ Tail(c2s[c])[i] = m
      BY <2>1
    <3> QED
      BY <2>1, <3>1, <3>2
  <2> QED
    BY <2>2 DEF IsSent
<1>5. CASE d # c
  BY <1>1, <1>2, <1>3, <1>5 DEF IsSent
<1> QED
  BY <1>4, <1>5

LEMMA SendSent ==
  ASSUME TypeOK, NEW c \in Client, NEW msgs \in Seq(ToServer), Send(c, msgs), NEW m, IsSent(m)'
  PROVE  IsSent(m) \/ \E i \in DOMAIN msgs : msgs[i] = m
<1>1. c2s \in [Client -> Seq(ToServer)]
  BY DEF TypeOK
<1>2. PICK d \in Client : \E i \in DOMAIN c2s'[d] : c2s'[d][i] = m
  BY DEF IsSent
<1> PICK i \in DOMAIN c2s'[d] : c2s'[d][i] = m
  BY <1>2
<1>3. c2s' = [c2s EXCEPT ![c] = @ \o msgs]
  BY DEF Send
<1>4. CASE d = c
  <2>1. c2s'[d] = c2s[c] \o msgs /\ c2s[c] \in Seq(ToServer)
    BY <1>1, <1>3, <1>4
  <2>2. CASE i \in DOMAIN c2s[c]
    BY <1>2, <2>1, <2>2 DEF IsSent
  <2>3. CASE i \notin DOMAIN c2s[c]
    <3>1. i - Len(c2s[c]) \in DOMAIN msgs /\ msgs[i - Len(c2s[c])] = m
      BY <1>2, <2>1, <2>3
    <3> QED
      BY <3>1
  <2> QED
    BY <2>2, <2>3
<1>5. CASE d # c
  BY <1>1, <1>2, <1>3, <1>5 DEF IsSent
<1> QED
  BY <1>4, <1>5

LEMMA SendOneSent ==
  ASSUME TypeOK, NEW c \in Client, NEW msg \in ToServer, Send(c, <<msg>>)
  PROVE  \A m : IsSent(m)' => IsSent(m) \/ m = msg
<1> TAKE m
<1> HAVE IsSent(m)'
<1>1. <<msg>> \in Seq(ToServer)
  OBVIOUS
<1>2. IsSent(m) \/ \E i \in DOMAIN <<msg>> : <<msg>>[i] = m
  BY <1>1, SendSent
<1> QED
  BY <1>2

LEMMA SendTwoSent ==
  ASSUME TypeOK, NEW c \in Client, NEW msg1 \in ToServer, NEW msg2 \in ToServer,
         Send(c, <<msg1, msg2>>)
  PROVE  \A m : IsSent(m)' => IsSent(m) \/ m = msg1 \/ m = msg2
<1> TAKE m
<1> HAVE IsSent(m)'
<1>1. <<msg1, msg2>> \in Seq(ToServer)
  OBVIOUS
<1>2. IsSent(m) \/ \E i \in DOMAIN <<msg1, msg2>> : <<msg1, msg2>>[i] = m
  BY <1>1, SendSent
<1> QED
  BY <1>2

LEMMA CloseSent ==
  ASSUME TypeOK, NEW c \in Client, c2s' = [c2s EXCEPT ![c] = <<>>], NEW m, IsSent(m)'
  PROVE  IsSent(m)
BY DEF TypeOK, IsSent

LEMMA DispatchSent ==
  ASSUME TypeOK, NEW h \in Handler, NEW a \in SessionAction, Dispatch(h, a),
         NEW s \in Session, NEW t, Requested(s, t)'
  PROVE  Requested(s, t) \/ (a.resource = s /\ a.turn = t)
<1> DEFINE msg == [kind |-> "dispatchAction", action |-> a, clientSeq |-> nextClientSeq[h]]
<1>1. msg \in ToServer /\ ClientOf[h] \in Client
  BY DEF TypeOK, ToServer
<1>2. Send(ClientOf[h], <<msg>>)
  BY DEF Dispatch
<1>3. PICK m \in ToServer :
        IsSent(m)' /\ m.kind = "dispatchAction" /\ m.action.resource = s /\ m.action.turn = t
  BY DEF Requested
<1>4. IsSent(m) \/ m = msg
  <2> HIDE DEF msg
  <2> QED
    BY <1>1, <1>2, <1>3, SendOneSent
<1> QED
  BY <1>3, <1>4 DEF Requested

----------------------------------------------------------------------------
(* Steps after which nothing new is mentioned *)

\* Such a step keeps the two first parts of the invariant.
LEMMA NothingNew ==
  ASSUME OneSessionPerTurn, MentionedTurnsAreUsed, usedTurns' = usedTurns,
         \A s \in Session, t \in Turn : Mentions(s, t)' => Mentions(s, t)
  PROVE  OneSessionPerTurn' /\ MentionedTurnsAreUsed'
BY DEF OneSessionPerTurn, MentionedTurnsAreUsed

\* An emitted session action changes the active turn of its session at most,
\* and keeps the active turns tracked if its turn is known to that session only.
LEMMA EmitTracks ==
  ASSUME TypeOK, ActiveTurnIsTracked, NEW q, NEW a \in SessionAction, NEW origin,
         Emit(q, a, origin),
         \A s \in Session : state[s].activeTurn = a.turn /\ a.turn # NoTurn => s = a.resource
  PROVE  /\ ActiveTurnIsTracked'
         /\ \A s \in Session :
              state'[s].activeTurn \in
                {state[s].activeTurn, NoTurn} \cup (IF s = a.resource THEN {a.turn} ELSE {})
<1>1. a \in Action /\ a.resource \in Session /\ a.resource \in Resource
  BY DEF Action, SessionAction, Resource
<1>2. state \in [Resource -> State] /\ Root \notin Session
  BY DEF TypeOK
<1>3. CASE Live(a.resource) /\ a.type \in TurnEnd \cup {"turnStarted"}
  <2>1. EmitTracked(q, a, origin)
    BY <1>3 DEF Emit
  <2>2. a.turn \in Turn
    BY <1>3 DEF SessionAction, TurnEnd
  <2>3. \A s \in Session : s # a.resource => state'[s] = state[s]
    BY <1>1, <1>2, <2>1 DEF EmitTracked, Resource
  <2>4. state'[a.resource] = Reduce(state[a.resource], a, serverSeq + 2)
    BY <1>1, <1>2, <2>1 DEF EmitTracked
  <2>5. state[a.resource] \in State
    BY <1>1, <1>2
  <2>6. activeTurnToSession' = IF a.type = "turnStarted" THEN activeTurnToSession \cup {a.turn}
                               ELSE activeTurnToSession \ {a.turn}
    BY <2>1 DEF EmitTracked
  <2>7. state'[a.resource].activeTurn = IF a.type = "turnStarted" THEN a.turn
                                        ELSE IF a.turn = state[a.resource].activeTurn THEN NoTurn
                                        ELSE state[a.resource].activeTurn
    BY <1>3, <2>4 DEF Reduce, TurnEnd
  <2>8. ASSUME NEW s \in Session, state'[s].activeTurn # NoTurn
        PROVE  state'[s].activeTurn \in activeTurnToSession'
    <3>1. CASE s = a.resource
      BY <1>3, <2>2, <2>6, <2>7, <2>8, <3>1 DEF ActiveTurnIsTracked, TurnEnd
    <3>2. CASE s # a.resource
      BY <2>2, <2>3, <2>6, <2>8, <3>2 DEF ActiveTurnIsTracked
    <3> QED
      BY <3>1, <3>2
  <2> QED
    BY <2>3, <2>7, <2>8 DEF ActiveTurnIsTracked
<1>4. CASE ~(Live(a.resource) /\ a.type \in TurnEnd \cup {"turnStarted"})
  <2>1. EmitUntracked(q, a, origin)
    BY <1>4 DEF Emit
  <2>2. activeTurnToSession' = activeTurnToSession
    BY <2>1 DEF EmitUntracked
  <2>3. \A s \in Session : state'[s].activeTurn = state[s].activeTurn
    <3>1. CASE Live(a.resource)
      <4>1. state' = [state EXCEPT ![a.resource] = Reduce(@, a, serverSeq + 1)]
        BY <2>1, <3>1 DEF EmitUntracked
      <4>2. Reduce(state[a.resource], a, serverSeq + 1).activeTurn = state[a.resource].activeTurn
        BY <1>4, <3>1 DEF Reduce
      <4> QED
        BY <1>1, <1>2, <4>1, <4>2 DEF Resource
    <3>2. CASE ~Live(a.resource)
      BY <2>1, <3>2 DEF EmitUntracked
    <3> QED
      BY <3>1, <3>2
  <2> QED
    BY <2>2, <2>3 DEF ActiveTurnIsTracked
<1> QED
  BY <1>3, <1>4

----------------------------------------------------------------------------
(* The steps *)

\* A step that leaves the sessions and the chat requests alone, and sends no
\* action.
LEMMA TurnlessStep ==
  ASSUME TurnInv, UNCHANGED <<state, activeTurnToSession, running, usedTurns>>,
         \A m \in ToServer : IsSent(m)' => IsSent(m) \/ m.kind # "dispatchAction"
  PROVE  TurnInv'
<1>1. \A s \in Session, t \in Turn : Mentions(s, t)' => Mentions(s, t)
  BY DEF Mentions, Requested
<1>2. ActiveTurnIsTracked'
  BY DEF TurnInv, ActiveTurnIsTracked
<1> QED
  BY <1>1, <1>2, NothingNew DEF TurnInv

LEMMA TurnStep == TypeOK /\ TurnInv /\ [Next]_vars => TurnInv'
<1> SUFFICES ASSUME TypeOK, TurnInv, [Next]_vars
             PROVE  TurnInv'
  OBVIOUS
<1> USE DEF server, handler, sync, chat
<1>1. ASSUME NEW c \in Client, HandleInitialize(c)
      PROVE  TurnInv'
  BY <1>1, HandlingSent, TurnlessStep DEF HandleInitialize
<1>2. ASSUME NEW c \in Client, HandleSubscribe(c)
      PROVE  TurnInv'
  BY <1>2, HandlingSent, TurnlessStep DEF HandleSubscribe
<1>3. ASSUME NEW c \in Client, HandleUnsubscribe(c)
      PROVE  TurnInv'
  BY <1>3, HandlingSent, TurnlessStep DEF HandleUnsubscribe
<1>4. ASSUME NEW c \in Client, HandleCreateSession(c)
      PROVE  TurnInv'
  BY <1>4, HandlingSent, TurnlessStep DEF HandleCreateSession
<1>5. ASSUME NEW c \in Client, HandleDispatchAction(c)
      PROVE  TurnInv'
  <2> DEFINE m == Head(c2s[c])
             a == m.action
  <2>1. m \in ToServer /\ m.kind = "dispatchAction" /\ IsSent(m)
    <3>1. c2s[c] \in Seq(ToServer) /\ c2s[c] # <<>> /\ m.kind = "dispatchAction"
      BY <1>5 DEF TypeOK, HandleDispatchAction, Handling
    <3> QED
      BY <3>1 DEF IsSent
  <2>2. a \in SessionAction /\ a.resource \in Session
    BY <2>1 DEF ToServer, SessionAction
  <2>3. Requested(a.resource, a.turn)
    BY <2>1 DEF Requested
  <2>4. \A s \in Session : state[s].activeTurn = a.turn /\ a.turn # NoTurn => s = a.resource
    BY <2>2, <2>3 DEF TurnInv, OneSessionPerTurn, Mentions, SessionAction
  <2>5. Emit(s2c, a, [client |-> c, clientSeq |-> m.clientSeq])
    BY <1>5 DEF HandleDispatchAction
  <2>6. /\ ActiveTurnIsTracked'
        /\ \A s \in Session :
             state'[s].activeTurn \in
               {state[s].activeTurn, NoTurn} \cup (IF s = a.resource THEN {a.turn} ELSE {})
    <3> HIDE DEF a
    <3> QED
      BY <2>2, <2>4, <2>5, EmitTracks DEF TurnInv
  <2>7. ASSUME NEW s \in Session, NEW t \in Turn, Mentions(s, t)'
        PROVE  Mentions(s, t)
    <3>1. Requested(s, t)' => Requested(s, t)
      BY <1>5, HandlingSent DEF HandleDispatchAction, Requested
    <3>2. state'[s].activeTurn = t => Mentions(s, t)
      BY <2>3, <2>6, NoTurnAssumption DEF Mentions
    <3> QED
      BY <1>5, <2>7, <3>1, <3>2 DEF Mentions, HandleDispatchAction
  <2> QED
    BY <1>5, <2>6, <2>7, NothingNew DEF TurnInv, HandleDispatchAction
<1>6. ASSUME NEW c \in Client, HandleDisposeSession(c)
      PROVE  TurnInv'
  <2> DEFINE r == Head(c2s[c]).resource
  <2>1. r \in Session
    BY <1>6, HeadOfC2S DEF HandleDisposeSession, Handling, ToServer
  <2>2. /\ \A s \in Session : state'[s].activeTurn = IF s = r /\ phase[r] = "live" THEN NoTurn
                                                   ELSE state[s].activeTurn
        /\ activeTurnToSession' = IF phase[r] = "live"
                                  THEN activeTurnToSession \ {state[r].activeTurn}
                                  ELSE activeTurnToSession
    BY <1>6, <2>1 DEF HandleDisposeSession, TypeOK, Resource, InitialState
  <2>3. ASSUME NEW s \in Session, NEW t \in Turn, Mentions(s, t)'
        PROVE  Mentions(s, t)
    <3>1. Requested(s, t)' => Requested(s, t)
      BY <1>6, HandlingSent DEF HandleDisposeSession, Requested
    <3> QED
      BY <1>6, <2>2, <2>3, <3>1, NoTurnAssumption DEF Mentions, HandleDisposeSession
  <2>4. ActiveTurnIsTracked'
    <3> SUFFICES ASSUME NEW s \in Session, state'[s].activeTurn # NoTurn
                 PROVE  state'[s].activeTurn \in activeTurnToSession'
      BY DEF ActiveTurnIsTracked
    <3>1. state'[s].activeTurn = state[s].activeTurn /\ state[s].activeTurn \in activeTurnToSession
      BY <2>2 DEF TurnInv, ActiveTurnIsTracked
    <3>2. state[s].activeTurn \in Turn
      BY <3>1 DEF TypeOK
    <3>3. phase[r] = "live" => state[s].activeTurn # state[r].activeTurn
      BY <2>1, <2>2, <3>2 DEF TurnInv, OneSessionPerTurn, Mentions
    <3> QED
      BY <2>2, <3>1, <3>3
  <2> QED
    BY <1>6, <2>3, <2>4, NothingNew DEF TurnInv, HandleDisposeSession
<1>7. ASSUME NEW p \in creating, SessionCreated(p)
      PROVE  TurnInv'
  <2>1. p.resource \in Session
    BY DEF TypeOK
  <2>2. \A s \in Session : state'[s].activeTurn = IF s = p.resource THEN NoTurn
                                                ELSE state[s].activeTurn
    BY <1>7, <2>1 DEF SessionCreated, TypeOK, Resource, Reduce, InitialState, ActionOf, TurnEnd
  <2>3. \A s \in Session, t \in Turn : Mentions(s, t)' => Mentions(s, t)
    BY <1>7, <2>2, NoTurnAssumption DEF Mentions, Requested, IsSent, SessionCreated
  <2>4. ActiveTurnIsTracked'
    BY <1>7, <2>2 DEF TurnInv, ActiveTurnIsTracked, SessionCreated
  <2> QED
    BY <1>7, <2>3, <2>4, NothingNew DEF TurnInv, SessionCreated
<1>8. ASSUME NEW p \in creating, SessionCreationFails(p)
      PROVE  TurnInv'
  BY <1>8, TurnlessStep DEF SessionCreationFails, IsSent
<1>9. ASSUME NEW s \in Session, AgentIdle(s)
      PROVE  TurnInv'
  <2> DEFINE a == ActionOf("turnComplete", s, state[s].activeTurn)
  <2>1. state[s].activeTurn \in Turn
    BY <1>9 DEF AgentIdle, TypeOK, State, Resource
  <2>2. a \in SessionAction /\ a.turn = state[s].activeTurn /\ a.resource = s
    BY <2>1, ActionTypes DEF TurnEnd, ActionOf
  <2>3. \A r \in Session : state[r].activeTurn = a.turn /\ a.turn # NoTurn => r = a.resource
    BY <2>1, <2>2 DEF TurnInv, OneSessionPerTurn, Mentions
  <2>4. Emit(s2c, a, NoOrigin)
    BY <1>9 DEF AgentIdle
  <2>5. /\ ActiveTurnIsTracked'
        /\ \A r \in Session :
             state'[r].activeTurn \in
               {state[r].activeTurn, NoTurn} \cup (IF r = a.resource THEN {a.turn} ELSE {})
    <3> HIDE DEF a
    <3> QED
      BY <2>2, <2>3, <2>4, EmitTracks DEF TurnInv
  <2>6. \A r \in Session, t \in Turn : Mentions(r, t)' => Mentions(r, t)
    BY <1>9, <2>2, <2>5, NoTurnAssumption DEF Mentions, Requested, IsSent, AgentIdle
  <2> QED
    BY <1>9, <2>5, <2>6, NothingNew DEF TurnInv, AgentIdle
<1>10. ASSUME NEW c \in Client, HandleClose(c)
       PROVE  TurnInv'
  BY <1>10, CloseSent, TurnlessStep DEF HandleClose
<1>11. ASSUME NEW c \in Client, Connect(c)
       PROVE  TurnInv'
  <2> DEFINE msg == [kind |-> "initialize"]
  <2>1. msg \in ToServer
    BY DEF ToServer
  <2>2. \A m \in ToServer : IsSent(m)' => IsSent(m) \/ m = msg
    <3> HIDE DEF msg
    <3> QED
      BY <1>11, <2>1, SendOneSent DEF Connect, msg
  <2> QED
    BY <1>11, <2>2, TurnlessStep DEF Connect
<1>12. ASSUME NEW c \in Client, Initialized(c)
       PROVE  TurnInv'
  BY <1>12, TurnlessStep DEF Initialized, IsSent
<1>13. ASSUME NEW c \in Client, Disconnect(c)
       PROVE  TurnInv'
  BY <1>13, TurnlessStep DEF Disconnect, IsSent
<1>14. ASSUME NEW h \in Handler, NEW r \in Resource, OpenExisting(h, r)
       PROVE  TurnInv'
  <2> DEFINE msg == [kind |-> "subscribe", resource |-> r, handler |-> h]
  <2>1. msg \in ToServer /\ ClientOf[h] \in Client
    BY DEF ToServer
  <2>2. \A m \in ToServer : IsSent(m)' => IsSent(m) \/ m = msg
    <3> HIDE DEF msg
    <3> QED
      BY <1>14, <2>1, SendOneSent DEF OpenExisting, msg
  <2> QED
    BY <1>14, <2>2, TurnlessStep DEF OpenExisting
<1>15. ASSUME NEW h \in Handler, NEW s \in Session, CreateSession(h, s)
       PROVE  TurnInv'
  <2> DEFINE msg == [kind |-> "createSession", resource |-> s, handler |-> h]
  <2>1. msg \in ToServer /\ ClientOf[h] \in Client
    BY DEF ToServer
  <2>2. \A m \in ToServer : IsSent(m)' => IsSent(m) \/ m = msg
    <3> HIDE DEF msg
    <3> QED
      BY <1>15, <2>1, SendOneSent DEF CreateSession, msg
  <2> QED
    BY <1>15, <2>2, TurnlessStep DEF CreateSession
<1>16. ASSUME NEW c \in Client, SessionCreateReturns(c)
       PROVE  TurnInv'
  <2> DEFINE a   == Head(s2c[c])
             msg == [kind |-> "subscribe", resource |-> a.resource, handler |-> a.handler]
  <2>1. a \in ToClient /\ a.kind = "created"
    BY <1>16, HeadOfS2C DEF SessionCreateReturns, Receiving
  <2>2. msg \in ToServer
    BY <2>1 DEF ToServer, ToClient, Resource
  <2>3. \A m \in ToServer : IsSent(m)' => IsSent(m) \/ m = msg
    <3> HIDE DEF msg
    <3> QED
      BY <1>16, <2>2, SendOneSent DEF SessionCreateReturns, msg
  <2> QED
    BY <1>16, <2>3, TurnlessStep DEF SessionCreateReturns
<1>17. ASSUME NEW c \in Client, SessionCreateThrows(c)
       PROVE  TurnInv'
  BY <1>17, TurnlessStep DEF SessionCreateThrows, IsSent
<1>18. ASSUME NEW c \in Client, HandleSnapshot(c)
       PROVE  TurnInv'
  <2>1. \A h \in Handler, s \in Session : running'[h][s] \in {running[h][s], NoTurn}
    <3>1. running \in [Handler -> [Session -> Turn \cup {NoTurn}]]
      BY DEF TypeOK
    <3>2. PICK g, r, st : \/ running' = running
                         \/ running' = [running EXCEPT ![g][r] = Awaited(g, r, st)]
      BY <1>18 DEF HandleSnapshot
    <3>3. Awaited(g, r, st) \in {running[g][r], NoTurn}
      BY DEF Awaited
    <3> QED
      BY <3>1, <3>2, <3>3
  <2>2. \A s \in Session, t \in Turn : Mentions(s, t)' => Mentions(s, t)
    <3>1. UNCHANGED <<c2s, pending, state>>
      BY <1>18 DEF HandleSnapshot, server
    <3>2. \A h \in Handler, s \in Session, t \in Turn : running'[h][s] = t => running[h][s] = t
      BY <2>1, NoTurnAssumption
    <3> QED
      BY <3>1, <3>2 DEF Mentions, Requested, IsSent
  <2>3. ActiveTurnIsTracked'
    BY <1>18 DEF TurnInv, ActiveTurnIsTracked, HandleSnapshot
  <2> QED
    BY <1>18, <2>2, <2>3, NothingNew DEF TurnInv, HandleSnapshot
<1>19. ASSUME NEW c \in Client, SubscribeFails(c)
       PROVE  TurnInv'
  BY <1>19, TurnlessStep DEF SubscribeFails, IsSent
<1>20. ASSUME NEW h \in Handler, NEW s \in Session, CloseSession(h, s)
       PROVE  TurnInv'
  <2> DEFINE msg1 == [kind |-> "unsubscribe", resource |-> s]
             msg2 == [kind |-> "disposeSession", resource |-> s]
  <2>1. msg1 \in ToServer /\ msg2 \in ToServer /\ ClientOf[h] \in Client
    BY DEF ToServer
  <2>2. \A m \in ToServer : IsSent(m)' => IsSent(m) \/ m = msg1 \/ m = msg2
    <3> HIDE DEF msg1, msg2
    <3> QED
      BY <1>20, <2>1, SendTwoSent DEF CloseSession, msg1, msg2
  <2> QED
    BY <1>20, <2>2, TurnlessStep DEF CloseSession
<1>21. ASSUME NEW h \in Handler, NEW s \in Session, NEW t \in Turn, StartTurn(h, s, t)
       PROVE  TurnInv'
  <2> DEFINE a == ActionOf("turnStarted", s, t)
  <2>1. a \in SessionAction /\ a.resource = s /\ a.turn = t
    BY ActionTypes DEF ActionOf
  <2>2. Dispatch(h, a) /\ t \notin usedTurns /\ usedTurns' = usedTurns \cup {t}
    BY <1>21 DEF StartTurn
  <2>3. ASSUME NEW r \in Session, NEW u \in Turn, Mentions(r, u)'
        PROVE  Mentions(r, u) \/ (r = s /\ u = t)
    <3>1. Requested(r, u)' => Requested(r, u) \/ (r = s /\ u = t)
      <4> HIDE DEF a
      <4> QED
        BY <2>1, <2>2, DispatchSent
    <3>2. (\E k \in Handler : running'[k][r] = u) => Mentions(r, u) \/ (r = s /\ u = t)
      BY <1>21 DEF StartTurn, TypeOK, Mentions
    <3> QED
      BY <1>21, <2>3, <3>1, <3>2 DEF Mentions, StartTurn
  <2>4. OneSessionPerTurn' /\ MentionedTurnsAreUsed'
    BY <2>2, <2>3 DEF TurnInv, OneSessionPerTurn, MentionedTurnsAreUsed
  <2>5. ActiveTurnIsTracked'
    BY <1>21 DEF TurnInv, ActiveTurnIsTracked, StartTurn
  <2> QED
    BY <2>4, <2>5 DEF TurnInv
<1>22. ASSUME NEW h \in Handler, NEW s \in Session, CancelTurn(h, s)
       PROVE  TurnInv'
  <2> DEFINE a == ActionOf("turnCancelled", s, running[h][s])
  <2>1. running[h][s] \in Turn
    BY <1>22 DEF TypeOK, CancelTurn
  <2>2. a \in SessionAction /\ a.resource = s /\ a.turn = running[h][s]
    BY <2>1, ActionTypes DEF ActionOf, TurnEnd
  <2>3. Dispatch(h, a)
    BY <1>22 DEF CancelTurn
  <2>4. ASSUME NEW r \in Session, NEW u \in Turn, Mentions(r, u)'
        PROVE  Mentions(r, u)
    <3>1. Requested(r, u)' => Mentions(r, u)
      <4> HIDE DEF a
      <4> QED
        BY <2>2, <2>3, DispatchSent DEF Mentions
    <3>2. (\E k \in Handler : running'[k][r] = u) => Mentions(r, u)
      BY <1>22, NoTurnAssumption DEF CancelTurn, TypeOK, Mentions
    <3> QED
      BY <1>22, <2>4, <3>1, <3>2 DEF Mentions, CancelTurn
  <2>5. ActiveTurnIsTracked'
    BY <1>22 DEF TurnInv, ActiveTurnIsTracked, CancelTurn
  <2> QED
    BY <1>22, <2>4, <2>5, NothingNew DEF TurnInv, CancelTurn
<1>23. ASSUME NEW c \in Client, ReceiveEnvelope(c)
       PROVE  TurnInv'
  <2>1. \A h \in Handler, s \in Session : running'[h][s] \in {running[h][s], NoTurn}
    BY <1>23 DEF ReceiveEnvelope, RunningAfter, Awaited
  <2>2. \A s \in Session, t \in Turn : Mentions(s, t)' => Mentions(s, t)
    BY <1>23, <2>1, NoTurnAssumption DEF Mentions, Requested, IsSent, ReceiveEnvelope
  <2>3. ActiveTurnIsTracked'
    BY <1>23 DEF TurnInv, ActiveTurnIsTracked, ReceiveEnvelope
  <2> QED
    BY <1>23, <2>2, <2>3, NothingNew DEF TurnInv, ReceiveEnvelope
<1>24. CASE UNCHANGED vars
  BY <1>24, TurnlessStep DEF vars, net, IsSent
<1> QED
  BY <1>1, <1>2, <1>3, <1>4, <1>5, <1>6, <1>7, <1>8, <1>9, <1>10, <1>11, <1>12, <1>13,
     <1>14, <1>15, <1>16, <1>17, <1>18, <1>19, <1>20, <1>21, <1>22, <1>23, <1>24
  DEF Next, HandleMessage, ReceiveMessage

LEMMA TurnInit == Init => TurnInv
<1> SUFFICES ASSUME Init
             PROVE  TurnInv
  OBVIOUS
<1>1. \A s \in Session, t \in Turn : ~Mentions(s, t)
  BY NoTurnAssumption DEF Init, Mentions, Requested, IsSent, InitialState, Resource
<1> QED
  BY <1>1 DEF TurnInv, OneSessionPerTurn, MentionedTurnsAreUsed, ActiveTurnIsTracked,
              Init, InitialState, Resource

\* Whatever ends, is replaced or is removed around it, the active turn of a
\* session is among the turns the server counts (_activeTurnToSession).
THEOREM ActiveTurnsAreTracked == Spec => []ActiveTurnIsTracked
<1>1. TurnInv => ActiveTurnIsTracked
  BY DEF TurnInv
<1> QED
  BY <1>1, TurnInit, TurnStep, TypeCorrect, PTL DEF Spec

----------------------------------------------------------------------------
(***************************************************************************)
(* The life of connections, sessions and subscriptions, for any number of  *)
(* clients, handlers and sessions: who has asked for what, and who is      *)
(* subscribed.  Who copies a live resource over an open connection is      *)
(* subscribed to it, and no disposal of it is under way (HoldersInv).      *)
(***************************************************************************)

(* The questions a handler asks about a resource it opens, and the answers *)
(* to them.                                                                *)
IsAsk(m) == m.kind \in {"createSession", "subscribe"}
IsAnswer(m) == m.kind \in {"created", "createFailed", "snapshot", "notFound"}
About(m, h, r) == m.handler = h /\ m.resource = r

Asked(q, h, r) == \E i \in DOMAIN q : IsAsk(q[i]) /\ About(q[i], h, r)
AskedOnce(q, h, r) ==
  \A i, j \in DOMAIN q :
    IsAsk(q[i]) /\ About(q[i], h, r) /\ IsAsk(q[j]) /\ About(q[j], h, r) => i = j

Answered(q, h, r) == \E i \in DOMAIN q : IsAnswer(q[i]) /\ About(q[i], h, r)
AnsweredOnce(q, h, r) ==
  \A i, j \in DOMAIN q :
    IsAnswer(q[i]) /\ About(q[i], h, r) /\ IsAnswer(q[j]) /\ About(q[j], h, r) => i = j

Creating(h, r) == \E p \in creating : About(p, h, r)

(* A handler has one question about a resource under way at a time: asked, *)
(* taken by the agent, or answered.                                        *)
OneExchange(h, r) ==
  /\ AskedOnce(c2s[ClientOf[h]], h, r) /\ AnsweredOnce(s2c[ClientOf[h]], h, r)
  /\ ~(Asked(c2s[ClientOf[h]], h, r) /\ Creating(h, r))
  /\ ~(Asked(c2s[ClientOf[h]], h, r) /\ Answered(s2c[ClientOf[h]], h, r))
  /\ ~(Creating(h, r) /\ Answered(s2c[ClientOf[h]], h, r))
  /\ Asked(c2s[ClientOf[h]], h, r) \/ Creating(h, r) \/ Answered(s2c[ClientOf[h]], h, r)
       => view[h][r] \in {"creating", "subscribing"}

ExchangeInv == \A h \in Handler, r \in Resource : OneExchange(h, r)

(* What every message says of its connection and of its session.  A        *)
(* session is asked to be created before it exists, and never again.       *)
Addressed(c, m) == ClientOf[m.handler] = c /\ m.resource \in Serves[m.handler]
Handshaking(c) == link[c] \in {"none", "handshake"}
Unborn(r) == r \in Session /\ phase[r] = "none"

UpOK(c, m) ==
  /\ IsAsk(m) => Addressed(c, m)
  /\ m.kind = "createSession" => Unborn(m.resource)
  /\ m.kind = "subscribe" => ~Unborn(m.resource)
  /\ Handshaking(c) => m.kind = "initialize"

DownOK(c, m) ==
  /\ IsAnswer(m) => Addressed(c, m)
  /\ m.kind \in {"created", "snapshot", "notFound"} => ~Unborn(m.resource)
  /\ Handshaking(c) => m.kind = "initialized"

MessagesInv ==
  /\ \A c \in Client : \A i \in DOMAIN c2s[c] : UpOK(c, c2s[c][i])
  /\ \A c \in Client : \A i \in DOMAIN s2c[c] : DownOK(c, s2c[c][i])
  /\ \A p \in creating : Addressed(p.client, p) /\ Unborn(p.resource)

LinkInv ==
  \A c \in Client :
    /\ link[c] = "open" => c \in clients
    /\ link[c] = "closed" => s2c[c] = <<>>
    /\ Handshaking(c) => subscriptions[c] = {} /\ (s2c[c] # <<>> => c \in clients)

ViewInv ==
  /\ \A h \in Handler : \A r \in subscribedSessions[h] : view[h][r] = "open"
  /\ \A h \in Handler, r \in Resource :
       view[h][r] # "none" => r \in Serves[h] /\ ~Handshaking(ClientOf[h])
  /\ \A h \in Handler, r \in Resource : Unborn(r) => view[h][r] \in {"none", "creating"}
  /\ \A g, h \in Handler, r \in Resource :
       Unborn(r) /\ g # h => view[g][r] = "none" \/ view[h][r] = "none"

LifeInv == TypeOK /\ ExchangeInv /\ MessagesInv /\ LinkInv /\ ViewInv

----------------------------------------------------------------------------
(* Queues *)

LEMMA TailIs ==
  ASSUME NEW S, NEW q \in Seq(S), q # <<>>
  PROVE  /\ Len(q) \in Nat /\ Len(q) > 0 /\ Head(q) = q[1] /\ 1 \in DOMAIN q
         /\ Tail(q) \in Seq(S) /\ Len(Tail(q)) = Len(q) - 1
         /\ \A i \in DOMAIN Tail(q) : i \in Nat \ {0} /\ i + 1 \in DOMAIN q /\ Tail(q)[i] = q[i + 1]
         /\ \A i \in DOMAIN q : i # 1 => i - 1 \in DOMAIN Tail(q) /\ Tail(q)[i - 1] = q[i]
OBVIOUS

LEMMA AppendIs ==
  ASSUME NEW S, NEW q \in Seq(S), NEW m \in S
  PROVE  /\ Append(q, m) \in Seq(S) /\ Len(q) \in Nat /\ Len(Append(q, m)) = Len(q) + 1
         /\ DOMAIN q = 1 .. Len(q) /\ DOMAIN Append(q, m) = 1 .. Len(q) + 1
         /\ \A i \in DOMAIN q : Append(q, m)[i] = q[i]
         /\ Append(q, m)[Len(q) + 1] = m
OBVIOUS

LEMMA ConcatIs ==
  ASSUME NEW S, NEW q \in Seq(S), NEW a \in S, NEW b \in S
  PROVE  q \o <<a>> = Append(q, a) /\ q \o <<a, b>> = Append(Append(q, a), b)
OBVIOUS

LEMMA AskTaken ==
  ASSUME NEW q \in Seq(ToServer), q # <<>>, NEW h, NEW r, AskedOnce(q, h, r)
  PROVE  /\ AskedOnce(Tail(q), h, r)
         /\ Asked(Tail(q), h, r) => Asked(q, h, r)
         /\ IsAsk(Head(q)) /\ About(Head(q), h, r) => Asked(q, h, r) /\ ~Asked(Tail(q), h, r)
<1> DEFINE t == Tail(q)
<1>1. /\ Head(q) = q[1] /\ 1 \in DOMAIN q
      /\ \A i \in DOMAIN t : i \in Nat \ {0} /\ i + 1 \in DOMAIN q /\ t[i] = q[i + 1]
  BY TailIs
<1> HIDE DEF t
<1>2. AskedOnce(t, h, r)
  BY <1>1 DEF AskedOnce
<1>3. Asked(t, h, r) => Asked(q, h, r)
  BY <1>1 DEF Asked
<1>4. ASSUME IsAsk(Head(q)) /\ About(Head(q), h, r)
      PROVE  Asked(q, h, r) /\ ~Asked(t, h, r)
  BY <1>1, <1>4 DEF AskedOnce, Asked
<1> QED
  BY <1>2, <1>3, <1>4 DEF t

LEMMA AskQueued ==
  ASSUME NEW q \in Seq(ToServer), NEW m \in ToServer, NEW h, NEW r, AskedOnce(q, h, r)
  PROVE  /\ ~(IsAsk(m) /\ About(m, h, r)) =>
              AskedOnce(Append(q, m), h, r) /\ (Asked(Append(q, m), h, r) => Asked(q, h, r))
         /\ ~Asked(q, h, r) => AskedOnce(Append(q, m), h, r)
<1> DEFINE a == Append(q, m)
<1>1. /\ Len(q) \in Nat /\ DOMAIN q = 1 .. Len(q) /\ DOMAIN a = 1 .. Len(q) + 1
      /\ \A i \in DOMAIN q : a[i] = q[i]
      /\ a[Len(q) + 1] = m
  BY AppendIs
<1> HIDE DEF a
<1>2. ASSUME ~(IsAsk(m) /\ About(m, h, r))
      PROVE  AskedOnce(a, h, r) /\ (Asked(a, h, r) => Asked(q, h, r))
  BY <1>1, <1>2 DEF AskedOnce, Asked
<1>3. ASSUME ~Asked(q, h, r)
      PROVE  AskedOnce(a, h, r)
  BY <1>1, <1>3 DEF AskedOnce, Asked
<1> QED
  BY <1>2, <1>3 DEF a

LEMMA AnswerTaken ==
  ASSUME NEW q \in Seq(ToClient), q # <<>>, NEW h, NEW r, AnsweredOnce(q, h, r)
  PROVE  /\ AnsweredOnce(Tail(q), h, r)
         /\ Answered(Tail(q), h, r) => Answered(q, h, r)
         /\ IsAnswer(Head(q)) /\ About(Head(q), h, r) =>
              Answered(q, h, r) /\ ~Answered(Tail(q), h, r)
<1> DEFINE t == Tail(q)
<1>1. /\ Head(q) = q[1] /\ 1 \in DOMAIN q
      /\ \A i \in DOMAIN t : i \in Nat \ {0} /\ i + 1 \in DOMAIN q /\ t[i] = q[i + 1]
  BY TailIs
<1> HIDE DEF t
<1>2. AnsweredOnce(t, h, r)
  BY <1>1 DEF AnsweredOnce
<1>3. Answered(t, h, r) => Answered(q, h, r)
  BY <1>1 DEF Answered
<1>4. ASSUME IsAnswer(Head(q)) /\ About(Head(q), h, r)
      PROVE  Answered(q, h, r) /\ ~Answered(t, h, r)
  BY <1>1, <1>4 DEF AnsweredOnce, Answered
<1> QED
  BY <1>2, <1>3, <1>4 DEF t

LEMMA AnswerQueued ==
  ASSUME NEW q \in Seq(ToClient), NEW m \in ToClient, NEW h, NEW r, AnsweredOnce(q, h, r)
  PROVE  /\ ~(IsAnswer(m) /\ About(m, h, r)) =>
              /\ AnsweredOnce(Append(q, m), h, r)
              /\ Answered(Append(q, m), h, r) => Answered(q, h, r)
         /\ ~Answered(q, h, r) => AnsweredOnce(Append(q, m), h, r)
<1> DEFINE a == Append(q, m)
<1>1. /\ Len(q) \in Nat /\ DOMAIN q = 1 .. Len(q) /\ DOMAIN a = 1 .. Len(q) + 1
      /\ \A i \in DOMAIN q : a[i] = q[i]
      /\ a[Len(q) + 1] = m
  BY AppendIs
<1> HIDE DEF a
<1>2. ASSUME ~(IsAnswer(m) /\ About(m, h, r))
      PROVE  AnsweredOnce(a, h, r) /\ (Answered(a, h, r) => Answered(q, h, r))
  BY <1>1, <1>2 DEF AnsweredOnce, Answered
<1>3. ASSUME ~Answered(q, h, r)
      PROVE  AnsweredOnce(a, h, r)
  BY <1>1, <1>3 DEF AnsweredOnce, Answered
<1> QED
  BY <1>2, <1>3 DEF a

----------------------------------------------------------------------------
(* Emitting an envelope: it is numbered next, delivered, and reduced into  *)
(* the state of its resource if that exists.                               *)

EnvelopeEntry(env) == [serverSeq |-> env.serverSeq, action |-> env.action]

Emits(q, st, n, env, q2, st2) ==
  /\ env \in Envelope /\ env.serverSeq = n + 1
  /\ q2 = Deliver(q, env)
  /\ st2 \in [Resource -> State]
  /\ \A r \in Resource :
       \/ r = env.action.resource /\ st2[r].entries = Append(st[r].entries, EnvelopeEntry(env))
       \/ (r = env.action.resource => ~Live(r)) /\ st2[r].entries = st[r].entries

LEMMA DeliverIs ==
  ASSUME NEW q \in ClientQueues, NEW env \in Envelope
  PROVE  \A c \in Client :
           /\ [kind |-> "action", envelope |-> env] \in ToClient
           /\ Deliver(q, env)[c] = IF c \in clients /\ link[c] # "closed"
                                      /\ env.action.resource \in subscriptions[c]
                                   THEN Append(q[c], [kind |-> "action", envelope |-> env])
                                   ELSE q[c]
BY DEF Deliver, ToClient

LEMMA ReduceIs ==
  ASSUME NEW st \in State, NEW env \in Envelope
  PROVE  /\ Reduce(st, env.action, env.serverSeq) \in State
         /\ Reduce(st, env.action, env.serverSeq).entries = Append(st.entries, EnvelopeEntry(env))
         /\ st.entries \in Seq(Entry) /\ EnvelopeEntry(env) \in Entry
<1>1. env.action \in Action /\ env.serverSeq \in Nat
  BY DEF Envelope
<1>2. EnvelopeEntry(env) \in Entry
  BY <1>1 DEF EnvelopeEntry, Entry
<1> QED
  BY <1>1, <1>2, ReduceType DEF Reduce, EnvelopeEntry, State

\* An action on a session emits one envelope, or two: first the root count.
LEMMA EmitIs ==
  ASSUME TypeOK, NEW a \in SessionAction, NEW origin \in Origin, Emit(s2c, a, origin)
  PROVE  \/ /\ serverSeq' = serverSeq + 1
            /\ \E env \in Envelope :
                 /\ env.action = a /\ env.origin = origin
                 /\ Emits(s2c, state, serverSeq, env, s2c', state')
         \/ /\ serverSeq' = serverSeq + 2
            /\ \E rootEnv, env \in Envelope : \E q \in ClientQueues, st \in [Resource -> State] :
                 /\ env.action = a /\ env.origin = origin
                 /\ rootEnv.action.resource = Root /\ rootEnv.origin = NoOrigin
                 /\ Emits(s2c, state, serverSeq, rootEnv, q, st)
                 /\ Emits(q, st, serverSeq + 1, env, s2c', state')
<1>1. a \in Action /\ a.resource \in Session /\ a.resource \in Resource /\ a.resource # Root
  <2>1. a \in Action /\ a.resource \in Session
    BY DEF Action, SessionAction
  <2> QED
    BY <2>1 DEF Resource
<1>2. serverSeq \in Nat /\ state \in [Resource -> State] /\ s2c \in ClientQueues
  BY DEF TypeOK, ClientQueues
<1>3. NoOrigin \in Origin /\ Root \in Resource
  BY DEF Origin, Resource
<1>4. CASE EmitTracked(s2c, a, origin) /\ Live(a.resource)
  <2> DEFINE turns   == IF a.type = "turnStarted"
                        THEN activeTurnToSession \cup {a.turn}
                        ELSE activeTurnToSession \ {a.turn}
             counted == ActiveSessionsChanged(Cardinality(turns))
             rootEnv == [action |-> counted, serverSeq |-> serverSeq + 1, origin |-> NoOrigin]
             env     == [action |-> a, serverSeq |-> serverSeq + 2, origin |-> origin]
  <2>1. turns \subseteq Turn
    BY <1>4 DEF TypeOK, SessionAction, TurnEnd, EmitTracked, Emit
  <2>2. Cardinality(turns) \in Nat
    BY <2>1, FiniteTurns, FS_Subset, FS_CardinalityType
  <2>3. counted \in Action /\ counted.resource = Root
    BY <2>2, ActionTypes DEF Action, ActiveSessionsChanged
  <2>4. /\ rootEnv \in Envelope /\ rootEnv.action = counted /\ rootEnv.serverSeq = serverSeq + 1
        /\ env \in Envelope /\ env.action = a /\ env.serverSeq = serverSeq + 2
        /\ rootEnv.origin = NoOrigin /\ env.origin = origin
    BY <1>1, <1>2, <1>3, <2>3 DEF Envelope
  <2>5. /\ serverSeq' = serverSeq + 2
        /\ s2c' = Deliver(Deliver(s2c, rootEnv), env)
        /\ state' = [state EXCEPT ![a.resource] = Reduce(@, a, serverSeq + 2),
                                  ![Root] = Reduce(@, counted, serverSeq + 1)]
    BY <1>4 DEF EmitTracked
  <2> HIDE DEF counted, rootEnv, env
  <2> DEFINE st == [state EXCEPT ![Root] = Reduce(@, counted, serverSeq + 1)]
  <2>6. /\ Reduce(state[Root], counted, serverSeq + 1) \in State
        /\ Reduce(state[Root], counted, serverSeq + 1).entries
             = Append(state[Root].entries, EnvelopeEntry(rootEnv))
    BY <1>2, <1>3, <2>4, ReduceIs
  <2>7. /\ Reduce(state[a.resource], a, serverSeq + 2) \in State
        /\ Reduce(state[a.resource], a, serverSeq + 2).entries
             = Append(state[a.resource].entries, EnvelopeEntry(env))
    BY <1>1, <1>2, <2>4, ReduceIs
  <2>8. /\ st \in [Resource -> State]
        /\ \A r \in Resource : st[r] = IF r = Root THEN Reduce(state[Root], counted, serverSeq + 1)
                                       ELSE state[r]
    BY <1>2, <1>3, <2>6
  <2>9. /\ state' \in [Resource -> State]
        /\ \A r \in Resource : state'[r] = IF r = a.resource THEN Reduce(state[r], a, serverSeq + 2)
                                           ELSE st[r]
    BY <1>1, <1>2, <1>3, <2>5, <2>6, <2>7
  <2> HIDE DEF st
  <2>10. Emits(s2c, state, serverSeq, rootEnv, Deliver(s2c, rootEnv), st)
    BY <2>3, <2>4, <2>6, <2>8 DEF Emits
  <2>11. st[a.resource] = state[a.resource]
    BY <1>1, <2>8
  <2>12. Emits(Deliver(s2c, rootEnv), st, serverSeq + 1, env, s2c', state')
    <3>1. env.serverSeq = serverSeq + 1 + 1
      BY <1>2, <2>4
    <3> QED
      BY <1>1, <2>4, <2>5, <2>7, <2>9, <2>11, <3>1 DEF Emits
  <2>13. Deliver(s2c, rootEnv) \in ClientQueues
    BY <1>2, <2>4, DeliverType
  <2> QED
    BY <2>3, <2>4, <2>5, <2>8, <2>10, <2>12, <2>13
<1>5. CASE EmitUntracked(s2c, a, origin)
  <2> DEFINE env == [action |-> a, serverSeq |-> serverSeq + 1, origin |-> origin]
  <2>1. env \in Envelope /\ env.action = a /\ env.serverSeq = serverSeq + 1 /\ env.origin = origin
    BY <1>1, <1>2 DEF Envelope
  <2>2. s2c' = Deliver(s2c, env) /\ serverSeq' = serverSeq + 1
    BY <1>5 DEF EmitUntracked
  <2>3. state' = IF Live(a.resource)
                 THEN [state EXCEPT ![a.resource] = Reduce(@, a, serverSeq + 1)]
                 ELSE state
    BY <1>5 DEF EmitUntracked
  <2> HIDE DEF env
  <2>4. /\ Reduce(state[a.resource], a, serverSeq + 1) \in State
        /\ Reduce(state[a.resource], a, serverSeq + 1).entries
             = Append(state[a.resource].entries, EnvelopeEntry(env))
    BY <1>1, <1>2, <2>1, ReduceIs
  <2>5. Emits(s2c, state, serverSeq, env, s2c', state')
    <3>1. CASE Live(a.resource)
      <4>1. /\ state' \in [Resource -> State]
            /\ \A r \in Resource : state'[r] = IF r = a.resource
                                               THEN Reduce(state[r], a, serverSeq + 1) ELSE state[r]
        BY <1>1, <1>2, <2>3, <2>4, <3>1
      <4> QED
        BY <2>1, <2>2, <2>4, <4>1 DEF Emits
    <3>2. CASE ~Live(a.resource)
      BY <1>2, <2>1, <2>2, <2>3, <3>2 DEF Emits
    <3> QED
      BY <3>1, <3>2
  <2> QED
    BY <2>1, <2>2, <2>5
<1> QED
  BY <1>4, <1>5 DEF Emit

----------------------------------------------------------------------------
(* What an action does to the queues, to the questions and to the answers. *)

UpFine(q) == \A c \in Client : \A i \in DOMAIN q[c] : UpOK(c, q[c][i])
DownFine(q) == \A c \in Client : \A i \in DOMAIN q[c] : DownOK(c, q[c][i])

AskSame(q, p, h, r) == AskedOnce(p, h, r) /\ (Asked(p, h, r) => Asked(q, h, r))
AnswerSame(q, p, h, r) == AnsweredOnce(p, h, r) /\ (Answered(p, h, r) => Answered(q, h, r))

LEMMA Queues ==
  ASSUME LifeInv
  PROVE  /\ UpFine(c2s) /\ DownFine(s2c)
         /\ c2s \in ServerQueues /\ s2c \in ClientQueues
         /\ \A c \in Client : c2s[c] \in Seq(ToServer) /\ s2c[c] \in Seq(ToClient)
         /\ \A h \in Handler, r \in Resource :
              /\ OneExchange(h, r)
              /\ AskSame(c2s[ClientOf[h]], c2s[ClientOf[h]], h, r)
              /\ AnswerSame(s2c[ClientOf[h]], s2c[ClientOf[h]], h, r)
<1>1. UpFine(c2s) /\ DownFine(s2c)
  BY DEF LifeInv, MessagesInv, UpFine, DownFine
<1>2. c2s \in ServerQueues /\ s2c \in ClientQueues
  BY DEF LifeInv, TypeOK, ServerQueues, ClientQueues
<1>3. ASSUME NEW h \in Handler, NEW r \in Resource
      PROVE  /\ OneExchange(h, r)
             /\ AskSame(c2s[ClientOf[h]], c2s[ClientOf[h]], h, r)
             /\ AnswerSame(s2c[ClientOf[h]], s2c[ClientOf[h]], h, r)
  BY DEF LifeInv, ExchangeInv, OneExchange, AskSame, AnswerSame
<1> QED
  BY <1>1, <1>2, <1>3 DEF ServerQueues, ClientQueues

LEMMA Handled ==
  ASSUME LifeInv, NEW c \in Client, NEW kind, Handling(c, kind)
  PROVE  /\ Head(c2s[c]) \in ToServer /\ Head(c2s[c]).kind = kind /\ UpOK(c, Head(c2s[c]))
         /\ c2s[c] # <<>> /\ c2s' = [c2s EXCEPT ![c] = Tail(@)] /\ UpFine(c2s')
         /\ \A h \in Handler, r \in Resource :
              /\ AskSame(c2s[ClientOf[h]], c2s'[ClientOf[h]], h, r)
              /\ IsAsk(Head(c2s[c])) /\ About(Head(c2s[c]), h, r) =>
                   /\ ClientOf[h] = c /\ Asked(c2s[ClientOf[h]], h, r)
                   /\ ~Asked(c2s'[ClientOf[h]], h, r)
<1> DEFINE q == c2s[c]
<1>1. /\ q \in Seq(ToServer) /\ q # <<>> /\ Head(q).kind = kind
      /\ c2s' = [c2s EXCEPT ![c] = Tail(@)]
      /\ \A d \in Client : c2s'[d] = IF d = c THEN Tail(q) ELSE c2s[d]
  BY Queues DEF Handling, ServerQueues
<1>2. /\ Head(q) = q[1] /\ 1 \in DOMAIN q /\ Head(q) \in ToServer
      /\ \A i \in DOMAIN Tail(q) : i + 1 \in DOMAIN q /\ Tail(q)[i] = q[i + 1]
  BY <1>1, TailIs, HeadTail
<1>3. \A i \in DOMAIN q : UpOK(c, q[i])
  BY Queues DEF UpFine
<1> HIDE DEF q
<1>4. UpOK(c, Head(q))
  BY <1>2, <1>3
<1>5. \A i \in DOMAIN Tail(q) : UpOK(c, Tail(q)[i])
  BY <1>2, <1>3
<1>6. UpFine(c2s')
  BY <1>1, <1>5, Queues DEF UpFine
<1>7. ASSUME NEW h \in Handler, NEW r \in Resource
      PROVE  /\ AskSame(c2s[ClientOf[h]], c2s'[ClientOf[h]], h, r)
             /\ IsAsk(Head(q)) /\ About(Head(q), h, r) =>
                  /\ ClientOf[h] = c /\ Asked(c2s[ClientOf[h]], h, r)
                  /\ ~Asked(c2s'[ClientOf[h]], h, r)
  <2>1. AskedOnce(c2s[ClientOf[h]], h, r) /\ AskSame(c2s[ClientOf[h]], c2s[ClientOf[h]], h, r)
    BY Queues DEF AskSame
  <2>2. CASE ClientOf[h] = c
    <3>1. /\ AskedOnce(Tail(q), h, r)
          /\ Asked(Tail(q), h, r) => Asked(q, h, r)
          /\ IsAsk(Head(q)) /\ About(Head(q), h, r) => Asked(q, h, r) /\ ~Asked(Tail(q), h, r)
      <4>1. AskedOnce(q, h, r)
        BY <2>1, <2>2 DEF q
      <4> QED
        BY <1>1, <4>1, AskTaken
    <3> QED
      BY <1>1, <2>2, <3>1 DEF AskSame, q
  <2>3. CASE ClientOf[h] # c
    <3>1. ~(IsAsk(Head(q)) /\ About(Head(q), h, r))
      BY <1>4, <2>3 DEF UpOK, Addressed, About
    <3> QED
      BY <1>1, <2>1, <2>3, <3>1
  <2> QED
    BY <2>2, <2>3
<1> QED
  BY <1>1, <1>2, <1>4, <1>6, <1>7 DEF q

LEMMA Received ==
  ASSUME LifeInv, NEW c \in Client, NEW kind, Receiving(c, kind)
  PROVE  /\ Head(s2c[c]) \in ToClient /\ Head(s2c[c]).kind = kind /\ DownOK(c, Head(s2c[c]))
         /\ s2c[c] # <<>> /\ s2c' = [s2c EXCEPT ![c] = Tail(@)] /\ DownFine(s2c')
         /\ \A h \in Handler, r \in Resource :
              /\ AnswerSame(s2c[ClientOf[h]], s2c'[ClientOf[h]], h, r)
              /\ IsAnswer(Head(s2c[c])) /\ About(Head(s2c[c]), h, r) =>
                   /\ ClientOf[h] = c /\ Answered(s2c[ClientOf[h]], h, r)
                   /\ ~Answered(s2c'[ClientOf[h]], h, r)
<1> DEFINE q == s2c[c]
<1>1. /\ q \in Seq(ToClient) /\ q # <<>> /\ Head(q).kind = kind
      /\ s2c' = [s2c EXCEPT ![c] = Tail(@)]
      /\ \A d \in Client : s2c'[d] = IF d = c THEN Tail(q) ELSE s2c[d]
  BY Queues DEF Receiving, ClientQueues
<1>2. /\ Head(q) = q[1] /\ 1 \in DOMAIN q /\ Head(q) \in ToClient
      /\ \A i \in DOMAIN Tail(q) : i + 1 \in DOMAIN q /\ Tail(q)[i] = q[i + 1]
  BY <1>1, TailIs, HeadTail
<1>3. \A i \in DOMAIN q : DownOK(c, q[i])
  BY Queues DEF DownFine
<1> HIDE DEF q
<1>4. DownOK(c, Head(q))
  BY <1>2, <1>3
<1>5. \A i \in DOMAIN Tail(q) : DownOK(c, Tail(q)[i])
  BY <1>2, <1>3
<1>6. DownFine(s2c')
  BY <1>1, <1>5, Queues DEF DownFine
<1>7. ASSUME NEW h \in Handler, NEW r \in Resource
      PROVE  /\ AnswerSame(s2c[ClientOf[h]], s2c'[ClientOf[h]], h, r)
             /\ IsAnswer(Head(q)) /\ About(Head(q), h, r) =>
                  /\ ClientOf[h] = c /\ Answered(s2c[ClientOf[h]], h, r)
                  /\ ~Answered(s2c'[ClientOf[h]], h, r)
  <2>1. AnsweredOnce(s2c[ClientOf[h]], h, r) /\ AnswerSame(s2c[ClientOf[h]], s2c[ClientOf[h]], h, r)
    BY Queues DEF AnswerSame
  <2>2. CASE ClientOf[h] = c
    <3>1. /\ AnsweredOnce(Tail(q), h, r)
          /\ Answered(Tail(q), h, r) => Answered(q, h, r)
          /\ IsAnswer(Head(q)) /\ About(Head(q), h, r) => Answered(q, h, r) /\ ~Answered(Tail(q), h, r)
      <4>1. AnsweredOnce(q, h, r)
        BY <2>1, <2>2 DEF q
      <4> QED
        BY <1>1, <4>1, AnswerTaken
    <3> QED
      BY <1>1, <2>2, <3>1 DEF AnswerSame, q
  <2>3. CASE ClientOf[h] # c
    <3>1. ~(IsAnswer(Head(q)) /\ About(Head(q), h, r))
      BY <1>4, <2>3 DEF DownOK, Addressed, About
    <3> QED
      BY <1>1, <2>1, <2>3, <3>1
  <2> QED
    BY <2>2, <2>3
<1> QED
  BY <1>1, <1>2, <1>4, <1>6, <1>7 DEF q

LEMMA Sending ==
  ASSUME NEW q \in ServerQueues, UpFine(q), NEW c \in Client, NEW m \in ToServer, UpOK(c, m)
  PROVE  /\ [q EXCEPT ![c] = Append(@, m)] \in ServerQueues
         /\ UpFine([q EXCEPT ![c] = Append(@, m)])
         /\ \A h \in Handler, r \in Resource : AskedOnce(q[ClientOf[h]], h, r) =>
              /\ ~(IsAsk(m) /\ About(m, h, r)) =>
                   AskSame(q[ClientOf[h]], [q EXCEPT ![c] = Append(@, m)][ClientOf[h]], h, r)
              /\ IsAsk(m) /\ About(m, h, r) /\ ~Asked(q[ClientOf[h]], h, r) =>
                   AskedOnce([q EXCEPT ![c] = Append(@, m)][ClientOf[h]], h, r)
<1> DEFINE q2 == [q EXCEPT ![c] = Append(@, m)]
<1>1. /\ \A d \in Client : q[d] \in Seq(ToServer) /\ q2[d] = IF d = c THEN Append(q[c], m) ELSE q[d]
      /\ q2 \in ServerQueues
  BY DEF ServerQueues
<1> HIDE DEF q2
<1>2. \A i \in DOMAIN Append(q[c], m) : UpOK(c, Append(q[c], m)[i])
  <2>1. \A i \in DOMAIN q[c] : UpOK(c, q[c][i])
    BY DEF UpFine
  <2> QED
    BY <1>1, <2>1, AppendIs
<1>3. UpFine(q2)
  BY <1>1, <1>2 DEF UpFine
<1>4. ASSUME NEW h \in Handler, NEW r \in Resource, AskedOnce(q[ClientOf[h]], h, r)
      PROVE  /\ ~(IsAsk(m) /\ About(m, h, r)) => AskSame(q[ClientOf[h]], q2[ClientOf[h]], h, r)
             /\ IsAsk(m) /\ About(m, h, r) /\ ~Asked(q[ClientOf[h]], h, r) =>
                  AskedOnce(q2[ClientOf[h]], h, r)
  <2>1. CASE ClientOf[h] = c
    <3>1. /\ ~(IsAsk(m) /\ About(m, h, r)) => AskSame(q[c], Append(q[c], m), h, r)
          /\ ~Asked(q[c], h, r) => AskedOnce(Append(q[c], m), h, r)
      BY <1>1, <1>4, <2>1, AskQueued DEF AskSame
    <3> QED
      BY <1>1, <2>1, <3>1
  <2>2. CASE ClientOf[h] # c
    BY <1>1, <1>4, <2>2 DEF AskSame
  <2> QED
    BY <2>1, <2>2
<1> QED
  BY <1>1, <1>3, <1>4 DEF q2

LEMMA Answering ==
  ASSUME NEW q \in ClientQueues, DownFine(q), NEW c \in Client, NEW m \in ToClient, DownOK(c, m)
  PROVE  /\ [q EXCEPT ![c] = Append(@, m)] \in ClientQueues
         /\ DownFine([q EXCEPT ![c] = Append(@, m)])
         /\ \A h \in Handler, r \in Resource : AnsweredOnce(q[ClientOf[h]], h, r) =>
              /\ ~(IsAnswer(m) /\ About(m, h, r)) =>
                   AnswerSame(q[ClientOf[h]], [q EXCEPT ![c] = Append(@, m)][ClientOf[h]], h, r)
              /\ IsAnswer(m) /\ About(m, h, r) /\ ~Answered(q[ClientOf[h]], h, r) =>
                   AnsweredOnce([q EXCEPT ![c] = Append(@, m)][ClientOf[h]], h, r)
<1> DEFINE q2 == [q EXCEPT ![c] = Append(@, m)]
<1>1. /\ \A d \in Client : q[d] \in Seq(ToClient) /\ q2[d] = IF d = c THEN Append(q[c], m) ELSE q[d]
      /\ q2 \in ClientQueues
  BY DEF ClientQueues
<1> HIDE DEF q2
<1>2. \A i \in DOMAIN Append(q[c], m) : DownOK(c, Append(q[c], m)[i])
  <2>1. \A i \in DOMAIN q[c] : DownOK(c, q[c][i])
    BY DEF DownFine
  <2> QED
    BY <1>1, <2>1, AppendIs
<1>3. DownFine(q2)
  BY <1>1, <1>2 DEF DownFine
<1>4. ASSUME NEW h \in Handler, NEW r \in Resource, AnsweredOnce(q[ClientOf[h]], h, r)
      PROVE  /\ ~(IsAnswer(m) /\ About(m, h, r)) => AnswerSame(q[ClientOf[h]], q2[ClientOf[h]], h, r)
             /\ IsAnswer(m) /\ About(m, h, r) /\ ~Answered(q[ClientOf[h]], h, r) =>
                  AnsweredOnce(q2[ClientOf[h]], h, r)
  <2>1. CASE ClientOf[h] = c
    <3>1. /\ ~(IsAnswer(m) /\ About(m, h, r)) => AnswerSame(q[c], Append(q[c], m), h, r)
          /\ ~Answered(q[c], h, r) => AnsweredOnce(Append(q[c], m), h, r)
      BY <1>1, <1>4, <2>1, AnswerQueued DEF AnswerSame
    <3> QED
      BY <1>1, <2>1, <3>1
  <2>2. CASE ClientOf[h] # c
    BY <1>1, <1>4, <2>2 DEF AnswerSame
  <2> QED
    BY <2>1, <2>2
<1> QED
  BY <1>1, <1>3, <1>4 DEF q2

\* An envelope goes to subscribers, which have finished their handshake.
LEMMA EmitsQuietly ==
  ASSUME LinkInv, NEW q \in ClientQueues, DownFine(q), NEW st, NEW n, NEW env, NEW q2, NEW st2,
         Emits(q, st, n, env, q2, st2)
  PROVE  /\ q2 \in ClientQueues /\ DownFine(q2)
         /\ \A h \in Handler, r \in Resource : AnsweredOnce(q[ClientOf[h]], h, r) =>
              AnswerSame(q[ClientOf[h]], q2[ClientOf[h]], h, r)
         /\ \A c \in Client : q2[c] # q[c] => link[c] # "closed" /\ c \in clients
<1> DEFINE m == [kind |-> "action", envelope |-> env]
<1>1. /\ env \in Envelope /\ q2 = Deliver(q, env)
      /\ m.kind = "action" /\ ~IsAnswer(m)
  BY DEF Emits, IsAnswer
<1>2. /\ m \in ToClient
      /\ \A c \in Client :
           /\ q[c] \in Seq(ToClient)
           /\ \/ q2[c] = q[c]
              \/ /\ q2[c] = Append(q[c], m)
                 /\ link[c] # "closed" /\ c \in clients /\ subscriptions[c] # {}
  <2>1. m \in ToClient
    BY <1>1 DEF ToClient
  <2>2. \A c \in Client : q[c] \in Seq(ToClient)
    BY DEF ClientQueues
  <2>3. \A c \in Client : q2[c] = IF c \in clients /\ link[c] # "closed"
                                     /\ env.action.resource \in subscriptions[c]
                                  THEN Append(q[c], m) ELSE q[c]
    BY <1>1, DeliverIs
  <2> QED
    BY <2>1, <2>2, <2>3
<1> HIDE DEF m
<1>3. ASSUME NEW c \in Client, q2[c] # q[c]
      PROVE  DownOK(c, m) /\ q2[c] = Append(q[c], m)
  BY <1>1, <1>2, <1>3 DEF LinkInv, DownOK, IsAnswer
<1>4. DownFine(q2)
  <2>1. ASSUME NEW c \in Client, NEW i \in DOMAIN q2[c]
        PROVE  DownOK(c, q2[c][i])
    <3>1. \A j \in DOMAIN q[c] : DownOK(c, q[c][j])
      BY DEF DownFine
    <3>2. CASE q2[c] # q[c]
      <4>1. \A j \in DOMAIN Append(q[c], m) : Append(q[c], m)[j] = m \/
                (j \in DOMAIN q[c] /\ Append(q[c], m)[j] = q[c][j])
        BY <1>2, AppendIs
      <4> QED
        BY <1>3, <2>1, <3>1, <3>2, <4>1
    <3> QED
      BY <2>1, <3>1, <3>2
  <2> QED
    BY <2>1 DEF DownFine
<1>5. ASSUME NEW h \in Handler, NEW r \in Resource, AnsweredOnce(q[ClientOf[h]], h, r)
      PROVE  AnswerSame(q[ClientOf[h]], q2[ClientOf[h]], h, r)
  <2>1. AnswerSame(q[ClientOf[h]], Append(q[ClientOf[h]], m), h, r)
    BY <1>1, <1>2, <1>5, AnswerQueued DEF AnswerSame
  <2> QED
    BY <1>2, <1>5, <2>1 DEF AnswerSame
<1> QED
  BY <1>1, <1>2, <1>4, <1>5, DeliverType

LEMMA EmitQuietly ==
  ASSUME LifeInv, NEW a \in SessionAction, NEW origin \in Origin, Emit(s2c, a, origin)
  PROVE  /\ DownFine(s2c')
         /\ \A h \in Handler, r \in Resource :
              AnswerSame(s2c[ClientOf[h]], s2c'[ClientOf[h]], h, r)
         /\ \A c \in Client : s2c'[c] # s2c[c] => link[c] # "closed" /\ c \in clients
<1>1. /\ LinkInv /\ s2c \in ClientQueues /\ DownFine(s2c) /\ TypeOK
      /\ \A h \in Handler, r \in Resource : AnsweredOnce(s2c[ClientOf[h]], h, r)
  BY Queues DEF LifeInv, AnswerSame
<1>2. CASE \E env \in Envelope : Emits(s2c, state, serverSeq, env, s2c', state')
  <2>1. PICK env \in Envelope : Emits(s2c, state, serverSeq, env, s2c', state')
    BY <1>2
  <2> QED
    BY <1>1, <2>1, EmitsQuietly
<1>3. CASE \E rootEnv, env \in Envelope : \E q \in ClientQueues, st \in [Resource -> State] :
             /\ Emits(s2c, state, serverSeq, rootEnv, q, st)
             /\ Emits(q, st, serverSeq + 1, env, s2c', state')
  <2>1. PICK rootEnv \in Envelope, env \in Envelope, q \in ClientQueues, st \in [Resource -> State] :
               /\ Emits(s2c, state, serverSeq, rootEnv, q, st)
               /\ Emits(q, st, serverSeq + 1, env, s2c', state')
    BY <1>3
  <2>2. /\ DownFine(q)
        /\ \A h \in Handler, r \in Resource : AnswerSame(s2c[ClientOf[h]], q[ClientOf[h]], h, r)
        /\ \A c \in Client : q[c] # s2c[c] => link[c] # "closed" /\ c \in clients
    BY <1>1, <2>1, EmitsQuietly
  <2>3. \A h \in Handler, r \in Resource : AnsweredOnce(q[ClientOf[h]], h, r)
    BY <2>2 DEF AnswerSame
  <2>4. /\ DownFine(s2c')
        /\ \A h \in Handler, r \in Resource : AnswerSame(q[ClientOf[h]], s2c'[ClientOf[h]], h, r)
        /\ \A c \in Client : s2c'[c] # q[c] => link[c] # "closed" /\ c \in clients
    BY <1>1, <2>1, <2>2, <2>3, EmitsQuietly
  <2> QED
    BY <2>2, <2>4 DEF AnswerSame
<1> QED
  BY <1>1, <1>2, <1>3, EmitIs

----------------------------------------------------------------------------
(* The steps.  Most change no link, no session's birth and no view.        *)

LEMMA MessagesKept ==
  ASSUME UpFine(c2s'), DownFine(s2c'),
         \A p \in creating' : Addressed(p.client, p) /\ Unborn(p.resource),
         \A r : Unborn(r)' = Unborn(r),
         \A c \in Client : Handshaking(c)' => Handshaking(c)
  PROVE  MessagesInv'
<1>1. ASSUME NEW c \in Client, NEW i \in DOMAIN c2s'[c]
      PROVE  UpOK(c, c2s[c][i])'
  <2> DEFINE m == c2s'[c][i]
  <2>1. UpOK(c, m)
    BY DEF UpFine
  <2> QED
    BY <2>1 DEF UpOK, Addressed
<1>2. ASSUME NEW c \in Client, NEW i \in DOMAIN s2c'[c]
      PROVE  DownOK(c, s2c[c][i])'
  <2> DEFINE m == s2c'[c][i]
  <2>1. DownOK(c, m)
    BY DEF DownFine
  <2> QED
    BY <2>1 DEF DownOK, Addressed
<1>3. \A p \in creating' : (Addressed(p.client, p) /\ Unborn(p.resource))'
  BY DEF Addressed
<1> QED
  BY <1>1, <1>2, <1>3 DEF MessagesInv

LEMMA QuietStep ==
  ASSUME LifeInv, TypeOK', LinkInv', UpFine(c2s'), DownFine(s2c'),
         \A h \in Handler, r \in Resource :
           /\ AskSame(c2s[ClientOf[h]], c2s'[ClientOf[h]], h, r)
           /\ AnswerSame(s2c[ClientOf[h]], s2c'[ClientOf[h]], h, r),
         UNCHANGED <<creating, view, subscribedSessions>>,
         \A r : Unborn(r)' = Unborn(r),
         \A c \in Client : Handshaking(c)' => Handshaking(c)
  PROVE  LifeInv'
<1>1. MessagesInv'
  BY MessagesKept DEF LifeInv, MessagesInv
<1>2. ViewInv'
  BY DEF LifeInv, ViewInv
<1>3. ASSUME NEW h \in Handler, NEW r \in Resource
      PROVE  OneExchange(h, r)'
  <2>1. OneExchange(h, r)
    BY DEF LifeInv, ExchangeInv
  <2>2. Creating(h, r)' = Creating(h, r)
    BY DEF Creating
  <2> QED
    BY <2>1, <2>2 DEF OneExchange, AskSame, AnswerSame
<1> QED
  BY <1>1, <1>2, <1>3 DEF LifeInv, ExchangeInv

LEMMA LinkKept ==
  ASSUME LinkInv, UNCHANGED <<link, clients, subscriptions>>,
         \A c \in Client : s2c'[c] # s2c[c] => link[c] # "closed" /\ c \in clients
  PROVE  LinkInv' /\ \A c \in Client : Handshaking(c)' => Handshaking(c)
BY DEF LinkInv, Handshaking

LEMMA BirthKept ==
  ASSUME UNCHANGED phase
  PROVE  \A r : Unborn(r)' = Unborn(r)
BY DEF Unborn

LEMMA ReceiverIsLinked ==
  ASSUME LifeInv, NEW c \in Client, s2c[c] # <<>>
  PROVE  link[c] # "closed" /\ c \in clients
BY DEF LifeInv, LinkInv, Handshaking, TypeOK

LEMMA InitializeStep ==
  ASSUME LifeInv, TypeOK', NEW c \in Client, HandleInitialize(c)
  PROVE  LifeInv'
<1> DEFINE m == [kind |-> "initialized"]
<1>1. /\ m \in ToClient /\ ~IsAnswer(m) /\ m.kind = "initialized" /\ DownOK(c, m)
  BY DEF ToClient, IsAnswer, DownOK
<1>2. /\ s2c' = IF link[c] = "closed" THEN s2c ELSE [s2c EXCEPT ![c] = Append(@, m)]
      /\ clients' = clients \cup {c} /\ subscriptions' = [subscriptions EXCEPT ![c] = {}]
      /\ UNCHANGED <<phase, creating, view, subscribedSessions, link>>
      /\ Handling(c, "initialize")
  BY DEF HandleInitialize, Reply, server, sync, chat
<1>3. /\ UpFine(c2s')
      /\ \A h \in Handler, r \in Resource : AskSame(c2s[ClientOf[h]], c2s'[ClientOf[h]], h, r)
  BY <1>2, Handled
<1> HIDE DEF m
<1>4. /\ DownFine(s2c')
      /\ \A h \in Handler, r \in Resource : AnswerSame(s2c[ClientOf[h]], s2c'[ClientOf[h]], h, r)
  BY <1>1, <1>2, Queues, Answering DEF AnswerSame
<1>5. LinkInv'
  <2>1. \A d \in Client : d # c => s2c'[d] = s2c[d] /\ subscriptions'[d] = subscriptions[d]
    BY <1>2, Queues DEF ClientQueues, LifeInv, TypeOK
  <2>2. subscriptions'[c] = {}
    BY <1>2 DEF LifeInv, TypeOK
  <2> QED
    BY <1>2, <2>1, <2>2 DEF LifeInv, LinkInv, Handshaking
<1>6. \A d \in Client : Handshaking(d)' => Handshaking(d)
  BY <1>2 DEF Handshaking
<1> QED
  BY <1>2, <1>3, <1>4, <1>5, <1>6, BirthKept, QuietStep

LEMMA UnsubscribeStep ==
  ASSUME LifeInv, TypeOK', NEW c \in Client, HandleUnsubscribe(c)
  PROVE  LifeInv'
<1>1. /\ Handling(c, "unsubscribe")
      /\ UNCHANGED <<phase, creating, clients, view, subscribedSessions, link, s2c>>
      /\ subscriptions' = [subscriptions EXCEPT ![c] = @ \ {Head(c2s[c]).resource}]
  BY DEF HandleUnsubscribe, server, sync, chat
<1>2. LinkInv' /\ \A d \in Client : Handshaking(d)' => Handshaking(d)
  <2>1. \A d \in Client : subscriptions'[d] \subseteq subscriptions[d]
    BY <1>1 DEF LifeInv, TypeOK
  <2> QED
    BY <1>1, <2>1 DEF LifeInv, LinkInv, Handshaking
<1> QED
  BY <1>1, <1>2, Handled, Queues, BirthKept, QuietStep

LEMMA DispatchActionStep ==
  ASSUME LifeInv, TypeOK', NEW c \in Client, HandleDispatchAction(c)
  PROVE  LifeInv'
<1> DEFINE m == Head(c2s[c])
<1>1. /\ Handling(c, "dispatchAction")
      /\ Emit(s2c, m.action, [client |-> c, clientSeq |-> m.clientSeq])
      /\ UNCHANGED <<phase, creating, clients, subscriptions, view, subscribedSessions, link>>
  BY DEF HandleDispatchAction, handler, sync, chat
<1>2. m.action \in SessionAction /\ m.clientSeq \in Nat
  <2>1. m \in ToServer /\ m.kind = "dispatchAction"
    BY <1>1, Handled
  <2> QED
    BY <2>1 DEF ToServer
<1>3. [client |-> c, clientSeq |-> m.clientSeq] \in Origin
  BY <1>2 DEF Origin
<1> HIDE DEF m
<1>4. /\ DownFine(s2c')
      /\ \A h \in Handler, r \in Resource : AnswerSame(s2c[ClientOf[h]], s2c'[ClientOf[h]], h, r)
      /\ \A d \in Client : s2c'[d] # s2c[d] => link[d] # "closed" /\ d \in clients
  BY <1>1, <1>2, <1>3, EmitQuietly
<1>5. LinkInv' /\ \A d \in Client : Handshaking(d)' => Handshaking(d)
  BY <1>1, <1>4, LinkKept DEF LifeInv
<1> QED
  BY <1>1, <1>4, <1>5, Handled, BirthKept, QuietStep

LEMMA IdleStep ==
  ASSUME LifeInv, TypeOK', NEW s \in Session, AgentIdle(s)
  PROVE  LifeInv'
<1> DEFINE a == ActionOf("turnComplete", s, state[s].activeTurn)
<1>1. /\ Emit(s2c, a, NoOrigin) /\ state[s].activeTurn # NoTurn
      /\ UNCHANGED <<phase, creating, clients, subscriptions, view, subscribedSessions, link, c2s>>
  BY DEF AgentIdle, handler, sync, chat
<1>2. a \in SessionAction /\ NoOrigin \in Origin
  <2>1. state[s].activeTurn \in Turn
    BY <1>1 DEF LifeInv, TypeOK, State, Resource
  <2> QED
    BY <2>1, ActionTypes DEF TurnEnd, Origin
<1> HIDE DEF a
<1>3. /\ DownFine(s2c')
      /\ \A h \in Handler, r \in Resource : AnswerSame(s2c[ClientOf[h]], s2c'[ClientOf[h]], h, r)
      /\ \A d \in Client : s2c'[d] # s2c[d] => link[d] # "closed" /\ d \in clients
  BY <1>1, <1>2, EmitQuietly
<1>4. LinkInv' /\ \A d \in Client : Handshaking(d)' => Handshaking(d)
  BY <1>1, <1>3, LinkKept DEF LifeInv
<1> QED
  BY <1>1, <1>3, <1>4, Queues, BirthKept, QuietStep

LEMMA DisposeStep ==
  ASSUME LifeInv, TypeOK', NEW c \in Client, HandleDisposeSession(c)
  PROVE  LifeInv'
<1>1. /\ Handling(c, "disposeSession")
      /\ UNCHANGED <<creating, clients, subscriptions, view, subscribedSessions, link, s2c>>
      /\ phase' = phase \/ (\E s : phase[s] = "live" /\ phase' = [phase EXCEPT ![s] = "removed"])
  BY DEF HandleDisposeSession, handler, sync, chat
<1>2. \A r : Unborn(r)' = Unborn(r)
  BY <1>1 DEF Unborn, LifeInv, TypeOK
<1>3. LinkInv' /\ \A d \in Client : Handshaking(d)' => Handshaking(d)
  BY <1>1, LinkKept DEF LifeInv
<1> QED
  BY <1>1, <1>2, <1>3, Handled, Queues, QuietStep

LEMMA CloseStep ==
  ASSUME LifeInv, TypeOK', NEW c \in Client, HandleClose(c)
  PROVE  LifeInv'
<1>1. /\ link[c] = "closed" /\ clients' = clients \ {c}
      /\ subscriptions' = [subscriptions EXCEPT ![c] = {}]
      /\ c2s' = [c2s EXCEPT ![c] = <<>>]
      /\ UNCHANGED <<phase, creating, view, subscribedSessions, link, s2c>>
  BY DEF HandleClose, server, sync, chat
<1>2. \A d \in Client : c2s'[d] = IF d = c THEN <<>> ELSE c2s[d]
  BY <1>1, Queues DEF ServerQueues
<1>3. /\ UpFine(c2s')
      /\ \A h \in Handler, r \in Resource : AskSame(c2s[ClientOf[h]], c2s'[ClientOf[h]], h, r)
  <2>1. UpFine(c2s')
    BY <1>2, Queues DEF UpFine
  <2>2. \A q, h, r : AskSame(q, <<>>, h, r)
    BY DEF AskSame, AskedOnce, Asked
  <2> QED
    BY <1>2, <2>1, <2>2, Queues
<1>4. LinkInv' /\ \A d \in Client : Handshaking(d)' => Handshaking(d)
  <2>1. \A d \in Client : subscriptions'[d] \subseteq subscriptions[d]
    BY <1>1 DEF LifeInv, TypeOK
  <2> QED
    BY <1>1, <2>1 DEF LifeInv, LinkInv, Handshaking
<1> QED
  BY <1>1, <1>3, <1>4, Queues, BirthKept, QuietStep

LEMMA Sent ==
  ASSUME LifeInv, NEW c \in Client, NEW m \in ToServer, UpOK(c, m), Send(c, <<m>>)
  PROVE  /\ UpFine(c2s')
         /\ \A h \in Handler, r \in Resource :
              /\ ~(IsAsk(m) /\ About(m, h, r)) =>
                   AskSame(c2s[ClientOf[h]], c2s'[ClientOf[h]], h, r)
              /\ IsAsk(m) /\ About(m, h, r) /\ ~Asked(c2s[ClientOf[h]], h, r) =>
                   AskedOnce(c2s'[ClientOf[h]], h, r)
<1>1. c2s[c] \o <<m>> = Append(c2s[c], m)
  BY Queues, ConcatIs
<1>2. c2s' = [c2s EXCEPT ![c] = Append(@, m)]
  BY <1>1 DEF Send
<1>3. \A h \in Handler, r \in Resource : AskedOnce(c2s[ClientOf[h]], h, r)
  BY Queues DEF AskSame
<1> QED
  BY <1>2, <1>3, Queues, Sending

LEMMA ConnectStep ==
  ASSUME LifeInv, TypeOK', NEW c \in Client, Connect(c)
  PROVE  LifeInv'
<1> DEFINE m == [kind |-> "initialize"]
<1>1. /\ link[c] = "none" /\ link' = [link EXCEPT ![c] = "handshake"]
      /\ Send(c, <<m>>)
      /\ UNCHANGED <<phase, creating, clients, subscriptions, view, subscribedSessions, s2c>>
  BY DEF Connect, server, handler, sync, chat
<1>2. m \in ToServer /\ UpOK(c, m) /\ ~IsAsk(m)
  BY DEF ToServer, UpOK, IsAsk
<1> HIDE DEF m
<1>3. /\ UpFine(c2s')
      /\ \A h \in Handler, r \in Resource : AskSame(c2s[ClientOf[h]], c2s'[ClientOf[h]], h, r)
  BY <1>1, <1>2, Sent
<1>4. LinkInv' /\ \A d \in Client : Handshaking(d)' => Handshaking(d)
  <2>1. \A d \in Client : link'[d] = IF d = c THEN "handshake" ELSE link[d]
    BY <1>1 DEF LifeInv, TypeOK
  <2> QED
    BY <1>1, <2>1 DEF LifeInv, LinkInv, Handshaking
<1> QED
  BY <1>1, <1>3, <1>4, Queues, BirthKept, QuietStep

LEMMA InitializedStep ==
  ASSUME LifeInv, TypeOK', NEW c \in Client, Initialized(c)
  PROVE  LifeInv'
<1>1. /\ Receiving(c, "initialized") /\ link' = [link EXCEPT ![c] = "open"]
      /\ UNCHANGED <<phase, creating, clients, subscriptions, view, subscribedSessions, c2s>>
  BY DEF Initialized, server, handler, sync, chat
<1>2. /\ s2c[c] # <<>> /\ s2c' = [s2c EXCEPT ![c] = Tail(@)] /\ DownFine(s2c')
      /\ \A h \in Handler, r \in Resource : AnswerSame(s2c[ClientOf[h]], s2c'[ClientOf[h]], h, r)
  BY <1>1, Received
<1>3. link[c] # "closed" /\ c \in clients
  BY <1>2, ReceiverIsLinked
<1>4. \A d \in Client : /\ link'[d] = IF d = c THEN "open" ELSE link[d]
                        /\ d # c => s2c'[d] = s2c[d]
  BY <1>1, <1>2, Queues DEF LifeInv, TypeOK, ClientQueues
<1>5. LinkInv' /\ \A d \in Client : Handshaking(d)' => Handshaking(d)
  BY <1>1, <1>3, <1>4 DEF LifeInv, LinkInv, Handshaking
<1> QED
  BY <1>1, <1>2, <1>5, Queues, BirthKept, QuietStep

LEMMA DisconnectStep ==
  ASSUME LifeInv, TypeOK', NEW c \in Client, Disconnect(c)
  PROVE  LifeInv'
<1>1. /\ link' = [link EXCEPT ![c] = "closed"] /\ s2c' = [s2c EXCEPT ![c] = <<>>]
      /\ UNCHANGED <<phase, creating, clients, subscriptions, view, subscribedSessions, c2s>>
  BY DEF Disconnect, server, handler, sync, chat
<1>2. \A d \in Client : /\ link'[d] = IF d = c THEN "closed" ELSE link[d]
                        /\ s2c'[d] = IF d = c THEN <<>> ELSE s2c[d]
  BY <1>1, Queues DEF LifeInv, TypeOK, ClientQueues
<1>3. /\ DownFine(s2c')
      /\ \A h \in Handler, r \in Resource : AnswerSame(s2c[ClientOf[h]], s2c'[ClientOf[h]], h, r)
  <2>1. DownFine(s2c')
    BY <1>2, Queues DEF DownFine
  <2>2. \A q, h, r : AnswerSame(q, <<>>, h, r)
    BY DEF AnswerSame, AnsweredOnce, Answered
  <2> QED
    BY <1>2, <2>1, <2>2, Queues
<1>4. LinkInv' /\ \A d \in Client : Handshaking(d)' => Handshaking(d)
  BY <1>1, <1>2 DEF LifeInv, LinkInv, Handshaking
<1> QED
  BY <1>1, <1>3, <1>4, Queues, BirthKept, QuietStep

LEMMA ReceiveEnvelopeStep ==
  ASSUME LifeInv, TypeOK', NEW c \in Client, ReceiveEnvelope(c)
  PROVE  LifeInv'
<1>1. /\ Receiving(c, "action")
      /\ UNCHANGED <<phase, creating, clients, subscriptions, link, view, subscribedSessions, c2s>>
  BY DEF ReceiveEnvelope, server, handler
<1>2. /\ s2c[c] # <<>> /\ s2c' = [s2c EXCEPT ![c] = Tail(@)] /\ DownFine(s2c')
      /\ \A h \in Handler, r \in Resource : AnswerSame(s2c[ClientOf[h]], s2c'[ClientOf[h]], h, r)
  BY <1>1, Received
<1>3. LinkInv' /\ \A d \in Client : Handshaking(d)' => Handshaking(d)
  <2>1. \A d \in Client : s2c'[d] # s2c[d] => d = c
    BY <1>2, Queues DEF ClientQueues
  <2> QED
    BY <1>1, <1>2, <2>1, ReceiverIsLinked, LinkKept DEF LifeInv
<1> QED
  BY <1>1, <1>2, <1>3, Queues, BirthKept, QuietStep

\* A window that dispatches an action tells the server nothing else.
LEMMA DispatchStep ==
  ASSUME LifeInv, TypeOK', NEW h \in Handler, NEW a \in SessionAction, Dispatch(h, a),
         link[ClientOf[h]] = "open",
         UNCHANGED <<phase, creating, clients, subscriptions, link, view, subscribedSessions, s2c>>
  PROVE  LifeInv'
<1> DEFINE m == [kind |-> "dispatchAction", action |-> a, clientSeq |-> nextClientSeq[h]]
<1>1. Send(ClientOf[h], <<m>>) /\ ClientOf[h] \in Client
  BY DEF Dispatch
<1>2. m \in ToServer /\ ~IsAsk(m) /\ UpOK(ClientOf[h], m)
  <2>1. nextClientSeq[h] \in Nat
    BY DEF LifeInv, TypeOK
  <2> QED
    BY <2>1 DEF ToServer, IsAsk, UpOK, Handshaking
<1> HIDE DEF m
<1>3. /\ UpFine(c2s')
      /\ \A g \in Handler, r \in Resource : AskSame(c2s[ClientOf[g]], c2s'[ClientOf[g]], g, r)
  BY <1>1, <1>2, Sent
<1>4. LinkInv' /\ \A d \in Client : Handshaking(d)' => Handshaking(d)
  BY LinkKept DEF LifeInv
<1> QED
  BY <1>3, <1>4, Queues, BirthKept, QuietStep

----------------------------------------------------------------------------
(* The steps that move a question or its answer.                           *)

LEMMA ExchangeMoves ==
  ASSUME LifeInv, NEW h \in Handler, NEW r \in Resource, OneExchange(h, r)',
         \A g \in Handler, x \in Resource : g # h \/ x # r =>
           /\ AskSame(c2s[ClientOf[g]], c2s'[ClientOf[g]], g, x)
           /\ AnswerSame(s2c[ClientOf[g]], s2c'[ClientOf[g]], g, x)
           /\ Creating(g, x)' => Creating(g, x)
           /\ view'[g][x] = view[g][x]
  PROVE  ExchangeInv'
<1>1. ASSUME NEW g \in Handler, NEW x \in Resource, g # h \/ x # r
      PROVE  OneExchange(g, x)'
  <2>1. OneExchange(g, x)
    BY DEF LifeInv, ExchangeInv
  <2> QED
    BY <1>1, <2>1 DEF OneExchange, AskSame, AnswerSame
<1> QED
  BY <1>1 DEF ExchangeInv

\* The server has handled a request and answers it, if the client is there.
LEMMA Replied ==
  ASSUME LifeInv, NEW c \in Client, NEW m \in ToClient, DownOK(c, m),
         s2c' = IF link[c] = "closed" THEN s2c ELSE [s2c EXCEPT ![c] = Append(@, m)]
  PROVE  /\ DownFine(s2c')
         /\ \A d \in Client : s2c'[d] # s2c[d] => d = c /\ link[c] # "closed"
         /\ \A h \in Handler, r \in Resource :
              /\ ~(IsAnswer(m) /\ About(m, h, r)) =>
                   AnswerSame(s2c[ClientOf[h]], s2c'[ClientOf[h]], h, r)
              /\ ~Answered(s2c[ClientOf[h]], h, r) => AnsweredOnce(s2c'[ClientOf[h]], h, r)
<1>1. /\ DownFine(s2c) /\ s2c \in ClientQueues
      /\ \A h \in Handler, r \in Resource :
           /\ AnsweredOnce(s2c[ClientOf[h]], h, r)
           /\ AnswerSame(s2c[ClientOf[h]], s2c[ClientOf[h]], h, r)
  BY Queues DEF AnswerSame
<1>2. CASE s2c' = s2c
  BY <1>1, <1>2
<1>3. CASE link[c] # "closed" /\ s2c' = [s2c EXCEPT ![c] = Append(@, m)]
  <2> DEFINE q == [s2c EXCEPT ![c] = Append(@, m)]
  <2>1. /\ DownFine(q)
        /\ \A h \in Handler, r \in Resource : AnsweredOnce(s2c[ClientOf[h]], h, r) =>
             /\ ~(IsAnswer(m) /\ About(m, h, r)) =>
                  AnswerSame(s2c[ClientOf[h]], q[ClientOf[h]], h, r)
             /\ IsAnswer(m) /\ About(m, h, r) /\ ~Answered(s2c[ClientOf[h]], h, r) =>
                  AnsweredOnce(q[ClientOf[h]], h, r)
    BY <1>1, Answering
  <2>2. s2c' = q /\ \A d \in Client : s2c'[d] # s2c[d] => d = c
    BY <1>1, <1>3 DEF ClientQueues
  <2> HIDE DEF q
  <2>3. ASSUME NEW h \in Handler, NEW r \in Resource
        PROVE  /\ ~(IsAnswer(m) /\ About(m, h, r)) =>
                    AnswerSame(s2c[ClientOf[h]], s2c'[ClientOf[h]], h, r)
               /\ IsAnswer(m) /\ About(m, h, r) /\ ~Answered(s2c[ClientOf[h]], h, r) =>
                    AnsweredOnce(s2c'[ClientOf[h]], h, r)
    BY <1>1, <2>1, <2>2
  <2>4. ASSUME NEW h \in Handler, NEW r \in Resource, ~Answered(s2c[ClientOf[h]], h, r)
        PROVE  AnsweredOnce(s2c'[ClientOf[h]], h, r)
    BY <2>3, <2>4 DEF AnswerSame
  <2> QED
    BY <1>3, <2>1, <2>2, <2>3, <2>4
<1> QED
  BY <1>2, <1>3

LEMMA SubscribeStep ==
  ASSUME LifeInv, TypeOK', NEW c \in Client, HandleSubscribe(c)
  PROVE  LifeInv'
<1> DEFINE M == Head(c2s[c])
<1>1. /\ Handling(c, "subscribe")
      /\ Reply(c, IF Live(M.resource)
                  THEN [kind |-> "snapshot", resource |-> M.resource, handler |-> M.handler,
                        state |-> state[M.resource], fromSeq |-> serverSeq]
                  ELSE [kind |-> "notFound", resource |-> M.resource, handler |-> M.handler])
      /\ \/ subscriptions' = subscriptions
         \/ subscriptions' = [subscriptions EXCEPT ![c] = @ \cup {M.resource}]
      /\ UNCHANGED <<phase, creating, clients, link, view, subscribedSessions>>
  BY DEF HandleSubscribe, server, sync, chat
<1>2. /\ M \in ToServer /\ M.kind = "subscribe" /\ IsAsk(M) /\ UpOK(c, M) /\ UpFine(c2s')
      /\ \A g \in Handler, x \in Resource :
           /\ AskSame(c2s[ClientOf[g]], c2s'[ClientOf[g]], g, x)
           /\ About(M, g, x) => /\ ClientOf[g] = c /\ Asked(c2s[ClientOf[g]], g, x)
                                /\ ~Asked(c2s'[ClientOf[g]], g, x)
  BY <1>1, Handled DEF IsAsk
<1>3. M.handler \in Handler /\ M.resource \in Resource
  BY <1>2 DEF ToServer
<1>4. PICK h \in Handler, r \in Resource : About(M, h, r)
  BY <1>3 DEF About
<1>5. PICK answer : answer = IF Live(r)
                             THEN [kind |-> "snapshot", resource |-> r, handler |-> h,
                                   state |-> state[r], fromSeq |-> serverSeq]
                             ELSE [kind |-> "notFound", resource |-> r, handler |-> h]
  OBVIOUS
<1>6. /\ s2c' = IF link[c] = "closed" THEN s2c ELSE [s2c EXCEPT ![c] = Append(@, answer)]
      /\ \A d \in Client : d # c => subscriptions'[d] = subscriptions[d]
      /\ ClientOf[h] = c /\ r \in Serves[h] /\ ~Handshaking(c) /\ ~Unborn(r)
      /\ Asked(c2s[ClientOf[h]], h, r) /\ ~Asked(c2s'[ClientOf[h]], h, r)
  <2>1. \A d \in Client : d # c => subscriptions'[d] = subscriptions[d]
    BY <1>1 DEF LifeInv, TypeOK
  <2>2. s2c' = IF link[c] = "closed" THEN s2c ELSE [s2c EXCEPT ![c] = Append(@, answer)]
    BY <1>1, <1>4, <1>5 DEF Reply, About
  <2> QED
    BY <1>2, <1>4, <2>1, <2>2 DEF UpOK, Addressed, About
<1>7. UpFine(c2s') /\ \A g \in Handler, x \in Resource :
        AskSame(c2s[ClientOf[g]], c2s'[ClientOf[g]], g, x)
  BY <1>2
<1> HIDE DEF M
<1>8. answer \in ToClient /\ DownOK(c, answer) /\ \A g, x : About(answer, g, x) => g = h /\ x = r
  <2>2. CASE Live(r)
    <3>1. /\ answer = [kind |-> "snapshot", resource |-> r, handler |-> h,
                       state |-> state[r], fromSeq |-> serverSeq]
          /\ state[r] \in State /\ serverSeq \in Nat
      BY <1>5, <2>2 DEF LifeInv, TypeOK
    <3>2. answer \in ToClient
      BY <3>1 DEF ToClient
    <3> QED
      BY <1>6, <3>1, <3>2 DEF IsAnswer, DownOK, Addressed, About
  <2>3. CASE ~Live(r)
    <3>1. answer = [kind |-> "notFound", resource |-> r, handler |-> h]
      BY <1>5, <2>3
    <3>2. answer \in ToClient
      BY <3>1 DEF ToClient
    <3> QED
      BY <1>6, <3>1, <3>2 DEF IsAnswer, DownOK, Addressed, About
  <2> QED
    BY <2>2, <2>3
<1>9. /\ DownFine(s2c')
      /\ \A d \in Client : s2c'[d] # s2c[d] => d = c /\ link[c] # "closed"
      /\ \A g \in Handler, x \in Resource :
           /\ ~About(answer, g, x) => AnswerSame(s2c[ClientOf[g]], s2c'[ClientOf[g]], g, x)
           /\ ~Answered(s2c[ClientOf[g]], g, x) => AnsweredOnce(s2c'[ClientOf[g]], g, x)
  BY <1>6, <1>8, Replied
<1>10. LinkInv' /\ \A d \in Client : Handshaking(d)' => Handshaking(d)
  BY <1>1, <1>6, <1>9 DEF LifeInv, LinkInv, Handshaking
<1>11. MessagesInv'
  BY <1>1, <1>7, <1>9, <1>10, BirthKept, MessagesKept DEF LifeInv, MessagesInv
<1>12. ViewInv'
  BY <1>1, BirthKept DEF LifeInv, ViewInv, Handshaking
<1>13. \A g, x : Creating(g, x)' = Creating(g, x)
  BY <1>1 DEF Creating
<1>14. OneExchange(h, r)'
  <2>1. OneExchange(h, r)
    BY Queues
  <2>2. AskedOnce(c2s'[ClientOf[h]], h, r) /\ AnsweredOnce(s2c'[ClientOf[h]], h, r)
    BY <1>6, <1>7, <1>9, <2>1 DEF AskSame, OneExchange
  <2> QED
    BY <1>1, <1>6, <1>13, <2>1, <2>2 DEF OneExchange
<1>15. ExchangeInv'
  BY <1>1, <1>7, <1>8, <1>9, <1>13, <1>14, ExchangeMoves
<1> QED
  BY <1>10, <1>11, <1>12, <1>15 DEF LifeInv

LEMMA CreateSessionStep ==
  ASSUME LifeInv, TypeOK', NEW c \in Client, HandleCreateSession(c)
  PROVE  LifeInv'
<1> DEFINE M == Head(c2s[c])
<1>1. /\ Handling(c, "createSession")
      /\ creating' = creating \cup {[client |-> c, resource |-> M.resource, handler |-> M.handler]}
      /\ UNCHANGED <<phase, clients, subscriptions, link, view, subscribedSessions, s2c>>
  BY DEF HandleCreateSession, server, sync, chat
<1>2. /\ M \in ToServer /\ M.kind = "createSession" /\ IsAsk(M) /\ UpOK(c, M) /\ UpFine(c2s')
      /\ \A g \in Handler, x \in Resource :
           /\ AskSame(c2s[ClientOf[g]], c2s'[ClientOf[g]], g, x)
           /\ About(M, g, x) => /\ ClientOf[g] = c /\ Asked(c2s[ClientOf[g]], g, x)
                                /\ ~Asked(c2s'[ClientOf[g]], g, x)
  BY <1>1, Handled DEF IsAsk
<1>3. M.handler \in Handler /\ M.resource \in Resource
  BY <1>2 DEF ToServer, Resource
<1>4. PICK h \in Handler, r \in Resource : About(M, h, r)
  BY <1>3 DEF About
<1>5. PICK p : p = [client |-> c, resource |-> r, handler |-> h]
  OBVIOUS
<1>6. /\ creating' = creating \cup {p} /\ Addressed(p.client, p) /\ Unborn(p.resource)
      /\ ClientOf[h] = c /\ Asked(c2s[ClientOf[h]], h, r) /\ ~Asked(c2s'[ClientOf[h]], h, r)
      /\ \A g, x : About(p, g, x) <=> g = h /\ x = r
  BY <1>1, <1>2, <1>4, <1>5 DEF UpOK, Addressed, About
<1>7. UpFine(c2s') /\ \A g \in Handler, x \in Resource :
        AskSame(c2s[ClientOf[g]], c2s'[ClientOf[g]], g, x)
  BY <1>2
<1> HIDE DEF M
<1>8. LinkInv' /\ \A d \in Client : Handshaking(d)' => Handshaking(d)
  BY <1>1, LinkKept DEF LifeInv
<1>9. MessagesInv'
  <2>1. \A q \in creating' : Addressed(q.client, q) /\ Unborn(q.resource)
    BY <1>6 DEF LifeInv, MessagesInv
  <2>2. DownFine(s2c')
    BY <1>1, Queues
  <2> QED
    BY <1>1, <1>7, <1>8, <2>1, <2>2, BirthKept, MessagesKept
<1>10. ViewInv'
  BY <1>1, BirthKept DEF LifeInv, ViewInv, Handshaking
<1>11. \A g, x : Creating(g, x)' => Creating(g, x) \/ (g = h /\ x = r)
  BY <1>6 DEF Creating
<1>12. OneExchange(h, r)'
  <2>1. OneExchange(h, r)
    BY Queues
  <2>2. AskedOnce(c2s'[ClientOf[h]], h, r)
    BY <1>7 DEF AskSame
  <2> QED
    BY <1>1, <1>6, <2>1, <2>2 DEF OneExchange
<1>13. ExchangeInv'
  BY <1>1, <1>7, <1>11, <1>12, Queues, ExchangeMoves
<1> QED
  BY <1>8, <1>9, <1>10, <1>13 DEF LifeInv


\* A session under creation: nobody else has asked for it.
LEMMA Pending ==
  ASSUME LifeInv, NEW p \in creating
  PROVE  /\ p.client \in Client /\ p.handler \in Handler /\ p.resource \in Session
         /\ p.client = ClientOf[p.handler] /\ p.resource \in Serves[p.handler]
         /\ p.resource \in Resource /\ Unborn(p.resource) /\ ~Handshaking(p.client)
         /\ Creating(p.handler, p.resource)
         /\ view[p.handler][p.resource] \in {"creating", "subscribing"}
         /\ \A o \in creating : o.resource = p.resource => o = p
         /\ \A c \in Client : \A i \in DOMAIN c2s[c] :
              c2s[c][i].kind = "createSession" => c2s[c][i].resource # p.resource
<1>1. \A o \in creating : /\ o \in [client : Client, resource : Session, handler : Handler]
                          /\ Addressed(o.client, o) /\ Unborn(o.resource)
                          /\ o.resource \in Resource /\ Creating(o.handler, o.resource)
  BY DEF LifeInv, TypeOK, MessagesInv, Creating, About, Resource
<1>2. \A o \in creating : view[o.handler][o.resource] \in {"creating", "subscribing"}
  BY <1>1, Queues DEF OneExchange
<1>3. \A g \in Handler : view[g][p.resource] # "none" => g = p.handler
  <2>1. p.handler \in Handler /\ view[p.handler][p.resource] # "none"
    BY <1>1, <1>2
  <2> QED
    BY <1>1, <2>1 DEF LifeInv, ViewInv
<1>4. ASSUME NEW o \in creating, o.resource = p.resource
      PROVE  o = p
  <2>1. o.handler = p.handler
    BY <1>1, <1>2, <1>3, <1>4
  <2> QED
    BY <1>1, <1>4, <2>1 DEF Addressed
<1>5. ASSUME NEW c \in Client, NEW i \in DOMAIN c2s[c], c2s[c][i].kind = "createSession",
             c2s[c][i].resource = p.resource
      PROVE  FALSE
  <2> DEFINE m == c2s[c][i]
  <2>1. m \in ToServer /\ m.kind = "createSession"
    BY <1>5, Queues
  <2>2. UpOK(c, m) /\ IsAsk(m) /\ m.handler \in Handler
    BY <2>1, Queues DEF UpFine, IsAsk, ToServer
  <2>3. ClientOf[m.handler] = c /\ About(m, m.handler, p.resource)
    BY <1>5, <2>2 DEF UpOK, Addressed, About
  <2>4. Asked(c2s[ClientOf[m.handler]], m.handler, p.resource)
    BY <2>2, <2>3 DEF Asked
  <2> HIDE DEF m
  <2>5. view[m.handler][p.resource] # "none"
    BY <1>1, <2>2, <2>4, Queues DEF OneExchange
  <2>6. m.handler = p.handler
    BY <1>3, <2>2, <2>5
  <2> QED
    BY <1>1, <2>4, <2>6, Queues DEF OneExchange
<1>6. ~Handshaking(p.client)
  BY <1>1, <1>2 DEF LifeInv, ViewInv, Addressed
<1> QED
  BY <1>1, <1>2, <1>4, <1>5, <1>6 DEF Addressed

\* A created or failed session leaves the pending ones and is answered.
LEMMA PendingTaken ==
  ASSUME LifeInv, NEW p \in creating, creating' = creating \ {p},
         NEW h \in Handler, NEW r \in Resource, About(p, h, r), UNCHANGED <<c2s, view>>,
         AnsweredOnce(s2c'[ClientOf[h]], h, r),
         \A g \in Handler, x \in Resource : g # h \/ x # r =>
           AnswerSame(s2c[ClientOf[g]], s2c'[ClientOf[g]], g, x)
  PROVE  ExchangeInv'
<1>1. /\ \A g, x : Creating(g, x)' => Creating(g, x)
      /\ ~Creating(h, r)' /\ Creating(h, r)
      /\ view[h][r] \in {"creating", "subscribing"}
  BY Pending DEF Creating, About
<1>2. OneExchange(h, r)'
  BY <1>1, Queues DEF OneExchange
<1> QED
  BY <1>1, <1>2, Queues, ExchangeMoves

LEMMA CreationFailsStep ==
  ASSUME LifeInv, TypeOK', NEW p \in creating, SessionCreationFails(p)
  PROVE  LifeInv'
<1>1. PICK m : m = [kind |-> "createFailed", resource |-> p.resource, handler |-> p.handler]
  OBVIOUS
<1>2. PICK c \in Client, h \in Handler, r \in Resource :
        c = p.client /\ h = p.handler /\ r = p.resource
  BY Pending
<1>3. /\ creating' = creating \ {p}
      /\ s2c' = IF link[c] = "closed" THEN s2c ELSE [s2c EXCEPT ![c] = Append(@, m)]
      /\ UNCHANGED <<phase, clients, subscriptions, link, view, subscribedSessions, c2s>>
  BY <1>1, <1>2 DEF SessionCreationFails, Answer, server, sync, chat
<1>4. ClientOf[h] = c /\ r \in Session /\ r \in Serves[h] /\ ~Handshaking(c) /\ About(p, h, r)
      /\ Creating(h, r)
  BY <1>2, Pending DEF About
<1>5. m \in ToClient /\ DownOK(c, m) /\ \A g, x : About(m, g, x) => g = h /\ x = r
  <2>1. m \in ToClient
    BY <1>1, <1>2, <1>4 DEF ToClient
  <2> QED
    BY <1>1, <1>2, <1>4, <2>1 DEF DownOK, Addressed, IsAnswer, About
<1>6. /\ DownFine(s2c')
      /\ \A d \in Client : s2c'[d] # s2c[d] => d = c /\ link[c] # "closed"
      /\ \A g \in Handler, x \in Resource :
           /\ ~About(m, g, x) => AnswerSame(s2c[ClientOf[g]], s2c'[ClientOf[g]], g, x)
           /\ ~Answered(s2c[ClientOf[g]], g, x) => AnsweredOnce(s2c'[ClientOf[g]], g, x)
  BY <1>3, <1>5, Replied
<1>7. LinkInv' /\ \A d \in Client : Handshaking(d)' => Handshaking(d)
  BY <1>3, <1>4, <1>6 DEF LifeInv, LinkInv, Handshaking
<1>8. MessagesInv'
  BY <1>3, <1>6, <1>7, Queues, BirthKept, MessagesKept DEF LifeInv, MessagesInv
<1>9. ViewInv'
  BY <1>3, BirthKept DEF LifeInv, ViewInv, Handshaking
<1>10. ExchangeInv'
  <2>1. ~Answered(s2c[ClientOf[h]], h, r)
    BY <1>4, Queues DEF OneExchange
  <2> QED
    BY <1>3, <1>4, <1>5, <1>6, <2>1, PendingTaken
<1> QED
  BY <1>7, <1>8, <1>9, <1>10 DEF LifeInv


\* The agent created a session: its first envelope is reduced into an empty
\* state, and the answer follows.
LEMMA CreationEmits ==
  ASSUME TypeOK, NEW p \in creating, SessionCreated(p)
  PROVE  \E env \in Envelope, q \in ClientQueues, st \in [Resource -> State], m \in ToClient :
           /\ env.action = ActionOf("ready", p.resource, NoTurn) /\ env.origin = NoOrigin
           /\ env.action.resource = p.resource /\ st = [state EXCEPT ![p.resource] = InitialState]
           /\ Emits(s2c, st, serverSeq, env, q, state') /\ serverSeq' = serverSeq + 1
           /\ m = [kind |-> "created", resource |-> p.resource, handler |-> p.handler]
           /\ s2c' = IF link[p.client] = "closed" THEN q
                     ELSE [q EXCEPT ![p.client] = Append(@, m)]
<1> DEFINE a   == ActionOf("ready", p.resource, NoTurn)
           env == [action |-> a, serverSeq |-> serverSeq + 1, origin |-> NoOrigin]
           m   == [kind |-> "created", resource |-> p.resource, handler |-> p.handler]
           st  == [state EXCEPT ![p.resource] = InitialState]
           q   == Deliver(s2c, env)
<1>1. /\ p.resource \in Session /\ p.handler \in Handler /\ p.resource \in Resource
      /\ serverSeq \in Nat /\ state \in [Resource -> State] /\ s2c \in ClientQueues
  BY DEF TypeOK, Resource, ClientQueues
<1>2. /\ env \in Envelope /\ env.serverSeq = serverSeq + 1 /\ env.action = a
      /\ a.resource = p.resource /\ env.origin = NoOrigin
  BY <1>1, ActionTypes DEF Envelope, Action, Origin, ActionOf
<1>3. m \in ToClient
  BY <1>1 DEF ToClient
<1>4. /\ st \in [Resource -> State]
      /\ \A r \in Resource : st[r] = IF r = p.resource THEN InitialState ELSE state[r]
  BY <1>1, InitialStateType
<1>5. /\ serverSeq' = serverSeq + 1
      /\ state' = [state EXCEPT ![p.resource] = Reduce(InitialState, a, serverSeq + 1)]
      /\ s2c' = IF link[p.client] = "closed" THEN q
                ELSE [q EXCEPT ![p.client] = Append(@, m)]
  BY DEF SessionCreated, Answer
<1> HIDE DEF a, env
<1>6. /\ Reduce(InitialState, a, serverSeq + 1) \in State
      /\ Reduce(InitialState, a, serverSeq + 1).entries
           = Append(InitialState.entries, EnvelopeEntry(env))
  BY <1>2, InitialStateType, ReduceIs
<1>7. /\ state' \in [Resource -> State]
      /\ \A r \in Resource : state'[r] = IF r = p.resource
                                         THEN Reduce(InitialState, a, serverSeq + 1) ELSE state[r]
  BY <1>1, <1>5, <1>6
<1> HIDE DEF st
<1>8. Emits(s2c, st, serverSeq, env, q, state')
  BY <1>1, <1>2, <1>4, <1>6, <1>7 DEF Emits
<1>9. q \in ClientQueues
  BY <1>1, <1>2, DeliverType
<1> QED
  BY <1>2, <1>3, <1>4, <1>5, <1>8, <1>9 DEF st, a

LEMMA SessionCreatedStep ==
  ASSUME LifeInv, TypeOK', NEW p \in creating, SessionCreated(p)
  PROVE  LifeInv'
<1>1. PICK env \in Envelope, q \in ClientQueues, st \in [Resource -> State], m \in ToClient :
        /\ Emits(s2c, st, serverSeq, env, q, state')
        /\ m = [kind |-> "created", resource |-> p.resource, handler |-> p.handler]
        /\ s2c' = IF link[p.client] = "closed" THEN q
                  ELSE [q EXCEPT ![p.client] = Append(@, m)]
  BY CreationEmits DEF LifeInv
<1>2. PICK c \in Client, h \in Handler, r \in Session :
        c = p.client /\ h = p.handler /\ r = p.resource
  BY Pending
<1>3. /\ creating' = creating \ {p} /\ phase' = [phase EXCEPT ![r] = "live"]
      /\ UNCHANGED <<clients, subscriptions, link, view, subscribedSessions, c2s>>
  BY <1>2 DEF SessionCreated, sync, chat
<1>4. /\ ClientOf[h] = c /\ r \in Resource /\ r \in Serves[h] /\ ~Handshaking(c)
      /\ About(p, h, r) /\ Creating(h, r)
      /\ \A o \in creating : o.resource = r => o = p
      /\ \A d \in Client : \A i \in DOMAIN c2s[d] :
           c2s[d][i].kind = "createSession" => c2s[d][i].resource # r
  BY <1>2, Pending DEF About
<1>5. /\ IsAnswer(m) /\ m.kind = "created" /\ Addressed(c, m) /\ m.resource = r
      /\ \A g, x : About(m, g, x) => g = h /\ x = r
  BY <1>1, <1>2, <1>4 DEF Addressed, IsAnswer, About
<1>6. \A x : Unborn(x)' <=> Unborn(x) /\ x # r
  BY <1>3 DEF Unborn, LifeInv, TypeOK
<1>7. /\ DownFine(q)
      /\ \A g \in Handler, x \in Resource : AnswerSame(s2c[ClientOf[g]], q[ClientOf[g]], g, x)
      /\ \A d \in Client : q[d] # s2c[d] => link[d] # "closed" /\ d \in clients
  <2>1. \A g \in Handler, x \in Resource : AnsweredOnce(s2c[ClientOf[g]], g, x)
    BY Queues DEF AnswerSame
  <2> QED
    BY <1>1, <2>1, Queues, EmitsQuietly DEF LifeInv
<1>8. \A d \in Client : /\ q[d] \in Seq(ToClient)
                        /\ \/ s2c'[d] = q[d]
                           \/ d = c /\ link[c] # "closed" /\ s2c'[d] = Append(q[d], m)
  BY <1>1, <1>2 DEF ClientQueues
<1>9. LinkInv' /\ \A d \in Client : Handshaking(d)' = Handshaking(d)
  BY <1>3, <1>4, <1>7, <1>8 DEF LifeInv, LinkInv, Handshaking
<1>10. MessagesInv'
  <2>1. ASSUME NEW d \in Client, NEW i \in DOMAIN c2s[d]
        PROVE  UpOK(d, c2s[d][i])'
    <3>1. UpOK(d, c2s[d][i])
      BY Queues DEF UpFine
    <3> QED
      BY <1>3, <1>4, <1>6, <1>9, <3>1 DEF UpOK, Addressed
  <2>2. ASSUME NEW d \in Client, NEW i \in DOMAIN s2c'[d]
        PROVE  DownOK(d, s2c[d][i])'
    <3>1. \/ i \in DOMAIN q[d] /\ s2c'[d][i] = q[d][i]
          \/ d = c /\ s2c'[d][i] = m
      <4>1. CASE s2c'[d] = q[d]
        BY <2>2, <4>1
      <4>2. CASE d = c /\ s2c'[d] = Append(q[d], m)
        BY <1>8, <2>2, <4>2, AppendIs
      <4> QED
        BY <1>8, <4>1, <4>2
    <3>2. CASE i \in DOMAIN q[d] /\ s2c'[d][i] = q[d][i]
      <4>1. DownOK(d, q[d][i])
        BY <1>7, <3>2 DEF DownFine
      <4> QED
        BY <1>6, <1>9, <3>2, <4>1 DEF DownOK, Addressed
    <3>3. CASE d = c /\ s2c'[d][i] = m
      BY <1>4, <1>5, <1>6, <1>9, <3>3 DEF DownOK, Addressed
    <3> QED
      BY <3>1, <3>2, <3>3
  <2>3. \A o \in creating' : (Addressed(o.client, o) /\ Unborn(o.resource))'
    BY <1>3, <1>4, <1>6 DEF LifeInv, MessagesInv, Addressed
  <2> QED
    BY <1>3, <2>1, <2>2, <2>3 DEF MessagesInv
<1>11. ViewInv'
  BY <1>3, <1>6, <1>9 DEF LifeInv, ViewInv
<1>12. ExchangeInv'
  <2>1. ASSUME NEW g \in Handler, NEW x \in Resource
        PROVE  /\ g # h \/ x # r => AnswerSame(s2c[ClientOf[g]], s2c'[ClientOf[g]], g, x)
               /\ g = h /\ x = r => AnsweredOnce(s2c'[ClientOf[g]], g, x)
    <3>1. AnswerSame(s2c[ClientOf[g]], q[ClientOf[g]], g, x)
      BY <1>7
    <3>2. CASE s2c'[ClientOf[g]] = q[ClientOf[g]]
      BY <3>1, <3>2 DEF AnswerSame
    <3>3. CASE s2c'[ClientOf[g]] = Append(q[ClientOf[g]], m)
      <4>1. /\ ~About(m, g, x) =>
                 /\ AnsweredOnce(s2c'[ClientOf[g]], g, x)
                 /\ Answered(s2c'[ClientOf[g]], g, x) => Answered(q[ClientOf[g]], g, x)
            /\ ~Answered(q[ClientOf[g]], g, x) => AnsweredOnce(s2c'[ClientOf[g]], g, x)
        BY <1>8, <3>1, <3>3, AnswerQueued DEF AnswerSame
      <4>2. ~Answered(s2c[ClientOf[h]], h, r)
        BY <1>4, Queues DEF OneExchange
      <4> QED
        BY <1>5, <3>1, <4>1, <4>2 DEF AnswerSame
    <3> QED
      BY <1>8, <3>2, <3>3
  <2> QED
    BY <1>3, <1>4, <2>1, PendingTaken
<1> QED
  BY <1>9, <1>10, <1>11, <1>12 DEF LifeInv

\* A window moves its view of a resource: it asks, or has the answer.
LEMMA ViewStep ==
  ASSUME LifeInv, TypeOK', NEW h \in Handler, NEW r \in Resource,
         NEW v \in {"none", "creating", "subscribing", "open"}, SetView(h, r, v),
         UNCHANGED <<phase, creating, link, clients, subscriptions>>,
         UpFine(c2s'), DownFine(s2c'),
         \A g \in Handler, x \in Resource : g # h \/ x # r =>
           /\ AskSame(c2s[ClientOf[g]], c2s'[ClientOf[g]], g, x)
           /\ AnswerSame(s2c[ClientOf[g]], s2c'[ClientOf[g]], g, x),
         ~Creating(h, r), ~Answered(s2c'[ClientOf[h]], h, r),
         AskedOnce(c2s'[ClientOf[h]], h, r),
         Asked(c2s'[ClientOf[h]], h, r) => v \in {"creating", "subscribing"},
         v # "none" => r \in Serves[h] /\ ~Handshaking(ClientOf[h]),
         Unborn(r) => /\ v \in {"none", "creating"}
                      /\ v = "creating" => \A g \in Handler : view[g][r] = "none",
         \A g \in Handler : \A x \in subscribedSessions'[g] :
           (g = h /\ x = r /\ v = "open") \/ ((g # h \/ x # r) /\ x \in subscribedSessions[g]),
         \A d \in Client : s2c'[d] # s2c[d] => link[d] # "closed" /\ d \in clients
  PROVE  LifeInv'
<1>1. \A g \in Handler, x \in Resource :
        view'[g][x] = IF g = h /\ x = r THEN v ELSE view[g][x]
  <2>1. view \in [Handler -> [Resource -> {"none", "creating", "subscribing", "open"}]]
    BY DEF LifeInv, TypeOK
  <2> QED
    BY <2>1 DEF SetView
<1>2. LinkInv' /\ \A d \in Client : Handshaking(d)' => Handshaking(d)
  BY LinkKept DEF LifeInv
<1>3. MessagesInv'
  BY <1>2, BirthKept, MessagesKept DEF LifeInv, MessagesInv
<1>4. ViewInv'
  <2>1. /\ \A d \in Client : Handshaking(d)' = Handshaking(d)
        /\ \A x : Unborn(x)' = Unborn(x)
        /\ subscribedSessions' \in [Handler -> SUBSET Resource]
    BY BirthKept DEF Handshaking, TypeOK
  <2>2. \A g \in Handler : \A x \in subscribedSessions'[g] : view'[g][x] = "open"
    BY <1>1, <2>1 DEF LifeInv, ViewInv
  <2>3. \A g \in Handler, x \in Resource :
          view'[g][x] # "none" => x \in Serves[g] /\ ~Handshaking(ClientOf[g])'
    BY <1>1, <2>1 DEF LifeInv, ViewInv
  <2>4. \A g \in Handler, x \in Resource : Unborn(x) => view'[g][x] \in {"none", "creating"}
    BY <1>1 DEF LifeInv, ViewInv
  <2>5. \A f, g \in Handler, x \in Resource :
          Unborn(x) /\ f # g => view'[f][x] = "none" \/ view'[g][x] = "none"
    BY <1>1 DEF LifeInv, ViewInv
  <2> QED
    BY <2>1, <2>2, <2>3, <2>4, <2>5 DEF ViewInv
<1>5. \A g, x : Creating(g, x)' = Creating(g, x)
  BY DEF Creating
<1>6. OneExchange(h, r)'
  <2>1. AnsweredOnce(s2c'[ClientOf[h]], h, r)
    BY DEF Answered, AnsweredOnce
  <2> QED
    BY <1>1, <1>5, <2>1 DEF OneExchange
<1>7. ExchangeInv'
  BY <1>1, <1>5, <1>6, ExchangeMoves
<1> QED
  BY <1>2, <1>3, <1>4, <1>7 DEF LifeInv


\* The window takes an answer to a question it asked.
LEMMA Taken ==
  ASSUME LifeInv, NEW c \in Client, NEW kind, Receiving(c, kind),
         kind \in {"created", "createFailed", "snapshot", "notFound"}
  PROVE  \E h \in Handler, r \in Resource :
           /\ About(Head(s2c[c]), h, r) /\ Head(s2c[c]) \in ToClient /\ Head(s2c[c]).kind = kind
           /\ ClientOf[h] = c /\ r \in Serves[h] /\ view[h][r] \in {"creating", "subscribing"}
           /\ ~Handshaking(c) /\ r \notin subscribedSessions[h]
           /\ kind # "createFailed" => ~Unborn(r)
           /\ ~Creating(h, r) /\ ~Asked(c2s[ClientOf[h]], h, r)
           /\ ~Answered(s2c'[ClientOf[h]], h, r) /\ DownFine(s2c')
           /\ \A d \in Client : s2c'[d] # s2c[d] => link[d] # "closed" /\ d \in clients
<1> DEFINE M == Head(s2c[c])
<1>1. /\ M \in ToClient /\ M.kind = kind /\ DownOK(c, M) /\ IsAnswer(M) /\ DownFine(s2c')
      /\ s2c[c] # <<>> /\ s2c' = [s2c EXCEPT ![c] = Tail(@)]
      /\ \A h \in Handler, r \in Resource :
           About(M, h, r) => /\ ClientOf[h] = c /\ Answered(s2c[ClientOf[h]], h, r)
                             /\ ~Answered(s2c'[ClientOf[h]], h, r)
  BY Received DEF IsAnswer
<1>2. M.handler \in Handler /\ M.resource \in Resource
  BY <1>1 DEF ToClient, Resource
<1>3. PICK h \in Handler, r \in Resource : About(M, h, r)
  BY <1>2 DEF About
<1>4. \A d \in Client : s2c'[d] # s2c[d] => link[d] # "closed" /\ d \in clients
  <2>1. \A d \in Client : s2c'[d] # s2c[d] => d = c
    BY <1>1, Queues DEF ClientQueues
  <2> QED
    BY <1>1, <2>1, ReceiverIsLinked
<1>5. /\ ClientOf[h] = c /\ Answered(s2c[ClientOf[h]], h, r)
      /\ ~Answered(s2c'[ClientOf[h]], h, r)
  BY <1>1, <1>3
<1>6. /\ r \in Serves[h]
      /\ kind # "createFailed" => ~Unborn(r)
  BY <1>1, <1>3 DEF DownOK, Addressed, About
<1>7. /\ view[h][r] \in {"creating", "subscribing"}
      /\ ~Creating(h, r) /\ ~Asked(c2s[ClientOf[h]], h, r)
  BY <1>5, Queues DEF OneExchange
<1>8. r \notin subscribedSessions[h] /\ ~Handshaking(c)
  BY <1>5, <1>7 DEF LifeInv, ViewInv
<1> QED
  BY <1>1, <1>3, <1>4, <1>5, <1>6, <1>7, <1>8

\* ... and asks nothing more.
LEMMA AnswerTakenStep ==
  ASSUME LifeInv, TypeOK', NEW c \in Client, NEW kind, Receiving(c, kind),
         kind \in {"createFailed", "snapshot", "notFound"},
         NEW v \in {"none", "open"}, kind = "createFailed" => v = "none",
         SetView(Head(s2c[c]).handler, Head(s2c[c]).resource, v),
         UNCHANGED <<phase, creating, link, clients, subscriptions, c2s>>,
         \A g \in Handler : \A x \in subscribedSessions'[g] :
           x \in subscribedSessions[g] \/ (v = "open" /\ About(Head(s2c[c]), g, x))
  PROVE  LifeInv'
<1>1. PICK h \in Handler, r \in Resource :
        /\ About(Head(s2c[c]), h, r)
        /\ ClientOf[h] = c /\ r \in Serves[h] /\ ~Handshaking(c) /\ r \notin subscribedSessions[h]
        /\ kind # "createFailed" => ~Unborn(r)
        /\ ~Creating(h, r) /\ ~Asked(c2s[ClientOf[h]], h, r)
        /\ ~Answered(s2c'[ClientOf[h]], h, r) /\ DownFine(s2c')
        /\ \A d \in Client : s2c'[d] # s2c[d] => link[d] # "closed" /\ d \in clients
  BY Taken
<1>2. SetView(h, r, v)
  BY <1>1 DEF About
<1>3. \A g \in Handler : \A x \in subscribedSessions'[g] :
        (g = h /\ x = r /\ v = "open") \/ ((g # h \/ x # r) /\ x \in subscribedSessions[g])
  BY <1>1 DEF About
<1>4. \A g \in Handler, x \in Resource : AnswerSame(s2c[ClientOf[g]], s2c'[ClientOf[g]], g, x)
  BY Received
<1> QED
  BY <1>1, <1>2, <1>3, <1>4, Queues, ViewStep DEF OneExchange

LEMMA CreateThrowsStep ==
  ASSUME LifeInv, TypeOK', NEW c \in Client, SessionCreateThrows(c)
  PROVE  LifeInv'
BY AnswerTakenStep DEF SessionCreateThrows, server, handler, sync

LEMMA SubscribeFailsStep ==
  ASSUME LifeInv, TypeOK', NEW c \in Client, SubscribeFails(c)
  PROVE  LifeInv'
BY AnswerTakenStep DEF SubscribeFails, server, handler, sync

LEMMA SnapshotStep ==
  ASSUME LifeInv, TypeOK', NEW c \in Client, HandleSnapshot(c)
  PROVE  LifeInv'
<1>1. /\ Receiving(c, "snapshot")
      /\ SetView(Head(s2c[c]).handler, Head(s2c[c]).resource, "open")
      /\ UNCHANGED <<phase, creating, link, clients, subscriptions, c2s>>
      /\ subscribedSessions' = [subscribedSessions EXCEPT
           ![Head(s2c[c]).handler] = @ \cup {Head(s2c[c]).resource}]
  BY DEF HandleSnapshot, server, handler
<1>2. \A g \in Handler : \A x \in subscribedSessions'[g] :
        x \in subscribedSessions[g] \/ About(Head(s2c[c]), g, x)
  BY <1>1 DEF About, LifeInv, TypeOK
<1> QED
  BY <1>1, <1>2, AnswerTakenStep

\* The window asks the next question.
LEMMA QuestionStep ==
  ASSUME LifeInv, TypeOK', NEW h \in Handler, NEW r \in Resource, NEW m \in ToServer,
         IsAsk(m), About(m, h, r), UpOK(ClientOf[h], m), Send(ClientOf[h], <<m>>),
         NEW v \in {"creating", "subscribing"}, SetView(h, r, v),
         UNCHANGED <<phase, creating, link, clients, subscriptions, subscribedSessions>>,
         r \notin subscribedSessions[h], r \in Serves[h], ~Handshaking(ClientOf[h]),
         Unborn(r) => v = "creating" /\ \A g \in Handler : view[g][r] = "none",
         ~Creating(h, r), ~Asked(c2s[ClientOf[h]], h, r), ~Answered(s2c'[ClientOf[h]], h, r),
         DownFine(s2c'),
         \A g \in Handler, x \in Resource : AnswerSame(s2c[ClientOf[g]], s2c'[ClientOf[g]], g, x),
         \A d \in Client : s2c'[d] # s2c[d] => link[d] # "closed" /\ d \in clients
  PROVE  LifeInv'
<1>1. /\ UpFine(c2s')
      /\ \A g \in Handler, x \in Resource :
           ~About(m, g, x) => AskSame(c2s[ClientOf[g]], c2s'[ClientOf[g]], g, x)
      /\ AskedOnce(c2s'[ClientOf[h]], h, r)
  BY Sent
<1>2. \A g \in Handler, x \in Resource : g # h \/ x # r => ~About(m, g, x)
  BY DEF About
<1>3. \A g \in Handler : \A x \in subscribedSessions'[g] :
        (g # h \/ x # r) /\ x \in subscribedSessions[g]
  OBVIOUS
<1> QED
  BY <1>1, <1>2, <1>3, ViewStep

LEMMA CreateReturnsStep ==
  ASSUME LifeInv, TypeOK', NEW c \in Client, SessionCreateReturns(c)
  PROVE  LifeInv'
<1>1. /\ Receiving(c, "created")
      /\ UNCHANGED <<phase, creating, link, clients, subscriptions, subscribedSessions>>
  BY DEF SessionCreateReturns, server, handler, sync
<1>2. PICK h \in Handler, r \in Resource :
        /\ About(Head(s2c[c]), h, r)
        /\ ClientOf[h] = c /\ r \in Serves[h] /\ ~Handshaking(c) /\ r \notin subscribedSessions[h]
        /\ ~Unborn(r) /\ ~Creating(h, r) /\ ~Asked(c2s[ClientOf[h]], h, r)
        /\ ~Answered(s2c'[ClientOf[h]], h, r) /\ DownFine(s2c')
        /\ \A d \in Client : s2c'[d] # s2c[d] => link[d] # "closed" /\ d \in clients
  BY <1>1, Taken
<1>3. PICK m \in ToServer : m = [kind |-> "subscribe", resource |-> r, handler |-> h]
  BY DEF ToServer
<1>4. SetView(h, r, "subscribing") /\ Send(ClientOf[h], <<m>>)
  BY <1>2, <1>3 DEF SessionCreateReturns, About
<1>5. IsAsk(m) /\ About(m, h, r) /\ UpOK(ClientOf[h], m)
  BY <1>2, <1>3 DEF IsAsk, About, UpOK, Addressed
<1>6. \A g \in Handler, x \in Resource : AnswerSame(s2c[ClientOf[g]], s2c'[ClientOf[g]], g, x)
  BY <1>1, Received
<1> QED
  BY <1>1, <1>2, <1>4, <1>5, <1>6, QuestionStep

LEMMA OpenExistingStep ==
  ASSUME LifeInv, TypeOK', NEW h \in Handler, NEW r \in Resource, OpenExisting(h, r)
  PROVE  LifeInv'
<1>1. PICK m \in ToServer : m = [kind |-> "subscribe", resource |-> r, handler |-> h]
  BY DEF ToServer
<1>2. /\ link[ClientOf[h]] = "open" /\ view[h][r] = "none" /\ r \in Serves[h]
      /\ SetView(h, r, "subscribing") /\ Send(ClientOf[h], <<m>>) /\ ~Unborn(r)
      /\ UNCHANGED <<phase, creating, link, clients, subscriptions, subscribedSessions, s2c>>
  BY <1>1 DEF OpenExisting, server, handler, sync, Unborn
<1>3. IsAsk(m) /\ About(m, h, r) /\ UpOK(ClientOf[h], m) /\ ~Handshaking(ClientOf[h])
  BY <1>1, <1>2 DEF IsAsk, About, UpOK, Addressed, Handshaking
<1>4. r \notin subscribedSessions[h]
  BY <1>2 DEF LifeInv, ViewInv
<1> QED
  BY <1>2, <1>3, <1>4, Queues, QuestionStep DEF OneExchange

LEMMA AskToCreateStep ==
  ASSUME LifeInv, TypeOK', NEW h \in Handler, NEW s \in Session, CreateSession(h, s)
  PROVE  LifeInv'
<1>1. PICK m \in ToServer : m = [kind |-> "createSession", resource |-> s, handler |-> h]
  BY DEF ToServer
<1>2. /\ link[ClientOf[h]] = "open" /\ s \in Serves[h] /\ s \in Resource
      /\ \A g \in Handler : view[g][s] = "none"
      /\ SetView(h, s, "creating") /\ Send(ClientOf[h], <<m>>) /\ Unborn(s)
      /\ UNCHANGED <<phase, creating, link, clients, subscriptions, subscribedSessions, s2c>>
  BY <1>1 DEF CreateSession, server, handler, sync, Unborn, Resource
<1>3. IsAsk(m) /\ About(m, h, s) /\ UpOK(ClientOf[h], m) /\ ~Handshaking(ClientOf[h])
  BY <1>1, <1>2 DEF IsAsk, About, UpOK, Addressed, Handshaking
<1>4. s \notin subscribedSessions[h]
  BY <1>2 DEF LifeInv, ViewInv
<1> QED
  BY <1>2, <1>3, <1>4, Queues, QuestionStep DEF OneExchange

LEMMA CloseSessionStep ==
  ASSUME LifeInv, TypeOK', NEW h \in Handler, NEW s \in Session, CloseSession(h, s)
  PROVE  LifeInv'
<1>1. PICK a \in ToServer : a = [kind |-> "unsubscribe", resource |-> s]
  BY DEF ToServer
<1>2. PICK b \in ToServer : b = [kind |-> "disposeSession", resource |-> s]
  BY DEF ToServer
<1>3. PICK c \in Client : c = ClientOf[h]
  OBVIOUS
<1>4. /\ link[c] = "open" /\ view[h][s] = "open" /\ s \in Resource
      /\ SetView(h, s, "none") /\ Send(c, <<a, b>>)
      /\ subscribedSessions' = [subscribedSessions EXCEPT ![h] = @ \ {s}]
      /\ UNCHANGED <<phase, creating, link, clients, subscriptions, s2c>>
  BY <1>1, <1>2, <1>3 DEF CloseSession, server, handler, Resource
<1>5. UpOK(c, a) /\ UpOK(c, b) /\ ~IsAsk(a) /\ ~IsAsk(b)
  BY <1>1, <1>2, <1>4 DEF IsAsk, UpOK, Handshaking
<1>6. /\ UpFine(c2s')
      /\ \A g \in Handler, x \in Resource : AskSame(c2s[ClientOf[g]], c2s'[ClientOf[g]], g, x)
  <2> DEFINE q == [c2s EXCEPT ![c] = Append(@, a)]
             p == [q EXCEPT ![c] = Append(@, b)]
  <2>1. c2s' = p
    <3>1. c2s[c] \o <<a, b>> = Append(Append(c2s[c], a), b)
      BY Queues, ConcatIs
    <3>2. c2s' = [c2s EXCEPT ![c] = Append(Append(c2s[c], a), b)]
      BY <1>4, <3>1 DEF Send
    <3> QED
      BY <3>2, Queues DEF ServerQueues
  <2>2. /\ q \in ServerQueues /\ UpFine(q)
        /\ \A g \in Handler, x \in Resource : AskSame(c2s[ClientOf[g]], q[ClientOf[g]], g, x)
    BY <1>5, Queues, Sending DEF AskSame
  <2> HIDE DEF q
  <2>3. \A g \in Handler, x \in Resource : AskedOnce(q[ClientOf[g]], g, x)
    BY <2>2 DEF AskSame
  <2>4. /\ UpFine(p)
        /\ \A g \in Handler, x \in Resource : AskSame(q[ClientOf[g]], p[ClientOf[g]], g, x)
    BY <1>5, <2>2, <2>3, Sending
  <2> HIDE DEF p
  <2> QED
    BY <2>1, <2>2, <2>4 DEF AskSame
<1>7. \A g \in Handler : \A x \in subscribedSessions'[g] :
        (g # h \/ x # s) /\ x \in subscribedSessions[g]
  BY <1>4 DEF LifeInv, TypeOK
<1>8. ~Creating(h, s) /\ ~Asked(c2s'[ClientOf[h]], h, s) /\ ~Answered(s2c'[ClientOf[h]], h, s)
      /\ AskedOnce(c2s'[ClientOf[h]], h, s)
  BY <1>4, <1>6, Queues DEF OneExchange, AskSame
<1> QED
  BY <1>4, <1>6, <1>7, <1>8, Queues, ViewStep

LEMMA StartTurnStep ==
  ASSUME LifeInv, TypeOK', NEW h \in Handler, NEW s \in Session, NEW t \in Turn, StartTurn(h, s, t)
  PROVE  LifeInv'
<1>1. ActionOf("turnStarted", s, t) \in SessionAction
  BY ActionTypes
<1> QED
  BY <1>1, DispatchStep DEF StartTurn, server, handler

LEMMA CancelTurnStep ==
  ASSUME LifeInv, TypeOK', NEW h \in Handler, NEW s \in Session, CancelTurn(h, s)
  PROVE  LifeInv'
<1>1. running[h][s] \in Turn
  BY DEF LifeInv, TypeOK, CancelTurn
<1>2. ActionOf("turnCancelled", s, running[h][s]) \in SessionAction
  BY <1>1, ActionTypes DEF TurnEnd
<1> QED
  BY <1>2, DispatchStep DEF CancelTurn, server, handler

LEMMA LifeStep == LifeInv /\ [Next]_vars => LifeInv'
<1> SUFFICES ASSUME LifeInv, [Next]_vars
             PROVE  LifeInv'
  OBVIOUS
<1>1. TypeOK'
  BY TypeStep DEF LifeInv
<1>2. ASSUME NEW c \in Client, HandleMessage(c)
      PROVE  LifeInv'
  BY <1>1, <1>2, InitializeStep, SubscribeStep, UnsubscribeStep, DispatchActionStep,
     CreateSessionStep, DisposeStep DEF HandleMessage
<1>3. ASSUME NEW c \in Client, ReceiveMessage(c)
      PROVE  LifeInv'
  BY <1>1, <1>3, InitializedStep, CreateReturnsStep, CreateThrowsStep, SnapshotStep,
     SubscribeFailsStep, ReceiveEnvelopeStep DEF ReceiveMessage
<1>4. ASSUME NEW c \in Client, Connect(c) \/ Disconnect(c) \/ HandleClose(c)
      PROVE  LifeInv'
  BY <1>1, <1>4, ConnectStep, DisconnectStep, CloseStep
<1>5. ASSUME NEW p \in creating, SessionCreated(p) \/ SessionCreationFails(p)
      PROVE  LifeInv'
  BY <1>1, <1>5, SessionCreatedStep, CreationFailsStep
<1>6. ASSUME NEW h \in Handler, NEW s \in Session,
             CreateSession(h, s) \/ CloseSession(h, s) \/ CancelTurn(h, s)
      PROVE  LifeInv'
  BY <1>1, <1>6, AskToCreateStep, CloseSessionStep, CancelTurnStep
<1>7. CASE UNCHANGED vars
  BY <1>1, <1>7, Queues, BirthKept, LinkKept, QuietStep
     DEF vars, server, handler, net, sync, chat, LifeInv
<1> QED
  BY <1>1, <1>2, <1>3, <1>4, <1>5, <1>6, <1>7, IdleStep, OpenExistingStep, StartTurnStep DEF Next

LEMMA LifeInit == Init => LifeInv
<1> SUFFICES ASSUME Init
             PROVE  LifeInv
  OBVIOUS
<1>1. TypeOK
  BY InitialStateType DEF Init, TypeOK
<1>2. ExchangeInv
  BY DEF Init, ExchangeInv, OneExchange, AskedOnce, AnsweredOnce, Asked, Answered, Creating
<1>3. MessagesInv /\ LinkInv /\ ViewInv
  BY DEF Init, MessagesInv, LinkInv, ViewInv, Handshaking
<1> QED
  BY <1>1, <1>2, <1>3 DEF LifeInv


----------------------------------------------------------------------------
(* Who copies a resource, and when the server gives up on it.              *)

HasSnapshot(q, r) == \E i \in DOMAIN q : q[i].kind = "snapshot" /\ q[i].resource = r
Holds(c, r) ==
  \/ \E h \in Handler : ClientOf[h] = c /\ r \in subscribedSessions[h]
  \/ HasSnapshot(s2c[c], r)

Disposes(m, r) == m.kind = "disposeSession" /\ m.resource = r
Disposed(q, r) == \E i \in DOMAIN q : Disposes(q[i], r)

Subscribes(q, r) == \E i \in DOMAIN q : q[i].kind = "subscribe" /\ q[i].resource = r

(* What a window takes back it has disposed right after, and it asks for   *)
(* nothing it is about to dispose.                                         *)
Orderly(q) ==
  /\ \A i \in DOMAIN q :
       q[i].kind = "unsubscribe" => i + 1 \in DOMAIN q /\ Disposes(q[i + 1], q[i].resource)
  /\ \A i, j \in DOMAIN q :
       q[i].kind = "subscribe" /\ i < j => ~Disposes(q[j], q[i].resource)

HoldersAreSubscribed ==
  \A c \in Client, r \in Resource :
    link[c] = "open" /\ Live(r) /\ Holds(c, r) =>
      r \in subscriptions[c] /\ ~Disposed(c2s[c], r)

HoldersInv == LifeInv /\ (\A c \in Client : Orderly(c2s[c])) /\ HoldersAreSubscribed

LEMMA OrderlyTaken ==
  ASSUME NEW q \in Seq(ToServer), q # <<>>, Orderly(q)
  PROVE  /\ Orderly(Tail(q))
         /\ \A r : Disposed(Tail(q), r) => Disposed(q, r)
         /\ Head(q).kind = "unsubscribe" => Disposed(q, Head(q).resource)
         /\ Head(q).kind = "subscribe" => ~Disposed(Tail(q), Head(q).resource)
<1> DEFINE t == Tail(q)
<1>1. /\ Len(q) \in Nat /\ Len(t) = Len(q) - 1 /\ DOMAIN q = 1 .. Len(q) /\ DOMAIN t = 1 .. Len(t)
      /\ Head(q) = q[1] /\ 1 \in DOMAIN q /\ t \in Seq(ToServer)
      /\ \A i \in DOMAIN t : i \in Nat \ {0} /\ i + 1 \in DOMAIN q /\ t[i] = q[i + 1]
  BY TailIs
<1> HIDE DEF t
<1>2. ASSUME NEW i \in DOMAIN t, t[i].kind = "unsubscribe"
      PROVE  i + 1 \in DOMAIN t /\ Disposes(t[i + 1], t[i].resource)
  <2>1. i \in Nat /\ i + 1 \in DOMAIN q /\ t[i] = q[i + 1]
    BY <1>1, <1>2
  <2>2. i + 1 + 1 \in DOMAIN q /\ Disposes(q[i + 1 + 1], q[i + 1].resource)
    BY <1>2, <2>1 DEF Orderly
  <2>3. i + 1 \in DOMAIN t
    BY <1>1, <2>1, <2>2
  <2> QED
    BY <1>1, <2>1, <2>2, <2>3
<1>3. ASSUME NEW i \in DOMAIN t, NEW j \in DOMAIN t, t[i].kind = "subscribe", i < j
      PROVE  ~Disposes(t[j], t[i].resource)
  BY <1>1, <1>3 DEF Orderly
<1>4. \A r : Disposed(t, r) => Disposed(q, r)
  BY <1>1 DEF Disposed
<1>5. Head(q).kind = "unsubscribe" => Disposed(q, Head(q).resource)
  BY <1>1 DEF Orderly, Disposed
<1>6. ASSUME Head(q).kind = "subscribe", NEW i \in DOMAIN t
      PROVE  ~Disposes(t[i], Head(q).resource)
  <2>1. i + 1 \in DOMAIN q /\ t[i] = q[i + 1] /\ 1 < i + 1 /\ Head(q) = q[1] /\ 1 \in DOMAIN q
    BY <1>1
  <2> QED
    BY <1>6, <2>1 DEF Orderly
<1> QED
  BY <1>2, <1>3, <1>4, <1>5, <1>6 DEF Orderly, Disposed, t

LEMMA OrderlyQueued ==
  ASSUME NEW q \in Seq(ToServer), Orderly(q), NEW m \in ToServer,
         m.kind \notin {"unsubscribe", "disposeSession"}
  PROVE  Orderly(Append(q, m)) /\ \A r : Disposed(Append(q, m), r) => Disposed(q, r)
<1> DEFINE a == Append(q, m)
<1>1. /\ Len(q) \in Nat /\ DOMAIN q = 1 .. Len(q) /\ DOMAIN a = 1 .. Len(q) + 1
      /\ \A i \in DOMAIN q : a[i] = q[i]
      /\ a[Len(q) + 1] = m
  BY AppendIs
<1> HIDE DEF a
<1>2. \A r : ~Disposes(m, r)
  BY DEF Disposes
<1>3. ASSUME NEW i \in DOMAIN a, a[i].kind = "unsubscribe"
      PROVE  i + 1 \in DOMAIN a /\ Disposes(a[i + 1], a[i].resource)
  <2>1. i \in DOMAIN q /\ a[i] = q[i]
    BY <1>1, <1>3
  <2>2. i + 1 \in DOMAIN q /\ Disposes(q[i + 1], q[i].resource)
    BY <1>3, <2>1 DEF Orderly
  <2> QED
    BY <1>1, <2>1, <2>2
<1>4. ASSUME NEW i \in DOMAIN a, NEW j \in DOMAIN a, a[i].kind = "subscribe", i < j
      PROVE  ~Disposes(a[j], a[i].resource)
  <2>1. CASE j = Len(q) + 1
    BY <1>1, <1>2, <2>1
  <2>2. CASE j \in DOMAIN q
    <3>1. i \in DOMAIN q /\ a[i] = q[i] /\ a[j] = q[j]
      BY <1>1, <1>4, <2>2
    <3> QED
      BY <1>4, <2>2, <3>1 DEF Orderly
  <2> QED
    BY <1>1, <2>1, <2>2
<1>5. \A r : Disposed(a, r) => Disposed(q, r)
  BY <1>1, <1>2 DEF Disposed
<1> QED
  BY <1>3, <1>4, <1>5 DEF Orderly, a

LEMMA OrderlyClosed ==
  ASSUME NEW q \in Seq(ToServer), Orderly(q), NEW r \in Resource, NEW a \in ToServer, NEW b \in ToServer,
         a.kind = "unsubscribe", a.resource = r, Disposes(b, r),
         ~Subscribes(q, r)
  PROVE  /\ Orderly(Append(Append(q, a), b))
         /\ \A x : x # r /\ Disposed(Append(Append(q, a), b), x) => Disposed(q, x)
<1> DEFINE p == Append(q, a)
           t == Append(p, b)
<1>1. /\ p \in Seq(ToServer) /\ Len(p) = Len(q) + 1
      /\ Len(q) \in Nat /\ DOMAIN q = 1 .. Len(q) /\ DOMAIN p = 1 .. Len(q) + 1
      /\ \A i \in DOMAIN q : p[i] = q[i]
      /\ p[Len(q) + 1] = a
  BY AppendIs
<1> HIDE DEF p
<1>2. /\ DOMAIN t = 1 .. Len(q) + 2
      /\ \A i \in DOMAIN q : t[i] = q[i]
      /\ t[Len(q) + 1] = a /\ t[Len(q) + 2] = b
  BY <1>1, AppendIs
<1> HIDE DEF t
<1>3. ASSUME NEW i \in DOMAIN t, t[i].kind = "unsubscribe"
      PROVE  i + 1 \in DOMAIN t /\ Disposes(t[i + 1], t[i].resource)
  <2>1. CASE i \in DOMAIN q
    <3>1. i + 1 \in DOMAIN q /\ Disposes(q[i + 1], q[i].resource)
      BY <1>2, <1>3, <2>1 DEF Orderly
    <3> QED
      BY <1>1, <1>2, <2>1, <3>1
  <2>2. CASE i = Len(q) + 1
    BY <1>1, <1>2, <2>2
  <2>3. CASE i = Len(q) + 2
    BY <1>2, <1>3, <2>3 DEF Disposes
  <2> QED
    BY <1>1, <1>2, <2>1, <2>2, <2>3
<1>4. ASSUME NEW i \in DOMAIN t, NEW j \in DOMAIN t, t[i].kind = "subscribe", i < j
      PROVE  ~Disposes(t[j], t[i].resource)
  <2>1. i \in DOMAIN q /\ t[i] = q[i] /\ q[i].resource # r
    BY <1>1, <1>2, <1>4 DEF Disposes, Subscribes
  <2>2. CASE j \in DOMAIN q
    BY <1>2, <1>4, <2>1, <2>2 DEF Orderly
  <2>3. CASE j = Len(q) + 1
    BY <1>2, <2>3 DEF Disposes
  <2>4. CASE j = Len(q) + 2
    BY <1>2, <2>1, <2>4 DEF Disposes
  <2> QED
    BY <1>1, <1>2, <2>2, <2>3, <2>4
<1>5. \A x : x # r /\ Disposed(t, x) => Disposed(q, x)
  BY <1>1, <1>2 DEF Disposed, Disposes
<1> QED
  BY <1>3, <1>4, <1>5 DEF Orderly, t, p

LEMMA HandledOrderly ==
  ASSUME HoldersInv, NEW c \in Client, NEW kind, Handling(c, kind)
  PROVE  \A d \in Client : /\ Orderly(c2s'[d])
                           /\ \A r : Disposed(c2s'[d], r) => Disposed(c2s[d], r)
<1>1. /\ c2s[c] # <<>> /\ c2s[c] \in Seq(ToServer)
      /\ \A d \in Client : c2s'[d] = IF d = c THEN Tail(c2s[c]) ELSE c2s[d]
  <2>1. LifeInv
    BY DEF HoldersInv
  <2>2. c2s[c] # <<>> /\ c2s' = [c2s EXCEPT ![c] = Tail(@)]
    BY <2>1, Handled
  <2> QED
    BY <2>1, <2>2, Queues DEF ServerQueues
<1>2. Orderly(c2s[c])
  BY DEF HoldersInv
<1>3. Orderly(Tail(c2s[c])) /\ \A r : Disposed(Tail(c2s[c]), r) => Disposed(c2s[c], r)
  BY <1>1, <1>2, OrderlyTaken
<1> QED
  BY <1>1, <1>3 DEF HoldersInv

LEMMA SentOrderly ==
  ASSUME HoldersInv, NEW c \in Client, NEW m \in ToServer, Send(c, <<m>>),
         m.kind \notin {"unsubscribe", "disposeSession"}
  PROVE  \A d \in Client : /\ Orderly(c2s'[d])
                           /\ \A r : Disposed(c2s'[d], r) => Disposed(c2s[d], r)
<1>1. c2s[c] \o <<m>> = Append(c2s[c], m) /\ c2s[c] \in Seq(ToServer)
  BY Queues, ConcatIs DEF HoldersInv
<1>2. \A d \in Client : c2s'[d] = IF d = c THEN Append(c2s[c], m) ELSE c2s[d]
  BY <1>1, Queues DEF Send, HoldersInv, ServerQueues
<1>3. Orderly(Append(c2s[c], m)) /\ \A r : Disposed(Append(c2s[c], m), r) => Disposed(c2s[c], r)
  BY <1>1, OrderlyQueued DEF HoldersInv
<1> QED
  BY <1>2, <1>3 DEF HoldersInv

\* Most steps make nobody a holder.
LEMMA NoNewHolder ==
  ASSUME HoldersInv, LifeInv',
         \A c \in Client : Orderly(c2s'[c]),
         \A c \in Client, r \in Resource : link'[c] = "open" /\ Live(r)' /\ Holds(c, r)' =>
           /\ link[c] = "open" /\ Live(r) /\ Holds(c, r)
           /\ r \in subscriptions[c] => r \in subscriptions'[c]
           /\ Disposed(c2s'[c], r) => Disposed(c2s[c], r)
  PROVE  HoldersInv'
BY DEF HoldersInv, HoldersAreSubscribed

\* The snapshots of a queue: taken from it, or added to it.
LEMMA SnapshotTaken ==
  ASSUME NEW q \in Seq(ToClient), q # <<>>
  PROVE  \A r : HasSnapshot(Tail(q), r) => HasSnapshot(q, r)
BY TailIs DEF HasSnapshot

LEMMA SnapshotQueued ==
  ASSUME NEW q \in Seq(ToClient), NEW m \in ToClient
  PROVE  \A r : HasSnapshot(Append(q, m), r) =>
           HasSnapshot(q, r) \/ (m.kind = "snapshot" /\ m.resource = r)
<1> DEFINE a == Append(q, m)
<1>1. /\ DOMAIN q = 1 .. Len(q) /\ DOMAIN a = 1 .. Len(q) + 1 /\ Len(q) \in Nat
      /\ \A i \in DOMAIN q : a[i] = q[i]
      /\ a[Len(q) + 1] = m
  BY AppendIs
<1> HIDE DEF a
<1>2. \A r : HasSnapshot(a, r) => HasSnapshot(q, r) \/ (m.kind = "snapshot" /\ m.resource = r)
  BY <1>1 DEF HasSnapshot
<1> QED
  BY <1>2 DEF a

LEMMA ReceivedSnapshots ==
  ASSUME LifeInv, NEW c \in Client, NEW kind, Receiving(c, kind)
  PROVE  \A d \in Client, r \in Resource : HasSnapshot(s2c'[d], r) => HasSnapshot(s2c[d], r)
<1>1. /\ s2c[c] # <<>> /\ s2c[c] \in Seq(ToClient)
      /\ \A d \in Client : s2c'[d] = IF d = c THEN Tail(s2c[c]) ELSE s2c[d]
  <2>1. s2c[c] # <<>> /\ s2c' = [s2c EXCEPT ![c] = Tail(@)]
    BY Received
  <2> QED
    BY <2>1, Queues DEF ClientQueues
<1> QED
  BY <1>1, SnapshotTaken

LEMMA EmitsNoSnapshot ==
  ASSUME NEW q \in ClientQueues, NEW st, NEW n, NEW env, NEW q2, NEW st2,
         Emits(q, st, n, env, q2, st2)
  PROVE  \A c \in Client, r \in Resource : HasSnapshot(q2[c], r) => HasSnapshot(q[c], r)
<1> DEFINE m == [kind |-> "action", envelope |-> env]
<1>1. env \in Envelope /\ q2 = Deliver(q, env) /\ m.kind = "action"
  BY DEF Emits
<1>2. /\ m \in ToClient
      /\ \A c \in Client : q[c] \in Seq(ToClient) /\ (q2[c] = q[c] \/ q2[c] = Append(q[c], m))
  <2>1. m \in ToClient
    BY <1>1 DEF ToClient
  <2> QED
    BY <1>1, <2>1, DeliverIs DEF ClientQueues
<1> HIDE DEF m
<1>3. \A c \in Client, r \in Resource : HasSnapshot(Append(q[c], m), r) => HasSnapshot(q[c], r)
  BY <1>1, <1>2, SnapshotQueued
<1>4. ASSUME NEW c \in Client, NEW r \in Resource, HasSnapshot(q2[c], r)
      PROVE  HasSnapshot(q[c], r)
  <2>1. CASE q2[c] = q[c]
    BY <1>4, <2>1
  <2>2. CASE q2[c] = Append(q[c], m)
    BY <1>3, <1>4, <2>2
  <2> QED
    BY <1>2, <2>1, <2>2
<1> QED
  BY <1>4

LEMMA EmitNoSnapshot ==
  ASSUME LifeInv, NEW a \in SessionAction, NEW origin \in Origin, Emit(s2c, a, origin)
  PROVE  \A c \in Client, r \in Resource : HasSnapshot(s2c'[c], r) => HasSnapshot(s2c[c], r)
<1>1. TypeOK /\ s2c \in ClientQueues
  BY Queues DEF LifeInv
<1>2. CASE \E env \in Envelope : Emits(s2c, state, serverSeq, env, s2c', state')
  BY <1>1, <1>2, EmitsNoSnapshot
<1>3. CASE \E rootEnv, env \in Envelope : \E q \in ClientQueues, st \in [Resource -> State] :
             /\ Emits(s2c, state, serverSeq, rootEnv, q, st)
             /\ Emits(q, st, serverSeq + 1, env, s2c', state')
  <2>1. PICK rootEnv \in Envelope, env \in Envelope, q \in ClientQueues, st \in [Resource -> State] :
               /\ Emits(s2c, state, serverSeq, rootEnv, q, st)
               /\ Emits(q, st, serverSeq + 1, env, s2c', state')
    BY <1>3
  <2>2. \A c \in Client, r \in Resource : HasSnapshot(q[c], r) => HasSnapshot(s2c[c], r)
    BY <1>1, <2>1, EmitsNoSnapshot
  <2>3. \A c \in Client, r \in Resource : HasSnapshot(s2c'[c], r) => HasSnapshot(q[c], r)
    BY <2>1, EmitsNoSnapshot
  <2> QED
    BY <2>2, <2>3
<1> QED
  BY <1>1, <1>2, <1>3, EmitIs

\* A reply that is no snapshot.
LEMMA ReplyNoSnapshot ==
  ASSUME LifeInv, NEW c \in Client, NEW m \in ToClient, m.kind # "snapshot",
         s2c' = IF link[c] = "closed" THEN s2c ELSE [s2c EXCEPT ![c] = Append(@, m)]
  PROVE  \A d \in Client, r \in Resource : HasSnapshot(s2c'[d], r) => HasSnapshot(s2c[d], r)
<1>1. \A d \in Client : s2c[d] \in Seq(ToClient) /\ (s2c'[d] = s2c[d] \/ s2c'[d] = Append(s2c[d], m))
  BY Queues DEF ClientQueues
<1> QED
  BY <1>1, SnapshotQueued


\* Nobody copies what does not exist yet, or over a connection that is not open yet.
LEMMA Unheld ==
  ASSUME LifeInv, NEW c \in Client, NEW r \in Resource, Unborn(r) \/ Handshaking(c)
  PROVE  ~Holds(c, r)
<1>1. ASSUME NEW h \in Handler, ClientOf[h] = c, r \in subscribedSessions[h]
      PROVE  FALSE
  <2>1. view[h][r] = "open"
    BY <1>1 DEF LifeInv, ViewInv
  <2>2. ~Unborn(r) /\ ~Handshaking(ClientOf[h])
    BY <2>1 DEF LifeInv, ViewInv
  <2> QED
    BY <1>1, <2>2
<1>2. ASSUME NEW i \in DOMAIN s2c[c], s2c[c][i].kind = "snapshot", s2c[c][i].resource = r
      PROVE  FALSE
  <2>1. DownOK(c, s2c[c][i])
    BY Queues DEF DownFine
  <2> QED
    BY <1>2, <2>1 DEF DownOK
<1> QED
  BY <1>1, <1>2 DEF Holds, HasSnapshot

LEMMA HoldersStep == HoldersInv /\ [Next]_vars => HoldersInv'
<1> SUFFICES ASSUME HoldersInv, [Next]_vars
             PROVE  HoldersInv'
  OBVIOUS
<1>1. /\ LifeInv /\ LifeInv' /\ TypeOK
      /\ \A c \in Client : Orderly(c2s[c])
      /\ \A c \in Client, r \in Resource : link[c] = "open" /\ Live(r) /\ Holds(c, r) =>
           r \in subscriptions[c] /\ ~Disposed(c2s[c], r)
  BY LifeStep DEF HoldersInv, LifeInv, HoldersAreSubscribed
<1>2. ASSUME NEW c \in Client, HandleInitialize(c)
      PROVE  HoldersInv'
  <2>1. /\ Handling(c, "initialize") /\ c \notin clients
        /\ subscriptions' = [subscriptions EXCEPT ![c] = {}]
        /\ UNCHANGED <<phase, link, subscribedSessions>>
        /\ s2c' = IF link[c] = "closed" THEN s2c
                  ELSE [s2c EXCEPT ![c] = Append(@, [kind |-> "initialized"])]
    BY <1>2 DEF HandleInitialize, Reply, server, sync
  <2>2. /\ link[c] # "open"
        /\ \A d \in Client : d # c => subscriptions'[d] = subscriptions[d]
    BY <1>1, <2>1 DEF LifeInv, LinkInv, TypeOK
  <2>3. PICK m \in ToClient : m = [kind |-> "initialized"]
    BY DEF ToClient
  <2>4. \A d \in Client, r \in Resource : HasSnapshot(s2c'[d], r) => HasSnapshot(s2c[d], r)
    BY <1>1, <2>1, <2>3, ReplyNoSnapshot
  <2> QED
    BY <1>1, <2>1, <2>2, <2>4, HandledOrderly, NoNewHolder DEF Live, Holds
<1>3. ASSUME NEW c \in Client, HandleUnsubscribe(c)
      PROVE  HoldersInv'
  <2>1. /\ Handling(c, "unsubscribe")
        /\ subscriptions' = [subscriptions EXCEPT ![c] = @ \ {Head(c2s[c]).resource}]
        /\ UNCHANGED <<phase, link, subscribedSessions, s2c>>
    BY <1>3 DEF HandleUnsubscribe, server, sync
  <2>2. PICK r : r = Head(c2s[c]).resource
    OBVIOUS
  <2>3. Disposed(c2s[c], r)
    <3>1. c2s[c] \in Seq(ToServer) /\ c2s[c] # <<>> /\ Head(c2s[c]).kind = "unsubscribe"
      BY <1>1, <2>1, Queues DEF Handling
    <3> QED
      BY <1>1, <2>2, <3>1, OrderlyTaken
  <2>4. \A d \in Client, x \in Resource :
          x \in subscriptions[d] /\ (d # c \/ x # r) => x \in subscriptions'[d]
    BY <1>1, <2>1, <2>2 DEF TypeOK
  <2> QED
    BY <1>1, <2>1, <2>3, <2>4, HandledOrderly, NoNewHolder DEF Live, Holds
<1>4. ASSUME NEW c \in Client, HandleDispatchAction(c)
      PROVE  HoldersInv'
  <2>1. /\ Handling(c, "dispatchAction")
        /\ UNCHANGED <<phase, link, subscriptions, subscribedSessions>>
        /\ Emit(s2c, Head(c2s[c]).action, [client |-> c, clientSeq |-> Head(c2s[c]).clientSeq])
    BY <1>4 DEF HandleDispatchAction, handler, sync
  <2>2. Head(c2s[c]).action \in SessionAction /\ Head(c2s[c]).clientSeq \in Nat
    <3>1. Head(c2s[c]) \in ToServer /\ Head(c2s[c]).kind = "dispatchAction"
      BY <1>1, <2>1, Handled
    <3> QED
      BY <3>1 DEF ToServer
  <2>3. [client |-> c, clientSeq |-> Head(c2s[c]).clientSeq] \in Origin
    BY <2>2 DEF Origin
  <2>4. \A d \in Client, r \in Resource : HasSnapshot(s2c'[d], r) => HasSnapshot(s2c[d], r)
    BY <1>1, <2>1, <2>2, <2>3, EmitNoSnapshot
  <2> QED
    BY <1>1, <2>1, <2>4, HandledOrderly, NoNewHolder DEF Live, Holds
<1>5. ASSUME NEW c \in Client, HandleCreateSession(c)
      PROVE  HoldersInv'
  <2>1. /\ Handling(c, "createSession")
        /\ UNCHANGED <<phase, link, subscriptions, subscribedSessions, s2c>>
    BY <1>5 DEF HandleCreateSession, server, sync
  <2> QED
    BY <1>1, <2>1, HandledOrderly, NoNewHolder DEF Live, Holds
<1>6. ASSUME NEW c \in Client, HandleDisposeSession(c)
      PROVE  HoldersInv'
  <2>1. /\ Handling(c, "disposeSession")
        /\ UNCHANGED <<link, subscriptions, subscribedSessions, s2c>>
        /\ phase' = phase \/ (\E s : phase' = [phase EXCEPT ![s] = "removed"])
    BY <1>6 DEF HandleDisposeSession, handler, sync
  <2>2. \A r \in Resource : Live(r)' => Live(r)
    BY <1>1, <2>1 DEF Live, TypeOK
  <2> QED
    BY <1>1, <2>1, <2>2, HandledOrderly, NoNewHolder DEF Holds
<1>7. ASSUME NEW s \in Session, AgentIdle(s)
      PROVE  HoldersInv'
  <2> DEFINE a == ActionOf("turnComplete", s, state[s].activeTurn)
  <2>1. /\ Emit(s2c, a, NoOrigin) /\ state[s].activeTurn # NoTurn
        /\ UNCHANGED <<phase, link, subscriptions, subscribedSessions, c2s>>
    BY <1>7 DEF AgentIdle, handler, sync
  <2>2. a \in SessionAction /\ NoOrigin \in Origin
    <3>1. state[s].activeTurn \in Turn
      BY <1>1, <2>1 DEF TypeOK, State, Resource
    <3> QED
      BY <3>1, ActionTypes DEF TurnEnd, Origin
  <2> HIDE DEF a
  <2>3. \A d \in Client, r \in Resource : HasSnapshot(s2c'[d], r) => HasSnapshot(s2c[d], r)
    BY <1>1, <2>1, <2>2, EmitNoSnapshot
  <2> QED
    BY <1>1, <2>1, <2>3, NoNewHolder DEF Live, Holds
<1>8. ASSUME NEW c \in Client, HandleClose(c)
      PROVE  HoldersInv'
  <2>1. /\ link[c] = "closed" /\ UNCHANGED <<phase, link, subscribedSessions, s2c>>
        /\ \A d \in Client : /\ c2s'[d] = IF d = c THEN <<>> ELSE c2s[d]
                             /\ d # c => subscriptions'[d] = subscriptions[d]
    BY <1>1, <1>8 DEF HandleClose, server, sync, TypeOK
  <2>2. Orderly(<<>>)
    BY DEF Orderly
  <2> QED
    BY <1>1, <2>1, <2>2, NoNewHolder DEF Live, Holds
<1>9. ASSUME NEW p \in creating, SessionCreationFails(p)
      PROVE  HoldersInv'
  <2>1. PICK m : m = [kind |-> "createFailed", resource |-> p.resource, handler |-> p.handler]
    OBVIOUS
  <2>2. m \in ToClient /\ m.kind # "snapshot" /\ p.client \in Client
    BY <1>1, <2>1, Pending DEF ToClient
  <2>3. /\ UNCHANGED <<phase, link, subscriptions, subscribedSessions, c2s>>
        /\ s2c' = IF link[p.client] = "closed" THEN s2c
                  ELSE [s2c EXCEPT ![p.client] = Append(@, m)]
    BY <1>9, <2>1 DEF SessionCreationFails, Answer, server, sync
  <2>4. \A d \in Client, r \in Resource : HasSnapshot(s2c'[d], r) => HasSnapshot(s2c[d], r)
    BY <1>1, <2>2, <2>3, ReplyNoSnapshot
  <2> QED
    BY <1>1, <2>3, <2>4, NoNewHolder DEF Live, Holds
<1>10. ASSUME NEW p \in creating, SessionCreated(p)
       PROVE  HoldersInv'
  <2>1. PICK env \in Envelope, q \in ClientQueues, st \in [Resource -> State], m \in ToClient :
          /\ Emits(s2c, st, serverSeq, env, q, state')
          /\ m = [kind |-> "created", resource |-> p.resource, handler |-> p.handler]
          /\ s2c' = IF link[p.client] = "closed" THEN q
                    ELSE [q EXCEPT ![p.client] = Append(@, m)]
    BY <1>1, <1>10, CreationEmits
  <2>2. /\ phase' = [phase EXCEPT ![p.resource] = "live"]
        /\ UNCHANGED <<link, subscriptions, subscribedSessions, c2s>>
    BY <1>10 DEF SessionCreated, sync
  <2>3. \A r \in Resource : Live(r)' => Live(r) \/ r = p.resource
    BY <1>1, <2>2 DEF Live, TypeOK
  <2>4. \A d \in Client, r \in Resource : HasSnapshot(s2c'[d], r) => HasSnapshot(s2c[d], r)
    <3>1. \A d \in Client, r \in Resource : HasSnapshot(q[d], r) => HasSnapshot(s2c[d], r)
      BY <1>1, <2>1, Queues, EmitsNoSnapshot
    <3>2. \A d \in Client : /\ q[d] \in Seq(ToClient)
                            /\ s2c'[d] = q[d] \/ s2c'[d] = Append(q[d], m)
      BY <2>1 DEF ClientQueues
    <3>3. m.kind # "snapshot"
      BY <2>1
    <3>4. \A d \in Client, r \in Resource : HasSnapshot(Append(q[d], m), r) => HasSnapshot(q[d], r)
      BY <3>2, <3>3, SnapshotQueued
    <3>5. ASSUME NEW d \in Client, NEW r \in Resource, HasSnapshot(s2c'[d], r)
          PROVE  HasSnapshot(q[d], r)
      <4>1. CASE s2c'[d] = q[d]
        BY <3>5, <4>1
      <4>2. CASE s2c'[d] = Append(q[d], m)
        BY <3>4, <3>5, <4>2
      <4> QED
        BY <3>2, <4>1, <4>2
    <3> QED
      BY <3>1, <3>5
  <2>5. \A d \in Client : ~Holds(d, p.resource)
    BY <1>1, Pending, Unheld
  <2> QED
    BY <1>1, <2>2, <2>3, <2>4, <2>5, NoNewHolder DEF Holds
<1>11. ASSUME NEW c \in Client, Connect(c)
       PROVE  HoldersInv'
  <2>1. PICK m \in ToServer : m = [kind |-> "initialize"]
    BY DEF ToServer
  <2>2. /\ UNCHANGED <<phase, subscriptions, subscribedSessions, s2c>>
        /\ Send(c, <<m>>) /\ m.kind \notin {"unsubscribe", "disposeSession"}
        /\ link' = [link EXCEPT ![c] = "handshake"]
    BY <1>11, <2>1 DEF Connect, server, handler, sync
  <2>3. \A d \in Client : link'[d] = "open" => link[d] = "open"
    BY <1>1, <2>2 DEF TypeOK
  <2> QED
    BY <1>1, <2>2, <2>3, SentOrderly, NoNewHolder DEF Live, Holds
<1>12. ASSUME NEW c \in Client, Initialized(c)
       PROVE  HoldersInv'
  <2>1. /\ Receiving(c, "initialized") /\ link' = [link EXCEPT ![c] = "open"]
        /\ UNCHANGED <<phase, subscriptions, subscribedSessions, c2s>>
    BY <1>12 DEF Initialized, server, handler, sync
  <2>2. \A d \in Client, r \in Resource : HasSnapshot(s2c'[d], r) => HasSnapshot(s2c[d], r)
    BY <1>1, <2>1, ReceivedSnapshots
  <2>3. link[c] = "open" \/ Handshaking(c)
    <3>1. link[c] # "closed"
      BY <1>1, <2>1, ReceiverIsLinked DEF Receiving
    <3> QED
      BY <1>1, <3>1 DEF Handshaking, TypeOK
  <2>4. \A r \in Resource : Holds(c, r) => link[c] = "open"
    BY <1>1, <2>3, Unheld
  <2>5. \A d \in Client : d # c => link'[d] = link[d]
    BY <1>1, <2>1 DEF TypeOK
  <2> QED
    BY <1>1, <2>1, <2>2, <2>4, <2>5, NoNewHolder DEF Live, Holds
<1>13. ASSUME NEW c \in Client, Disconnect(c)
       PROVE  HoldersInv'
  <2>1. /\ UNCHANGED <<phase, subscriptions, subscribedSessions, c2s>>
        /\ \A d \in Client : /\ link'[d] = IF d = c THEN "closed" ELSE link[d]
                             /\ d # c => s2c'[d] = s2c[d]
    BY <1>1, <1>13 DEF Disconnect, server, handler, sync, TypeOK
  <2> QED
    BY <1>1, <2>1, NoNewHolder DEF Live, Holds
<1>14. ASSUME NEW c \in Client, ReceiveEnvelope(c)
       PROVE  HoldersInv'
  <2>1. /\ Receiving(c, "action")
        /\ UNCHANGED <<phase, link, subscriptions, subscribedSessions, c2s>>
    BY <1>14 DEF ReceiveEnvelope, server, handler
  <2> QED
    BY <1>1, <2>1, ReceivedSnapshots, NoNewHolder DEF Live, Holds
<1>15. ASSUME NEW c \in Client, SessionCreateThrows(c)
       PROVE  HoldersInv'
  <2>1. /\ Receiving(c, "createFailed")
        /\ UNCHANGED <<phase, link, subscriptions, subscribedSessions, c2s>>
    BY <1>15 DEF SessionCreateThrows, server, handler, sync
  <2> QED
    BY <1>1, <2>1, ReceivedSnapshots, NoNewHolder DEF Live, Holds
<1>16. ASSUME NEW c \in Client, SubscribeFails(c)
       PROVE  HoldersInv'
  <2>1. /\ Receiving(c, "notFound")
        /\ UNCHANGED <<phase, link, subscriptions, subscribedSessions, c2s>>
    BY <1>16 DEF SubscribeFails, server, handler, sync
  <2> QED
    BY <1>1, <2>1, ReceivedSnapshots, NoNewHolder DEF Live, Holds
<1>17. ASSUME NEW h \in Handler, NEW a \in SessionAction, Dispatch(h, a),
              UNCHANGED <<phase, link, subscriptions, subscribedSessions, s2c>>
       PROVE  HoldersInv'
  <2>1. PICK m \in ToServer : m = [kind |-> "dispatchAction", action |-> a,
                                   clientSeq |-> nextClientSeq[h]]
    BY <1>1 DEF ToServer, TypeOK
  <2>2. ClientOf[h] \in Client /\ Send(ClientOf[h], <<m>>) /\ m.kind = "dispatchAction"
    BY <1>17, <2>1 DEF Dispatch
  <2> QED
    BY <1>1, <1>17, <2>2, SentOrderly, NoNewHolder DEF Live, Holds
<1>18. ASSUME NEW h \in Handler, NEW s \in Session, NEW t \in Turn, StartTurn(h, s, t)
       PROVE  HoldersInv'
  <2>1. ActionOf("turnStarted", s, t) \in SessionAction
    BY ActionTypes
  <2> QED
    BY <1>17, <1>18, <2>1 DEF StartTurn, server, handler
<1>19. ASSUME NEW h \in Handler, NEW s \in Session, CancelTurn(h, s)
       PROVE  HoldersInv'
  <2>1. running[h][s] \in Turn
    BY <1>1, <1>19 DEF TypeOK, CancelTurn
  <2>2. ActionOf("turnCancelled", s, running[h][s]) \in SessionAction
    BY <2>1, ActionTypes DEF TurnEnd
  <2> QED
    BY <1>17, <1>19, <2>2 DEF CancelTurn, server, handler
<1>20. ASSUME NEW h \in Handler, NEW r \in Resource, OpenExisting(h, r)
       PROVE  HoldersInv'
  <2>1. PICK m \in ToServer : m = [kind |-> "subscribe", resource |-> r, handler |-> h]
    BY DEF ToServer
  <2>2. /\ Send(ClientOf[h], <<m>>) /\ m.kind = "subscribe"
        /\ UNCHANGED <<phase, link, subscriptions, subscribedSessions, s2c>>
    BY <1>20, <2>1 DEF OpenExisting, server, handler, sync
  <2> QED
    BY <1>1, <2>2, SentOrderly, NoNewHolder DEF Live, Holds
<1>21. ASSUME NEW h \in Handler, NEW s \in Session, CreateSession(h, s)
       PROVE  HoldersInv'
  <2>1. PICK m \in ToServer : m = [kind |-> "createSession", resource |-> s, handler |-> h]
    BY DEF ToServer
  <2>2. /\ Send(ClientOf[h], <<m>>) /\ m.kind = "createSession"
        /\ UNCHANGED <<phase, link, subscriptions, subscribedSessions, s2c>>
    BY <1>21, <2>1 DEF CreateSession, server, handler, sync
  <2> QED
    BY <1>1, <2>2, SentOrderly, NoNewHolder DEF Live, Holds
<1>22. ASSUME NEW c \in Client, SessionCreateReturns(c)
       PROVE  HoldersInv'
  <2>1. /\ Receiving(c, "created")
        /\ UNCHANGED <<phase, link, subscriptions, subscribedSessions>>
    BY <1>22 DEF SessionCreateReturns, server, handler, sync
  <2>2. Head(s2c[c]) \in ToClient /\ Head(s2c[c]).kind = "created"
    BY <1>1, <2>1, Received
  <2>3. Head(s2c[c]).handler \in Handler /\ Head(s2c[c]).resource \in Resource
    BY <2>2 DEF ToClient, Resource
  <2>4. PICK m \in ToServer : m = [kind |-> "subscribe", resource |-> Head(s2c[c]).resource,
                                   handler |-> Head(s2c[c]).handler]
    BY <2>3 DEF ToServer
  <2>5. Send(c, <<m>>) /\ m.kind = "subscribe"
    BY <1>22, <2>4 DEF SessionCreateReturns
  <2> QED
    BY <1>1, <2>1, <2>5, SentOrderly, ReceivedSnapshots, NoNewHolder DEF Live, Holds
<1>23. ASSUME NEW c \in Client, HandleSnapshot(c)
       PROVE  HoldersInv'
  <2>1. /\ Receiving(c, "snapshot")
        /\ UNCHANGED <<phase, link, subscriptions, c2s>>
        /\ subscribedSessions' = [subscribedSessions EXCEPT
             ![Head(s2c[c]).handler] = @ \cup {Head(s2c[c]).resource}]
    BY <1>23 DEF HandleSnapshot, server, handler
  <2>2. PICK h \in Handler, r \in Resource : About(Head(s2c[c]), h, r) /\ ClientOf[h] = c
    BY <1>1, <2>1, Taken
  <2>3. HasSnapshot(s2c[c], r)
    <3>1. s2c[c] \in Seq(ToClient) /\ s2c[c] # <<>> /\ Head(s2c[c]).kind = "snapshot"
      BY <1>1, <2>1, Queues DEF Receiving
    <3>2. Head(s2c[c]) = s2c[c][1] /\ 1 \in DOMAIN s2c[c]
      BY <3>1, TailIs
    <3> QED
      BY <2>2, <3>1, <3>2 DEF HasSnapshot, About
  <2>4. \A g \in Handler : \A x \in subscribedSessions'[g] :
          x \in subscribedSessions[g] \/ (g = h /\ x = r)
    BY <1>1, <2>1, <2>2 DEF TypeOK, About
  <2>5. \A d \in Client, x \in Resource : Holds(d, x)' => Holds(d, x)
    BY <1>1, <2>1, <2>2, <2>3, <2>4, ReceivedSnapshots DEF Holds
  <2> QED
    BY <1>1, <2>1, <2>5, NoNewHolder DEF Live
<1>24. ASSUME NEW h \in Handler, NEW s \in Session, CloseSession(h, s)
       PROVE  HoldersInv'
  <2>1. PICK a \in ToServer : a = [kind |-> "unsubscribe", resource |-> s]
    BY DEF ToServer
  <2>2. PICK b \in ToServer : b = [kind |-> "disposeSession", resource |-> s]
    BY DEF ToServer
  <2>3. PICK c \in Client : c = ClientOf[h]
    OBVIOUS
  <2>4. /\ view[h][s] = "open" /\ s \in Resource /\ Send(c, <<a, b>>)
        /\ subscribedSessions' = [subscribedSessions EXCEPT ![h] = @ \ {s}]
        /\ UNCHANGED <<phase, link, subscriptions, s2c>>
    BY <1>24, <2>1, <2>2, <2>3 DEF CloseSession, server, handler, Resource
  <2>5. \A g \in Handler : ClientOf[g] = c /\ s \in Serves[g] => g = h
    <3>1. s \in Serves[h]
      BY <1>1, <2>4 DEF LifeInv, ViewInv
    <3> QED
      BY <2>3, <3>1
  <2>6. ~Asked(c2s[c], h, s) /\ ~Answered(s2c[c], h, s)
    BY <1>1, <2>3, <2>4, Queues DEF OneExchange
  <2>7. ~Subscribes(c2s[c], s)
    <3> SUFFICES ASSUME NEW i \in DOMAIN c2s[c], c2s[c][i].kind = "subscribe", c2s[c][i].resource = s
                 PROVE  FALSE
      BY DEF Subscribes
    <3>1. c2s[c][i] \in ToServer /\ UpOK(c, c2s[c][i])
      BY <1>1, Queues DEF UpFine
    <3>2. IsAsk(c2s[c][i]) /\ c2s[c][i].handler \in Handler
      BY <3>1 DEF IsAsk, ToServer
    <3>3. c2s[c][i].handler = h
      BY <2>5, <3>1, <3>2 DEF UpOK, Addressed
    <3> QED
      BY <2>6, <3>2, <3>3 DEF Asked, About
  <2>8. ~HasSnapshot(s2c[c], s)
    <3> SUFFICES ASSUME NEW i \in DOMAIN s2c[c], s2c[c][i].kind = "snapshot", s2c[c][i].resource = s
                 PROVE  FALSE
      BY DEF HasSnapshot
    <3>1. s2c[c][i] \in ToClient /\ DownOK(c, s2c[c][i])
      BY <1>1, Queues DEF DownFine
    <3>2. IsAnswer(s2c[c][i]) /\ s2c[c][i].handler \in Handler
      BY <3>1 DEF IsAnswer, ToClient
    <3>3. s2c[c][i].handler = h
      BY <2>5, <3>1, <3>2 DEF DownOK, Addressed
    <3> QED
      BY <2>6, <3>2, <3>3 DEF Answered, About
  <2>9. ~Holds(c, s)'
    <3>1. \A g \in Handler : ClientOf[g] = c /\ s \in subscribedSessions[g] => g = h
      BY <1>1, <2>4, <2>5 DEF LifeInv, ViewInv
    <3>2. \A g \in Handler : ClientOf[g] = c => s \notin subscribedSessions'[g]
      BY <1>1, <2>3, <2>4, <3>1 DEF TypeOK
    <3> QED
      BY <2>4, <2>8, <3>2 DEF Holds
  <2>10. \A d \in Client, x \in Resource : Holds(d, x)' => Holds(d, x)
    BY <1>1, <2>4 DEF Holds, TypeOK
  <2>11. /\ Orderly(Append(Append(c2s[c], a), b))
         /\ \A x : x # s /\ Disposed(Append(Append(c2s[c], a), b), x) => Disposed(c2s[c], x)
    <3>1. c2s[c] \in Seq(ToServer) /\ Orderly(c2s[c])
      BY <1>1, Queues
    <3>2. a.kind = "unsubscribe" /\ a.resource = s /\ Disposes(b, s)
      BY <2>1, <2>2 DEF Disposes
    <3> QED
      BY <2>4, <2>7, <3>1, <3>2, OrderlyClosed
  <2>12. \A d \in Client : c2s'[d] = IF d = c THEN Append(Append(c2s[c], a), b) ELSE c2s[d]
    <3>1. c2s[c] \o <<a, b>> = Append(Append(c2s[c], a), b)
      BY <1>1, Queues, ConcatIs
    <3> QED
      BY <1>1, <2>4, <3>1, Queues DEF Send, ServerQueues
  <2>13. \A d \in Client, x \in Resource :
           (d # c \/ x # s) /\ Disposed(c2s'[d], x) => Disposed(c2s[d], x)
    BY <2>11, <2>12
  <2>14. \A d \in Client : Orderly(c2s'[d])
    BY <1>1, <2>11, <2>12
  <2> QED
    BY <1>1, <2>4, <2>9, <2>10, <2>13, <2>14, NoNewHolder DEF Live
<1>25. ASSUME NEW c \in Client, HandleSubscribe(c)
       PROVE  HoldersInv'
  <2> DEFINE M == Head(c2s[c])
  <2>1. /\ Handling(c, "subscribe")
        /\ UNCHANGED <<phase, link, subscribedSessions>>
        /\ \/ /\ Live(M.resource)
              /\ subscriptions' = [subscriptions EXCEPT ![c] = @ \cup {M.resource}]
              /\ Reply(c, [kind |-> "snapshot", resource |-> M.resource, handler |-> M.handler,
                           state |-> state[M.resource], fromSeq |-> serverSeq])
           \/ /\ subscriptions' = subscriptions
              /\ Reply(c, [kind |-> "notFound", resource |-> M.resource, handler |-> M.handler])
    BY <1>25 DEF HandleSubscribe, server, sync
  <2>2. M \in ToServer /\ M.kind = "subscribe" /\ c2s[c] \in Seq(ToServer) /\ c2s[c] # <<>>
    BY <1>1, <2>1, Handled, Queues
  <2>3. PICK h \in Handler, r \in Resource : h = M.handler /\ r = M.resource
    BY <2>2 DEF ToServer
  <2>4. ~Disposed(c2s'[c], r)
    <3>1. c2s'[c] = Tail(c2s[c])
      BY <1>1, <2>1, Queues DEF Handling, ServerQueues
    <3> QED
      BY <1>1, <2>2, <2>3, <3>1, OrderlyTaken
  <2> HIDE DEF M
  <2>5. CASE /\ Live(r)
             /\ subscriptions' = [subscriptions EXCEPT ![c] = @ \cup {r}]
             /\ Reply(c, [kind |-> "snapshot", resource |-> r, handler |-> h,
                          state |-> state[r], fromSeq |-> serverSeq])
    <3>1. state[r] \in State /\ serverSeq \in Nat
      BY <1>1 DEF TypeOK
    <3>2. PICK m \in ToClient : m = [kind |-> "snapshot", resource |-> r, handler |-> h,
                                     state |-> state[r], fromSeq |-> serverSeq]
      BY <3>1 DEF ToClient
    <3>3. \A d \in Client : /\ s2c[d] \in Seq(ToClient)
                            /\ s2c'[d] = s2c[d] \/ (d = c /\ s2c'[d] = Append(s2c[d], m))
      BY <1>1, <2>5, <3>2, Queues DEF Reply, ClientQueues
    <3>4. \A d \in Client, x \in Resource : HasSnapshot(Append(s2c[d], m), x) =>
            HasSnapshot(s2c[d], x) \/ x = r
      BY <3>2, <3>3, SnapshotQueued
    <3>5. ASSUME NEW d \in Client, NEW x \in Resource, HasSnapshot(s2c'[d], x)
          PROVE  HasSnapshot(s2c[d], x) \/ (d = c /\ x = r)
      <4>1. CASE s2c'[d] = s2c[d]
        BY <3>5, <4>1
      <4>2. CASE d = c /\ s2c'[d] = Append(s2c[d], m)
        BY <3>4, <3>5, <4>2
      <4> QED
        BY <3>3, <4>1, <4>2
    <3>6. \A d \in Client, x \in Resource : Holds(d, x)' => Holds(d, x) \/ (d = c /\ x = r)
      BY <2>1, <3>5 DEF Holds
    <3>7. /\ r \in subscriptions'[c]
          /\ \A d \in Client, x \in Resource : x \in subscriptions[d] => x \in subscriptions'[d]
      BY <1>1, <2>5 DEF TypeOK
    <3>8. \A d \in Client : /\ Orderly(c2s'[d])
                            /\ \A x : Disposed(c2s'[d], x) => Disposed(c2s[d], x)
      BY <2>1, HandledOrderly
    <3>9. HoldersAreSubscribed'
      BY <1>1, <2>1, <2>4, <3>6, <3>7, <3>8 DEF HoldersAreSubscribed, Live
    <3> QED
      BY <1>1, <3>8, <3>9 DEF HoldersInv
  <2>6. CASE /\ subscriptions' = subscriptions
             /\ Reply(c, [kind |-> "notFound", resource |-> r, handler |-> h])
    <3>1. PICK m \in ToClient : m = [kind |-> "notFound", resource |-> r, handler |-> h]
      BY DEF ToClient
    <3>2. \A d \in Client, x \in Resource : HasSnapshot(s2c'[d], x) => HasSnapshot(s2c[d], x)
      BY <1>1, <2>6, <3>1, ReplyNoSnapshot DEF Reply
    <3> QED
      BY <1>1, <2>1, <2>6, <3>2, HandledOrderly, NoNewHolder DEF Live, Holds
  <2> QED
    BY <2>1, <2>3, <2>5, <2>6
<1>26. CASE UNCHANGED vars
  BY <1>1, <1>26, NoNewHolder DEF vars, server, handler, net, sync, chat, Live, Holds
<1> QED
  BY <1>2, <1>3, <1>4, <1>5, <1>6, <1>7, <1>8, <1>9, <1>10, <1>11, <1>12, <1>13, <1>14, <1>15,
     <1>16, <1>18, <1>19, <1>20, <1>21, <1>22, <1>23, <1>24, <1>25, <1>26
     DEF Next, HandleMessage, ReceiveMessage

\* Over an open connection, whoever copies an existing resource, or has a
\* snapshot of it on the way, is subscribed to it, and has not disposed it.
THEOREM HoldersStaySubscribed == Spec => []HoldersAreSubscribed
<1>1. Init => HoldersInv
  BY LifeInit DEF Init, HoldersInv, HoldersAreSubscribed, Orderly
<1>2. HoldersInv => HoldersAreSubscribed
  BY DEF HoldersInv
<1> QED
  BY <1>1, <1>2, HoldersStep, PTL DEF Spec

=============================================================================
