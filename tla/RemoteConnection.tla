-------------------------- MODULE RemoteConnection --------------------------
(***************************************************************************)
(* A window's management connection to a remote server, from the moment it *)
(* is first established: the PersistentProtocol at both ends, the sockets  *)
(* between them, and what keeps the connection alive.                      *)
(*                                                                         *)
(*   client  PersistentConnection (platform/remote): the reconnection loop *)
(*           and the client's part of the handshake                        *)
(*   server  RemoteExtensionHostAgentServer: the handshake, run by a       *)
(*           temporary protocol on every new socket;                       *)
(*           ManagementConnection: its protocol and its grace timers       *)
(*                                                                         *)
(* A socket is a pair of FIFO queues.  When it goes down, because the      *)
(* network fails or an end destroys it, nothing more can be written, an    *)
(* end may still read what had arrived, and learns of it by a close event. *)
(***************************************************************************)
EXTENDS PersistentProtocol

CONSTANTS
  Socket,     \* socket ids, reused once a socket is gone: numbers
  NoSocket,   \* the socket of an end that has none
  ToSend,     \* what each end will send, in order (bounds the messages)
  MaxFaults   \* how often a link may fail or an answer may be too late

End == {"client", "server"}
Peer == [e \in End |-> IF e = "client" THEN "server" ELSE "client"]

ASSUME SocketAssumption == Socket \subseteq Nat /\ Socket # {}
ASSUME NoSocketAssumption == NoSocket \notin Socket
ASSUME ToSendAssumption == ToSend \in [End -> Seq(Data)]
ASSUME MaxFaultsAssumption == MaxFaults \in Nat

VARIABLES
  endpoint,         \* the fields of the PersistentProtocol of each end
  socketOf,         \* its _socket, NoSocket once the close event was seen
  sent, received,   \* what each end sent and its listeners got, in order
  wire,             \* per socket and end, the messages under way to that end
  up,               \* the sockets that still carry messages
  phase,            \* where the client is in its reconnection loop
  controlMessages,  \* buffered by the client's onControlMessage emitter
  handshake,        \* per socket, the state of the server's handshake
  managed,          \* whether _managementConnections has the connection
  timers,           \* _disconnectRunner1 ("long") and 2 ("short"), if scheduled
  faults            \* faults so far

clientVars == <<phase, controlMessages>>
serverVars == <<handshake, managed, timers>>
vars == <<endpoint, socketOf, sent, received, wire, up, clientVars, serverVars, faults>>

----------------------------------------------------------------------------
\* Nobody reads or writes the socket any more: its id can be used again.
Free(k) ==
  /\ k \notin up
  /\ handshake[k] = "none"
  /\ \A e \in End : socketOf[e] # k

\* w after the messages ms are written to socket k for end e.
Write(w, k, e, ms) == IF k \in up THEN [w EXCEPT ![k][e] = @ \o ms] ELSE w

\* w after end e has stopped reading socket k.
Unread(w, k, e) == IF k \in Socket THEN [w EXCEPT ![k][e] = <<>>] ELSE w

\* The oldest message end e has yet to read from its socket.
Waiting(e) == socketOf[e] \in Socket /\ wire[socketOf[e]][e] # <<>>
Oldest(e) == Head(wire[socketOf[e]][e])
Consumed(e) == [wire EXCEPT ![socketOf[e]][e] = Tail(@)]

Running(e) == IF e = "client" THEN phase \notin {"failed", "gaveUp", "ended"} ELSE managed

Init ==
  LET first == CHOOSE k \in Socket : TRUE IN
  /\ endpoint = [e \in End |-> NewEndpoint]
  /\ socketOf = [e \in End |-> first]
  /\ sent = [e \in End |-> <<>>]
  /\ received = [e \in End |-> <<>>]
  /\ wire = [k \in Socket |-> [e \in End |-> <<>>]]
  /\ up = {first}
  /\ phase = "connected"
  /\ controlMessages = <<>>
  /\ handshake = [k \in Socket |-> "none"]
  /\ managed = TRUE
  /\ timers = {}
  /\ faults = 0

----------------------------------------------------------------------------
(* Either end: messages and acknowledgements *)

SendMessage(e) ==
  LET n == Len(sent[e]) + 1
      r == Send(endpoint[e], ToSend[e][n])
  IN /\ Running(e)
     /\ n <= Len(ToSend[e])
     /\ endpoint' = [endpoint EXCEPT ![e] = r.endpoint]
     /\ wire' = Write(wire, socketOf[e], Peer[e], r.writes)
     /\ sent' = [sent EXCEPT ![e] = Append(@, ToSend[e][n])]
     /\ UNCHANGED <<socketOf, received, up, clientVars, serverVars, faults>>

\* The server writes a disconnect message only to a client that has left, so
\* that the client never reads one.
ReceiveMessage(e) ==
  LET m == Oldest(e)
      r == Receive(endpoint[e], m)
  IN /\ Waiting(e)
     /\ m.type \notin {"Control", "Disconnect"}
     /\ endpoint' = [endpoint EXCEPT ![e] = r.endpoint]
     /\ wire' = Write(Consumed(e), socketOf[e], Peer[e], r.writes)
     /\ received' = IF IsNext(endpoint[e], m)
                    THEN [received EXCEPT ![e] = Append(@, m.data)] ELSE received
     /\ UNCHANGED <<socketOf, sent, up, clientVars, serverVars, faults>>

SendAckTimeout(e) ==
  LET r == SendAck(endpoint[e]) IN
  /\ Running(e)
  /\ AckIsDue(endpoint[e])
  /\ endpoint' = [endpoint EXCEPT ![e] = r.endpoint]
  /\ wire' = Write(wire, socketOf[e], Peer[e], r.writes)
  /\ UNCHANGED <<socketOf, sent, received, up, clientVars, serverVars, faults>>

----------------------------------------------------------------------------
(* Sockets *)

LinkFails(k) ==
  /\ k \in up
  /\ faults < MaxFaults
  /\ up' = up \ {k}
  /\ faults' = faults + 1
  /\ UNCHANGED <<endpoint, socketOf, sent, received, wire, clientVars, serverVars>>

\* onSocketClose at the client: starts the reconnection loop, if it is not
\* running already.
ClientSocketCloses ==
  LET k == socketOf["client"] IN
  /\ k \in Socket \ up
  /\ socketOf' = [socketOf EXCEPT !["client"] = NoSocket]
  /\ wire' = Unread(wire, k, "client")
  /\ phase' = IF phase = "connected" THEN "waiting" ELSE phase
  /\ UNCHANGED <<endpoint, sent, received, up, controlMessages, serverVars, faults>>

\* onSocketTimeout at the client: messages have waited for an
\* acknowledgement for too long.  The socket stays until the next attempt.
ClientSocketTimesOut ==
  /\ phase = "connected"
  /\ endpoint["client"].outgoingMsgId > endpoint["client"].outgoingAckId
  /\ faults < MaxFaults
  /\ phase' = "waiting"
  /\ faults' = faults + 1
  /\ UNCHANGED <<endpoint, socketOf, sent, received, wire, up, controlMessages, serverVars>>

\* Mutant: the grace timer is not scheduled.
ServerForgetsTimer ==
  LET k == socketOf["server"] IN
  /\ k \in Socket \ up
  /\ socketOf' = [socketOf EXCEPT !["server"] = NoSocket]
  /\ wire' = Unread(wire, k, "server")
  /\ UNCHANGED <<endpoint, sent, received, up, clientVars, serverVars, faults>>

\* onSocketClose at the server: wait for a reconnection.
ServerSocketCloses ==
  LET k == socketOf["server"] IN
  /\ k \in Socket \ up
  /\ socketOf' = [socketOf EXCEPT !["server"] = NoSocket]
  /\ wire' = Unread(wire, k, "server")
  /\ timers' = timers \cup {"long"}
  /\ UNCHANGED <<endpoint, sent, received, up, clientVars, handshake, managed, faults>>

\* A socket whose handshake has not got to its end.
HandshakeSocketCloses(k) ==
  /\ handshake[k] # "none"
  /\ k \notin up
  /\ handshake' = [handshake EXCEPT ![k] = "none"]
  /\ wire' = Unread(wire, k, "server")
  /\ UNCHANGED <<endpoint, socketOf, sent, received, up, clientVars, managed, timers, faults>>

----------------------------------------------------------------------------
(* The reconnection loop of the client *)

\* Mutant: beginAcceptReconnection does not flush the control messages.
ConnectUnflushed(k) ==
  LET old == socketOf["client"] IN
  /\ phase = "waiting"
  /\ Free(k)
  /\ \A j \in Socket : Free(j) => k <= j
  /\ endpoint' = [endpoint EXCEPT !["client"] = BeginAcceptReconnection(@)]
  /\ socketOf' = [socketOf EXCEPT !["client"] = k]
  /\ up' = (up \ {old}) \cup {k}
  /\ wire' = [Unread(wire, old, "client") EXCEPT ![k]["server"] = <<Control("auth")>>]
  /\ handshake' = [handshake EXCEPT ![k] = "waitingForAuth"]
  /\ phase' = "auth"
  /\ UNCHANGED <<sent, received, controlMessages, managed, timers, faults>>

\* A new socket, beginAcceptReconnection and the auth request.
Connect(k) ==
  LET old == socketOf["client"] IN
  /\ phase = "waiting"
  /\ Free(k)
  /\ \A j \in Socket : Free(j) => k <= j
  /\ endpoint' = [endpoint EXCEPT !["client"] = BeginAcceptReconnection(@)]
  /\ socketOf' = [socketOf EXCEPT !["client"] = k]
  /\ up' = (up \ {old}) \cup {k}
  /\ wire' = [Unread(wire, old, "client") EXCEPT ![k]["server"] = <<Control("auth")>>]
  /\ handshake' = [handshake EXCEPT ![k] = "waitingForAuth"]
  /\ controlMessages' = <<>>
  /\ phase' = "auth"
  /\ UNCHANGED <<sent, received, managed, timers, faults>>

\* Mutant: anything that arrives is taken for a control message.
AnythingArrives == Waiting("client")

\* A control message arrives at the client.  The listener an attempt has
\* registered takes the oldest of those buffered and this one; without a
\* listener they are buffered.
ControlArrives == Waiting("client") /\ Oldest("client").type = "Control"
Attempting == phase \in {"auth", "connectionType"}

BufferControlMessage ==
  /\ ~Attempting
  /\ ControlArrives
  /\ controlMessages' = Append(controlMessages, Oldest("client").data)
  /\ wire' = Consumed("client")
  /\ UNCHANGED <<endpoint, socketOf, sent, received, up, phase, serverVars, faults>>

\* What the listener of an attempt gets next, and what is left of it.
ControlMessage ==
  IF ~Attempting THEN NoData
  ELSE IF controlMessages # <<>> THEN Head(controlMessages)
  ELSE IF ControlArrives THEN Oldest("client").data
  ELSE NoData
WithoutControl == IF controlMessages # <<>> THEN wire ELSE Consumed("client")
RestOfControl == IF controlMessages # <<>> THEN Tail(controlMessages) ELSE <<>>

SignArrives ==
  /\ phase = "auth"
  /\ ControlMessage = "sign"
  /\ wire' = Write(WithoutControl, socketOf["client"], "server", <<Control("connectionType")>>)
  /\ controlMessages' = RestOfControl
  /\ phase' = "connectionType"
  /\ UNCHANGED <<endpoint, socketOf, sent, received, up, serverVars, faults>>

\* The second message of the handshake, whatever it is unless an error.
HandshakeFinishes ==
  LET r == EndAcceptReconnection(endpoint["client"]) IN
  /\ phase = "connectionType"
  /\ ControlMessage \notin {NoData, "error"}
  /\ endpoint' = [endpoint EXCEPT !["client"] = r.endpoint]
  /\ wire' = Write(WithoutControl, socketOf["client"], "server", r.writes)
  /\ controlMessages' = RestOfControl
  /\ phase' = "connected"
  /\ UNCHANGED <<socketOf, sent, received, up, serverVars, faults>>

\* The client is done with the connection and destroys its socket.
ClientLeaves(w, how) ==
  /\ phase' = how
  /\ socketOf' = [socketOf EXCEPT !["client"] = NoSocket]
  /\ wire' = Unread(w, socketOf["client"], "client")
  /\ up' = up \ {socketOf["client"]}
  /\ controlMessages' = <<>>
  /\ UNCHANGED <<endpoint, sent, received, serverVars, faults>>

\* An error, or a first message that is not the expected one, is permanent.
HandshakeRefused ==
  /\ \/ ControlMessage = "error"
     \/ phase = "auth" /\ ControlMessage \notin {NoData, "sign"}
  /\ ClientLeaves(wire, "failed")

\* No answer in time, or the socket has closed meanwhile: try again.
AttemptTimesOut ==
  /\ Attempting
  /\ IF socketOf["client"] \in up THEN faults < MaxFaults /\ faults' = faults + 1
     ELSE UNCHANGED faults
  /\ phase' = "waiting"
  /\ UNCHANGED <<endpoint, socketOf, sent, received, wire, up, controlMessages, serverVars>>

\* The same after the reconnection grace time: give up.
ClientGivesUp == Attempting /\ ClientLeaves(wire, "gaveUp")

\* The window goes: end sends a disconnect message and drains the socket.
\* A window that is killed sends none.
WindowCloses ==
  /\ Running("client")
  /\ \E ms \in {<<>>, <<Disconnect>>} :
       ClientLeaves(Write(wire, socketOf["client"], "server", ms), "ended")

----------------------------------------------------------------------------
(* The handshake at the server: the temporary protocol of a new socket *)

HandshakeMessage(k, state, d) ==
  /\ handshake[k] = state
  /\ wire[k]["server"] # <<>>
  /\ Head(wire[k]["server"]) = Control(d)

ServerReceivesAuth(k) ==
  /\ HandshakeMessage(k, "waitingForAuth", "auth")
  /\ wire' = Write([wire EXCEPT ![k]["server"] = Tail(@)], k, "client", <<Control("sign")>>)
  /\ handshake' = [handshake EXCEPT ![k] = "waitingForConnectionType"]
  /\ UNCHANGED <<endpoint, socketOf, sent, received, up, clientVars, managed, timers, faults>>

\* What the temporary protocol reads but nobody listens to.
ServerDiscards(k) ==
  /\ handshake[k] # "none"
  /\ wire[k]["server"] # <<>>
  /\ Head(wire[k]["server"]).type # "Control"
  /\ wire' = [wire EXCEPT ![k]["server"] = Tail(@)]
  /\ UNCHANGED <<endpoint, socketOf, sent, received, up, clientVars, serverVars, faults>>

\* shortenReconnectionGraceTimeIfNecessary, after any valid handshake.
Shortened(ts) == IF "long" \in ts THEN ts \cup {"short"} ELSE ts

\* Mutant: only the long timer is cancelled.
AcceptKeepingShort(k) ==
  LET old == socketOf["server"]
      r == EndAcceptReconnection(BeginAcceptReconnection(endpoint["server"]))
      w == [Unread(wire, old, "server") EXCEPT ![k]["server"] = Tail(@)]
  IN /\ HandshakeMessage(k, "waitingForConnectionType", "connectionType")
     /\ managed
     /\ endpoint' = [endpoint EXCEPT !["server"] = r.endpoint]
     /\ socketOf' = [socketOf EXCEPT !["server"] = k]
     /\ up' = up \ {old}
     /\ wire' = Write(w, k, "client", <<Control("ok")>> \o r.writes)
     /\ handshake' = [handshake EXCEPT ![k] = "none"]
     /\ timers' = timers \ {"long"}
     /\ UNCHANGED <<sent, received, clientVars, managed, faults>>

\* Mutant: the old socket is not destroyed.
AcceptBesideOld(k) ==
  LET r == EndAcceptReconnection(BeginAcceptReconnection(endpoint["server"])) IN
  /\ HandshakeMessage(k, "waitingForConnectionType", "connectionType")
  /\ managed
  /\ endpoint' = [endpoint EXCEPT !["server"] = r.endpoint]
  /\ socketOf' = [socketOf EXCEPT !["server"] = k]
  /\ wire' = Write([Unread(wire, socketOf["server"], "server") EXCEPT ![k]["server"] = Tail(@)],
                   k, "client", <<Control("ok")>> \o r.writes)
  /\ handshake' = [handshake EXCEPT ![k] = "none"]
  /\ timers' = {}
  /\ UNCHANGED <<sent, received, up, clientVars, managed, faults>>

\* acceptReconnection: the timers are cancelled, the old socket destroyed,
\* and the connection's own protocol takes the new one over.
ServerAcceptsReconnection(k) ==
  LET old == socketOf["server"]
      r == EndAcceptReconnection(BeginAcceptReconnection(endpoint["server"]))
      w == [Unread(wire, old, "server") EXCEPT ![k]["server"] = Tail(@)]
  IN /\ HandshakeMessage(k, "waitingForConnectionType", "connectionType")
     /\ managed
     /\ endpoint' = [endpoint EXCEPT !["server"] = r.endpoint]
     /\ socketOf' = [socketOf EXCEPT !["server"] = k]
     /\ up' = up \ {old}
     /\ wire' = Write(w, k, "client", <<Control("ok")>> \o r.writes)
     /\ handshake' = [handshake EXCEPT ![k] = "none"]
     /\ timers' = {}
     /\ UNCHANGED <<sent, received, clientVars, managed, faults>>

\* _rejectWebSocketConnection: the connection has been disposed.
ServerRejectsReconnection(k) ==
  /\ HandshakeMessage(k, "waitingForConnectionType", "connectionType")
  /\ ~managed
  /\ wire' = Unread(Write(wire, k, "client", <<Control("error")>>), k, "server")
  /\ up' = up \ {k}
  /\ handshake' = [handshake EXCEPT ![k] = "none"]
  /\ UNCHANGED <<endpoint, socketOf, sent, received, clientVars, managed, timers, faults>>

----------------------------------------------------------------------------
(* The life of the connection at the server *)

\* Another window connects.
OtherClientConnects ==
  /\ timers' = Shortened(timers)
  /\ UNCHANGED <<endpoint, socketOf, sent, received, wire, up, clientVars, handshake, managed, faults>>

\* _cleanResources: the connection is disposed and its socket ended.
CleanResources(w) ==
  LET k == socketOf["server"] IN
  /\ managed' = FALSE
  /\ timers' = {}
  /\ socketOf' = [socketOf EXCEPT !["server"] = NoSocket]
  /\ wire' = Unread(Write(w, k, "client", <<Disconnect>>), k, "server")
  /\ up' = up \ {k}
  /\ UNCHANGED <<endpoint, sent, received, clientVars, handshake, faults>>

GraceTimeExpires == timers # {} /\ CleanResources(wire)

ServerReceivesDisconnect ==
  /\ Waiting("server")
  /\ Oldest("server").type = "Disconnect"
  /\ CleanResources(wire)

----------------------------------------------------------------------------
\* The client reads its socket, the server the connection's, and the
\* temporary protocols theirs.
ClientReads ==
  \/ ReceiveMessage("client")
  \/ BufferControlMessage \/ SignArrives \/ HandshakeFinishes \/ HandshakeRefused
ServerReads == ReceiveMessage("server") \/ ServerReceivesDisconnect
HandshakeReads(k) ==
  \/ ServerReceivesAuth(k) \/ ServerDiscards(k)
  \/ ServerAcceptsReconnection(k) \/ ServerRejectsReconnection(k)
  \/ HandshakeSocketCloses(k)

Next ==
  \/ ClientReads \/ ServerReads
  \/ \E e \in End : SendMessage(e) \/ SendAckTimeout(e)
  \/ \E k \in Socket : LinkFails(k) \/ Connect(k) \/ HandshakeReads(k)
  \/ ClientSocketCloses \/ ClientSocketTimesOut \/ ServerSocketCloses
  \/ AttemptTimesOut \/ ClientGivesUp \/ WindowCloses
  \/ OtherClientConnects \/ GraceTimeExpires

Spec == Init /\ [][Next]_vars

\* Sockets are read, closed sockets are noticed, timers expire, the client
\* goes on trying.  Nothing makes an end send or a link fail.
Fairness ==
  /\ WF_vars(ClientReads) /\ WF_vars(ServerReads)
  /\ \A k \in Socket : WF_vars(HandshakeReads(k))
  /\ WF_vars(ClientSocketCloses) /\ WF_vars(ServerSocketCloses)
  /\ WF_vars(\E k \in Socket : Connect(k)) /\ WF_vars(AttemptTimesOut)
  /\ WF_vars(GraceTimeExpires)

FairSpec == Spec /\ Fairness

----------------------------------------------------------------------------
(* Properties *)

TypeOK ==
  /\ endpoint \in [End -> Endpoint]
  /\ socketOf \in [End -> Socket \cup {NoSocket}]
  /\ sent \in [End -> Seq(Data)]
  /\ received \in [End -> Seq(Data)]
  /\ wire \in [Socket -> [End -> Seq(Message)]]
  /\ up \subseteq Socket
  /\ phase \in {"connected", "waiting", "auth", "connectionType", "failed", "gaveUp", "ended"}
  /\ controlMessages \in Seq(ControlData)
  /\ handshake \in [Socket -> {"none", "waitingForAuth", "waitingForConnectionType"}]
  /\ managed \in BOOLEAN
  /\ timers \subseteq {"long", "short"}
  /\ faults \in 0..MaxFaults

\* The connection is a reliable channel in both directions: whatever
\* sockets break and however often the client reconnects, each end's
\* listeners get what the other end sent, in order and once.
Channel == INSTANCE ReliableChannel WITH sent <- sent, received <- received
ImplementsChannel == Channel!Spec

\* No end forgets a message before the other has it: what is numbered
\* beyond the peer's last received message is kept for the next
\* reconnection (outgoingUnackMsg), with the content that was sent.
UndeliveredIsKept ==
  \A e \in End :
    \A id \in endpoint[Peer[e]].incomingMsgId + 1 .. endpoint[e].outgoingMsgId :
      \E i \in 1..Len(endpoint[e].outgoingUnackMsg) :
        LET m == endpoint[e].outgoingUnackMsg[i] IN m.id = id /\ m.data = sent[e][id]

\* Sockets keep the order, so that a message after a gap, the reason for
\* replay requests (throttled to one in ten seconds), never arrives.
NoGap ==
  \A e \in End : Waiting(e) => ~IsGap(endpoint[e], Oldest(e))

\* A client that believes to be connected, over a socket that works, has
\* the connection's own protocol at the other end: no answer to an
\* earlier attempt completes a later one.
ConnectedToEachOther ==
  phase = "connected" /\ socketOf["client"] \in up => socketOf["server"] = socketOf["client"]

\* The client takes a failed handshake for final only if the server has
\* disposed the connection.
FailureIsFinal == phase = "failed" => ~managed

\* No grace timer runs while the server holds a socket: a connection in
\* use, or just taken up again, is never disposed by one.
GraceTimersOnlyWhenClosed == timers # {} => managed /\ socketOf["server"] = NoSocket

\* Once faults cease, everything sent arrives, unless an end is gone.
EverythingArrives ==
  \A e \in End : \A n \in 1..Len(ToSend[e]) :
    Len(sent[e]) >= n ~> Len(received[Peer[e]]) >= n \/ ~Running("client") \/ ~managed

\* The server disposes the connection of a client that is gone.
GoneClientsAreDisposed == ~Running("client") ~> ~managed
=============================================================================
