------------------------- MODULE PersistentProtocol -------------------------
(***************************************************************************)
(* PersistentProtocol of base/parts/ipc/common/ipc.net.ts: one end of a    *)
(* connection that survives its sockets.  Regular messages are numbered,   *)
(* kept until the peer acknowledges them and sent again after every        *)
(* reconnection; acknowledgements ride on other messages or are sent after *)
(* two seconds without one.                                                *)
(*                                                                         *)
(* Each method is an operator on the fields of one end.  It yields the     *)
(* fields after the call and the messages written to the current socket;   *)
(* RemoteConnection says where they go.  A paused or a not yet flushed     *)
(* ProtocolWriter only delays what is written, as a slow socket does.      *)
(***************************************************************************)
EXTENDS Naturals, Sequences

CONSTANTS
  Data,   \* what is sent in regular messages
  NoData  \* the content of a message that has none

ASSUME NoDataAssumption == NoData \notin Data

\* The control messages of the connection handshake.
ControlData == {"auth", "sign", "connectionType", "ok", "error"}
ASSUME ControlAssumption == Data \cap ControlData = {} /\ NoData \notin ControlData

Message ==
  [type : {"Regular", "Control", "Ack", "Disconnect", "ReplayRequest"},
   id : Nat, ack : Nat, data : Data \cup ControlData \cup {NoData}]

Regular(id, ack, d) == [type |-> "Regular", id |-> id, ack |-> ack, data |-> d]
Control(d)          == [type |-> "Control", id |-> 0, ack |-> 0, data |-> d]
AckMessage(ack)     == [type |-> "Ack", id |-> 0, ack |-> ack, data |-> NoData]
Disconnect          == [type |-> "Disconnect", id |-> 0, ack |-> 0, data |-> NoData]
ReplayRequest       == [type |-> "ReplayRequest", id |-> 0, ack |-> 0, data |-> NoData]

\* The fields of one end.  replayRequested: a replay request was written
\* less than ten seconds ago (_lastReplayRequestTime).
Endpoint ==
  [outgoingMsgId : Nat, outgoingAckId : Nat, outgoingUnackMsg : Seq(Message),
   incomingMsgId : Nat, incomingAckId : Nat,
   isReconnecting : BOOLEAN, replayRequested : BOOLEAN]

NewEndpoint ==
  [outgoingMsgId |-> 0, outgoingAckId |-> 0, outgoingUnackMsg |-> <<>>,
   incomingMsgId |-> 0, incomingAckId |-> 0,
   isReconnecting |-> FALSE, replayRequested |-> FALSE]

----------------------------------------------------------------------------
\* Mutant: the message is written although the end is reconnecting.
SendAnyway(p, d) ==
  LET m == Regular(p.outgoingMsgId + 1, p.incomingMsgId, d)
  IN [endpoint |-> [p EXCEPT !.outgoingMsgId = @ + 1,
                             !.incomingAckId = p.incomingMsgId,
                             !.outgoingUnackMsg = Append(@, m)],
      writes   |-> <<m>>]

\* send: number the message and keep it; while reconnecting, the end of the
\* reconnection writes it.
Send(p, d) ==
  LET m == Regular(p.outgoingMsgId + 1, p.incomingMsgId, d)
  IN [endpoint |-> [p EXCEPT !.outgoingMsgId = @ + 1,
                             !.incomingAckId = p.incomingMsgId,
                             !.outgoingUnackMsg = Append(@, m)],
      writes   |-> IF p.isReconnecting THEN <<>> ELSE <<m>>]

\* _sendAck, and a keep-alive message that carries a new acknowledgement.
AckIsDue(p) == p.incomingMsgId > p.incomingAckId
SendAck(p) ==
  [endpoint |-> [p EXCEPT !.incomingAckId = p.incomingMsgId],
   writes   |-> <<AckMessage(p.incomingMsgId)>>]

\* Mutant: every message is taken for confirmed.
DropAll(queue, ack) == <<>>

\* The loop that pops the confirmed messages off the front of the queue.
DropConfirmed(queue, ack) ==
  LET n == CHOOSE i \in 0..Len(queue) :
             /\ \A j \in 1..i : queue[j].id <= ack
             /\ i < Len(queue) => queue[i + 1].id > ack
  IN SubSeq(queue, n + 1, Len(queue))

\* _receiveMessage, first part: what the message acknowledges.
ReceiveAck(p, m) ==
  IF m.ack > p.outgoingAckId
  THEN [p EXCEPT !.outgoingAckId = m.ack,
                 !.outgoingUnackMsg = DropConfirmed(@, m.ack)]
  ELSE p

\* Mutant: a message that was received already is not recognised.
IsNotBefore(p, m) == m.type = "Regular" /\ m.id \in {p.incomingMsgId, p.incomingMsgId + 1}

\* A regular message is handed to the listeners if it is the next one.
IsNext(p, m) == m.type = "Regular" /\ m.id = p.incomingMsgId + 1
IsGap(p, m) == m.type = "Regular" /\ m.id > p.incomingMsgId + 1

\* _receiveMessage: an old message is ignored, one after a gap makes the
\* end ask for the missing ones, a replay request is answered with
\* everything unacknowledged.
Receive(p, m) ==
  LET q == ReceiveAck(p, m)
  IN [endpoint |-> IF IsNext(q, m) THEN [q EXCEPT !.incomingMsgId = m.id]
                   ELSE IF IsGap(q, m) THEN [q EXCEPT !.replayRequested = TRUE]
                   ELSE q,
      writes   |-> IF IsGap(q, m) /\ ~q.replayRequested THEN <<ReplayRequest>>
                   ELSE IF m.type = "ReplayRequest" THEN q.outgoingUnackMsg
                   ELSE <<>>]

\* The end moves to a new socket; nothing regular is written until
\* endAcceptReconnection.
BeginAcceptReconnection(p) ==
  [p EXCEPT !.isReconnecting = TRUE, !.replayRequested = FALSE]

\* Mutant: the peer is told what was received, but nothing is sent again.
EndWithoutReplay(p) ==
  [endpoint |-> [p EXCEPT !.isReconnecting = FALSE, !.incomingAckId = p.incomingMsgId],
   writes   |-> <<AckMessage(p.incomingMsgId)>>]

\* The peer is told what was received and sent what it may have missed.
EndAcceptReconnection(p) ==
  [endpoint |-> [p EXCEPT !.isReconnecting = FALSE, !.incomingAckId = p.incomingMsgId],
   writes   |-> <<AckMessage(p.incomingMsgId)>> \o p.outgoingUnackMsg]
=============================================================================
