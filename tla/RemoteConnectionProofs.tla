----------------------- MODULE RemoteConnectionProofs -----------------------
(***************************************************************************)
(* Proofs about RemoteConnection, for any sockets, messages and number of  *)
(* faults: the connection implements a reliable channel, and the handshake *)
(* of a reconnection joins a client and a server that are meant for each   *)
(* other, and sockets that replace one another still deliver without gaps. *)
(***************************************************************************)
EXTENDS RemoteConnection, SequenceTheorems, TLAPS

USE NoDataAssumption, ControlAssumption, SocketAssumption, NoSocketAssumption,
    ToSendAssumption, MaxFaultsAssumption

----------------------------------------------------------------------------
(* One end                                                                 *)

\* What an end that has received n messages and sent s may have under way.
HonestOf(n, s) ==
  {m \in Message : /\ m.ack <= n
                   /\ m.type = "Regular" => m.id \in 1..Len(s) /\ m.data = s[m.id]
                   /\ m.type = "Control" => m.data \in ControlData}

\* The messages kept are those the peer has not confirmed, all of them and in
\* order.
QueueInv(p, s) ==
  /\ p.outgoingMsgId = Len(s)
  /\ p.outgoingAckId <= Len(s)
  /\ Len(p.outgoingUnackMsg) = Len(s) - p.outgoingAckId
  /\ \A i \in 1..Len(p.outgoingUnackMsg) :
       LET m == p.outgoingUnackMsg[i] IN
       /\ m.type = "Regular" /\ m.ack <= p.incomingMsgId
       /\ m.id = p.outgoingAckId + i /\ m.data = s[m.id]

\* Of an end with the fields p that has sent s and received r.
EndInv(p, s, r) ==
  /\ p \in Endpoint /\ s \in Seq(Data) /\ r \in Seq(Data)
  /\ Len(r) = p.incomingMsgId
  /\ QueueInv(p, s)

LEMMA HonestGrows ==
  ASSUME NEW n \in Nat, NEW n2 \in Nat, n <= n2, NEW s \in Seq(Data)
  PROVE  /\ HonestOf(n, s) \subseteq HonestOf(n2, s)
         /\ \A d \in Data : HonestOf(n, s) \subseteq HonestOf(n2, Append(s, d))
<1>1. ASSUME NEW m \in HonestOf(n, s)
      PROVE  m \in HonestOf(n2, s)
  BY DEF HonestOf, Message
<1>2. ASSUME NEW m \in HonestOf(n, s), NEW d \in Data
      PROVE  m \in HonestOf(n2, Append(s, d))
  <2>1. Len(Append(s, d)) = Len(s) + 1 /\ \A i \in 1..Len(s) : Append(s, d)[i] = s[i]
    BY AppendProperties
  <2> QED
    BY <2>1 DEF HonestOf, Message
<1> QED
  BY <1>1, <1>2

LEMMA ControlsAreHonest ==
  ASSUME NEW n \in Nat, NEW s
  PROVE  /\ \A d \in ControlData : Control(d) \in HonestOf(n, s)
         /\ Disconnect \in HonestOf(n, s) /\ ReplayRequest \in HonestOf(n, s)
         /\ AckMessage(n) \in HonestOf(n, s)
BY DEF Control, Disconnect, ReplayRequest, AckMessage, HonestOf, Message, ControlData

LEMMA QueueIsHonest ==
  ASSUME NEW p, NEW s, NEW r, EndInv(p, s, r)
  PROVE  p.outgoingUnackMsg \in Seq(HonestOf(p.incomingMsgId, s))
<1> DEFINE q == p.outgoingUnackMsg
<1>1. q \in Seq(Message) /\ p.incomingMsgId \in Nat /\ p.outgoingAckId \in Nat /\ Len(s) \in Nat
  BY DEF EndInv, Endpoint
<1>2. ASSUME NEW i \in 1..Len(q)
      PROVE  q[i] \in HonestOf(p.incomingMsgId, s)
  <2>1. q[i] \in Message
    BY <1>1, ElementOfSeq
  <2>2. /\ q[i].type = "Regular" /\ q[i].ack <= p.incomingMsgId
        /\ q[i].id = p.outgoingAckId + i /\ q[i].data = s[q[i].id]
    BY DEF EndInv, QueueInv
  <2>3. q[i].id \in 1..Len(s)
    BY <1>1, <2>2 DEF EndInv, QueueInv
  <2> QED
    BY <2>1, <2>2, <2>3 DEF HonestOf
<1> HIDE DEF q
<1>3. q \in Seq(HonestOf(p.incomingMsgId, s))
  <2>1. Len(q) \in Nat /\ q = [i \in 1..Len(q) |-> q[i]]
    BY <1>1, LenProperties
  <2> QED
    BY <1>2, <2>1
<1> QED
  BY <1>3 DEF q

LEMMA SendInv ==
  ASSUME NEW p, NEW s, NEW r, EndInv(p, s, r), NEW d \in Data
  PROVE  /\ EndInv(Send(p, d).endpoint, Append(s, d), r)
         /\ Send(p, d).writes \in Seq(HonestOf(p.incomingMsgId, Append(s, d)))
         /\ Send(p, d).endpoint.incomingMsgId = p.incomingMsgId
         /\ Send(p, d).endpoint.outgoingAckId = p.outgoingAckId
<1> DEFINE m == Regular(p.outgoingMsgId + 1, p.incomingMsgId, d)
           t == Append(s, d)
           q == p.outgoingUnackMsg
           u == Send(p, d).endpoint
<1>1. /\ p \in Endpoint /\ s \in Seq(Data) /\ r \in Seq(Data) /\ q \in Seq(Message)
      /\ p.incomingMsgId \in Nat /\ p.outgoingAckId \in Nat /\ Len(s) \in Nat
      /\ Len(r) = p.incomingMsgId /\ p.outgoingMsgId = Len(s)
  BY DEF EndInv, Endpoint, QueueInv
<1>2. t \in Seq(Data) /\ Len(t) = Len(s) + 1 /\ (\A i \in 1..Len(s) : t[i] = s[i]) /\ t[Len(s) + 1] = d
  BY <1>1, AppendProperties
<1>3. m \in Message /\ m \in HonestOf(p.incomingMsgId, t)
  BY <1>1, <1>2 DEF Regular, HonestOf, Message
<1>4. /\ u = [p EXCEPT !.outgoingMsgId = @ + 1, !.incomingAckId = p.incomingMsgId,
                       !.outgoingUnackMsg = Append(@, m)]
      /\ Send(p, d).writes = IF p.isReconnecting THEN <<>> ELSE <<m>>
  BY DEF Send
<1>5. /\ Append(q, m) \in Seq(Message) /\ Len(Append(q, m)) = Len(q) + 1
      /\ \A i \in 1..Len(q) : Append(q, m)[i] = q[i]
      /\ Append(q, m)[Len(q) + 1] = m
  BY <1>1, <1>3, AppendProperties
<1>6. /\ m.type = "Regular" /\ m.id = Len(s) + 1 /\ m.ack = p.incomingMsgId /\ m.data = d
  BY <1>1 DEF Regular
<1> HIDE DEF m, t, q, u
<1>7. /\ u \in Endpoint /\ u.outgoingMsgId = Len(s) + 1 /\ u.outgoingUnackMsg = Append(q, m)
      /\ u.incomingMsgId = p.incomingMsgId /\ u.outgoingAckId = p.outgoingAckId
  <2>1. Append(p.outgoingUnackMsg, m) \in Seq(Message)
    BY <1>5 DEF q
  <2>2. p.outgoingMsgId + 1 \in Nat /\ p.outgoingMsgId + 1 = Len(s) + 1
    BY <1>1
  <2>3. u \in Endpoint
    BY <1>1, <1>4, <2>1, <2>2 DEF Endpoint
  <2> QED
    BY <1>1, <1>4, <2>2, <2>3 DEF Endpoint, q
<1>8. QueueInv(u, t)
  <2>1. p.outgoingAckId <= Len(s) /\ Len(q) = Len(s) - p.outgoingAckId
    BY DEF EndInv, QueueInv, q
  <2>2. ASSUME NEW i \in 1..Len(q) + 1
        PROVE  LET x == Append(q, m)[i] IN
               /\ x.type = "Regular" /\ x.ack <= p.incomingMsgId
               /\ x.id = p.outgoingAckId + i /\ x.data = t[x.id]
    <3>1. CASE i = Len(q) + 1
      <4>1. Append(q, m)[i] = m
        BY <1>5, <3>1
      <4>2. p.outgoingAckId + i = Len(s) + 1
        BY <1>1, <2>1, <3>1
      <4>3. p.incomingMsgId <= p.incomingMsgId
        BY <1>1
      <4> QED
        BY <1>2, <1>6, <4>1, <4>2, <4>3
    <3>2. CASE i \in 1..Len(q)
      <4>1. /\ q[i].type = "Regular" /\ q[i].ack <= p.incomingMsgId
            /\ q[i].id = p.outgoingAckId + i /\ q[i].data = s[q[i].id]
        BY <3>2 DEF EndInv, QueueInv, q
      <4>2. p.outgoingAckId + i \in 1..Len(s)
        BY <1>1, <2>1, <3>2
      <4> QED
        BY <1>2, <1>5, <3>2, <4>1, <4>2
    <3> QED
      BY <1>1, <2>1, <3>1, <3>2
  <2>3. u.outgoingMsgId = Len(t) /\ u.outgoingAckId <= Len(t)
        /\ Len(u.outgoingUnackMsg) = Len(t) - u.outgoingAckId
    BY <1>1, <1>2, <1>5, <1>7, <2>1
  <2>4. \A i \in 1..Len(u.outgoingUnackMsg) :
          LET x == u.outgoingUnackMsg[i] IN
          /\ x.type = "Regular" /\ x.ack <= u.incomingMsgId
          /\ x.id = u.outgoingAckId + i /\ x.data = t[x.id]
    BY <1>5, <1>7, <2>2
  <2> QED
    BY <2>3, <2>4 DEF QueueInv
<1>9. Send(p, d).writes \in Seq(HonestOf(p.incomingMsgId, t))
  <2>1. <<m>> \in Seq(HonestOf(p.incomingMsgId, t)) /\ <<>> \in Seq(HonestOf(p.incomingMsgId, t))
    BY <1>3
  <2> QED
    BY <1>4, <2>1
<1> QED
  BY <1>1, <1>2, <1>7, <1>8, <1>9 DEF EndInv, t, u

LEMMA DropConfirmedIs ==
  ASSUME NEW p, NEW s, NEW r, EndInv(p, s, r),
         NEW ack \in Nat, p.outgoingAckId < ack, ack <= Len(s)
  PROVE  DropConfirmed(p.outgoingUnackMsg, ack)
           = SubSeq(p.outgoingUnackMsg, ack - p.outgoingAckId + 1, Len(p.outgoingUnackMsg))
<1> DEFINE q == p.outgoingUnackMsg
           n == ack - p.outgoingAckId
           P(i) == /\ \A j \in 1..i : q[j].id <= ack
                   /\ i < Len(q) => q[i + 1].id > ack
<1>1. /\ p.outgoingAckId \in Nat /\ Len(s) \in Nat /\ Len(q) \in Nat
      /\ Len(q) = Len(s) - p.outgoingAckId
      /\ \A i \in 1..Len(q) : q[i].id = p.outgoingAckId + i
  BY DEF EndInv, Endpoint, QueueInv
<1>2. n \in 1..Len(q)
  BY <1>1
<1> HIDE DEF q
<1>3. P(n)
  <2>1. \A j \in 1..n : j \in 1..Len(q) /\ p.outgoingAckId + j <= ack
    BY <1>1, <1>2
  <2>2. n < Len(q) => n + 1 \in 1..Len(q) /\ p.outgoingAckId + (n + 1) > ack
    BY <1>1, <1>2
  <2> HIDE DEF n
  <2>3. \A j \in 1..n : q[j].id <= ack
    BY <1>1, <2>1
  <2>4. n < Len(q) => q[n + 1].id > ack
    BY <1>1, <2>2
  <2> QED
    BY <2>3, <2>4
<1>4. ASSUME NEW i \in 0..Len(q), P(i)
      PROVE  i = n
  <2>1. i <= n
    <3>1. CASE i = 0
      BY <1>2, <3>1
    <3>2. CASE i \in 1..Len(q)
      <4>1. i \in 1..i
        BY <3>2
      <4>2. q[i].id <= ack
        BY <1>4, <4>1
      <4>3. q[i].id = p.outgoingAckId + i
        BY <1>1, <3>2
      <4> QED
        BY <1>1, <3>2, <4>2, <4>3
    <3> QED
      BY <1>1, <3>1, <3>2
  <2>2. i < Len(q) => p.outgoingAckId + i + 1 > ack
    <3> SUFFICES ASSUME i < Len(q)
                 PROVE  p.outgoingAckId + i + 1 > ack
      OBVIOUS
    <3>1. q[i + 1].id > ack
      BY <1>4
    <3>2. i + 1 \in 1..Len(q)
      BY <1>1
    <3>3. q[i + 1].id = p.outgoingAckId + (i + 1)
      BY <1>1, <3>2
    <3> QED
      BY <1>1, <3>1, <3>3
  <2> QED
    BY <1>1, <1>2, <2>1, <2>2
<1> HIDE DEF P, n
<1>5. (CHOOSE i \in 0..Len(q) : P(i)) = n
  <2>1. n \in 0..Len(q)
    BY <1>1, <1>2
  <2> QED
    BY <1>3, <1>4, <2>1
<1> QED
  BY <1>5 DEF DropConfirmed, P, n, q

LEMMA ReceiveAckInv ==
  ASSUME NEW p, NEW s, NEW r, EndInv(p, s, r), NEW m \in Message, m.ack <= Len(s)
  PROVE  /\ EndInv(ReceiveAck(p, m), s, r)
         /\ ReceiveAck(p, m).incomingMsgId = p.incomingMsgId
         /\ ReceiveAck(p, m).outgoingAckId \in {p.outgoingAckId, m.ack}
<1>1. CASE ~(m.ack > p.outgoingAckId)
  BY <1>1 DEF ReceiveAck
<1>2. CASE m.ack > p.outgoingAckId
  <2> DEFINE q == p.outgoingUnackMsg
             n == m.ack - p.outgoingAckId
             t == SubSeq(q, n + 1, Len(q))
             u == [p EXCEPT !.outgoingAckId = m.ack, !.outgoingUnackMsg = t]
  <2>1. /\ p \in Endpoint /\ s \in Seq(Data) /\ r \in Seq(Data) /\ Len(r) = p.incomingMsgId
        /\ p.outgoingMsgId = Len(s)
        /\ p.outgoingAckId \in Nat /\ Len(s) \in Nat /\ Len(q) \in Nat /\ q \in Seq(Message)
        /\ Len(q) = Len(s) - p.outgoingAckId /\ m.ack \in Nat
    BY DEF EndInv, Endpoint, QueueInv, Message
  <2>2. \A i \in 1..Len(q) :
          /\ q[i].type = "Regular" /\ q[i].ack <= p.incomingMsgId
          /\ q[i].id = p.outgoingAckId + i /\ q[i].data = s[q[i].id]
    BY DEF EndInv, QueueInv
  <2>3. ReceiveAck(p, m) = u
    BY <1>2, <2>1, DropConfirmedIs DEF ReceiveAck
  <2>4. n \in 1..Len(q)
    BY <1>2, <2>1
  <2>5. t \in Seq(Message) /\ Len(t) = Len(q) - n /\ \A i \in 1..Len(q) - n : t[i] = q[n + i]
    <3>1. \A i \in n + 1..Len(q) : q[i] \in Message
      BY <2>1, <2>4, ElementOfSeq
    <3>2. /\ t \in Seq(Message)
          /\ Len(t) = IF n + 1 <= Len(q) THEN Len(q) - (n + 1) + 1 ELSE 0
          /\ \A i \in 1..Len(q) - (n + 1) + 1 : t[i] = q[(n + 1) + i - 1]
      <4> DEFINE a == n + 1
                 z == Len(q)
      <4>1. q \in Seq(Message) /\ a \in Nat /\ z \in Nat /\ \A i \in a..z : q[i] \in Message
        BY <2>1, <2>4, <3>1
      <4>2. a \in 1..Len(q) + 1 /\ z \in 0..Len(q)
        BY <2>1, <2>4
      <4>3. t = SubSeq(q, a, z)
        OBVIOUS
      <4> HIDE DEF q, n, a, z, t
      <4>4. /\ t \in Seq(Message)
            /\ Len(t) = IF a <= z THEN z - a + 1 ELSE 0
            /\ \A i \in 1..z - a + 1 : t[i] = q[a + i - 1]
        BY <4>1, <4>2, <4>3, SubSeqProperties
      <4> QED
        BY <4>4 DEF a, z
    <3> HIDE DEF t, n, q
    <3>3. Len(t) = Len(q) - n
      <4>1. Len(q) \in Nat /\ Len(t) = IF n + 1 <= Len(q) THEN Len(q) - (n + 1) + 1 ELSE 0
        BY <2>1, <3>2
      <4> QED
        BY <2>4, <4>1
    <3>4. \A i \in 1..Len(q) - n : t[i] = q[n + i]
      <4> SUFFICES ASSUME NEW i \in 1..Len(q) - n
                   PROVE  t[i] = q[n + i]
        OBVIOUS
      <4>1. (n + 1) + i - 1 = n + i /\ i \in 1..Len(q) - (n + 1) + 1
        BY <2>1, <2>4
      <4>2. t[i] = q[(n + 1) + i - 1]
        BY <3>2, <4>1
      <4> QED
        BY <4>1, <4>2
    <3> QED
      BY <3>2, <3>3, <3>4
  <2>6. n = m.ack - p.outgoingAckId
    OBVIOUS
  <2> HIDE DEF t, n, q
  <2>7. /\ u \in Endpoint /\ u.outgoingMsgId = Len(s) /\ u.outgoingAckId = m.ack
        /\ u.outgoingUnackMsg = t /\ u.incomingMsgId = p.incomingMsgId
    BY <2>1, <2>5 DEF Endpoint
  <2> HIDE DEF u
  <2>8. QueueInv(u, s)
    <3>1. Len(t) = Len(s) - m.ack
      BY <2>1, <2>4, <2>5, <2>6
    <3>2. ASSUME NEW i \in 1..Len(t)
          PROVE  LET x == t[i] IN
                 /\ x.type = "Regular" /\ x.ack <= p.incomingMsgId
                 /\ x.id = m.ack + i /\ x.data = s[x.id]
      <4>1. i \in 1..Len(q) - n /\ t[i] = q[n + i]
        BY <2>5
      <4>2. n + i \in 1..Len(q)
        <5>1. Len(q) \in Nat
          BY <2>1
        <5> QED
          BY <2>4, <4>1, <5>1
      <4>3. p.outgoingAckId + (n + i) = m.ack + i
        <5>1. p.outgoingAckId \in Nat /\ m.ack \in Nat /\ i \in Nat
          BY <2>1
        <5> QED
          BY <2>6, <5>1
      <4> QED
        BY <2>2, <4>1, <4>2, <4>3
    <3> QED
      BY <2>7, <3>1, <3>2 DEF QueueInv
  <2> QED
    BY <2>1, <2>3, <2>7, <2>8 DEF EndInv
<1> QED
  BY <1>1, <1>2

LEMMA FlagsInv ==
  ASSUME NEW p, NEW s, NEW r, EndInv(p, s, r), NEW b \in BOOLEAN, NEW c \in BOOLEAN, NEW n \in Nat
  PROVE  /\ EndInv([p EXCEPT !.replayRequested = b], s, r)
         /\ EndInv([p EXCEPT !.incomingAckId = n], s, r)
         /\ EndInv([p EXCEPT !.isReconnecting = b, !.replayRequested = c], s, r)
         /\ EndInv([p EXCEPT !.isReconnecting = b, !.incomingAckId = n], s, r)
BY DEF EndInv, QueueInv, Endpoint

\* The methods that only write what is kept and acknowledge what was received.
LEMMA AcknowledgeInv ==
  ASSUME NEW p, NEW s, NEW r, EndInv(p, s, r)
  PROVE  /\ \A q \in {SendAck(p).endpoint, BeginAcceptReconnection(p), EndAcceptReconnection(p).endpoint} :
              EndInv(q, s, r) /\ q.incomingMsgId = p.incomingMsgId /\ q.outgoingAckId = p.outgoingAckId
         /\ SendAck(p).writes \in Seq(HonestOf(p.incomingMsgId, s))
         /\ EndAcceptReconnection(p).writes \in Seq(HonestOf(p.incomingMsgId, s))
<1>1. p \in Endpoint /\ p.incomingMsgId \in Nat
  BY DEF EndInv, Endpoint
<1>2. /\ EndInv(SendAck(p).endpoint, s, r)
      /\ EndInv(BeginAcceptReconnection(p), s, r)
      /\ EndInv(EndAcceptReconnection(p).endpoint, s, r)
  BY <1>1, FlagsInv DEF SendAck, BeginAcceptReconnection, EndAcceptReconnection
<1>3. \A q \in {SendAck(p).endpoint, BeginAcceptReconnection(p), EndAcceptReconnection(p).endpoint} :
        q.incomingMsgId = p.incomingMsgId /\ q.outgoingAckId = p.outgoingAckId
  BY <1>1 DEF SendAck, BeginAcceptReconnection, EndAcceptReconnection, Endpoint
<1>4. <<AckMessage(p.incomingMsgId)>> \in Seq(HonestOf(p.incomingMsgId, s))
  BY <1>1, ControlsAreHonest
<1>5. p.outgoingUnackMsg \in Seq(HonestOf(p.incomingMsgId, s))
  BY QueueIsHonest
<1>6. SendAck(p).writes = <<AckMessage(p.incomingMsgId)>>
      /\ EndAcceptReconnection(p).writes = <<AckMessage(p.incomingMsgId)>> \o p.outgoingUnackMsg
  BY DEF SendAck, EndAcceptReconnection
<1>7. <<AckMessage(p.incomingMsgId)>> \o p.outgoingUnackMsg \in Seq(HonestOf(p.incomingMsgId, s))
  BY <1>4, <1>5, ConcatProperties
<1> QED
  BY <1>2, <1>3, <1>4, <1>6, <1>7

LEMMA ReceiveInv ==
  ASSUME NEW p, NEW s, NEW r, EndInv(p, s, r), NEW m \in Message, m.ack <= Len(s),
         m.type = "Regular" => m.data \in Data
  PROVE  /\ EndInv(Receive(p, m).endpoint, s, IF IsNext(p, m) THEN Append(r, m.data) ELSE r)
         /\ Receive(p, m).writes \in Seq(HonestOf(p.incomingMsgId, s))
         /\ Receive(p, m).endpoint.incomingMsgId = IF IsNext(p, m) THEN m.id ELSE p.incomingMsgId
         /\ Receive(p, m).endpoint.outgoingAckId \in {p.outgoingAckId, m.ack}
<1> DEFINE q == ReceiveAck(p, m)
           u == Receive(p, m).endpoint
<1>1. /\ EndInv(q, s, r) /\ q.incomingMsgId = p.incomingMsgId
      /\ q.outgoingAckId \in {p.outgoingAckId, m.ack}
  BY ReceiveAckInv
<1>2. /\ q \in Endpoint /\ r \in Seq(Data) /\ q.incomingMsgId \in Nat /\ m.id \in Nat
      /\ Len(r) = q.incomingMsgId
  BY <1>1 DEF EndInv, Endpoint, Message
<1>3. IsNext(q, m) = IsNext(p, m)
  BY <1>1 DEF IsNext
<1>4. q.outgoingUnackMsg \in Seq(HonestOf(p.incomingMsgId, s))
  BY <1>1, QueueIsHonest
<1>5. u = IF IsNext(q, m) THEN [q EXCEPT !.incomingMsgId = m.id]
          ELSE IF IsGap(q, m) THEN [q EXCEPT !.replayRequested = TRUE]
          ELSE q
  BY DEF Receive
<1>6. Receive(p, m).writes \in {<<ReplayRequest>>, q.outgoingUnackMsg, <<>>}
  BY DEF Receive
<1> HIDE DEF q, u
<1>7. Receive(p, m).writes \in Seq(HonestOf(p.incomingMsgId, s))
  <2>1. ReplayRequest \in HonestOf(p.incomingMsgId, s)
    BY <1>1, <1>2, ControlsAreHonest
  <2>2. <<ReplayRequest>> \in Seq(HonestOf(p.incomingMsgId, s)) /\ <<>> \in Seq(HonestOf(p.incomingMsgId, s))
    BY <2>1
  <2> QED
    BY <1>4, <1>6, <2>2
<1>8. CASE IsNext(p, m)
  <2>1. m.id = q.incomingMsgId + 1 /\ m.type = "Regular"
    BY <1>1, <1>8 DEF IsNext
  <2>2. /\ u \in Endpoint /\ u.incomingMsgId = m.id /\ u.outgoingAckId = q.outgoingAckId
        /\ u.outgoingMsgId = q.outgoingMsgId /\ u.outgoingUnackMsg = q.outgoingUnackMsg
    BY <1>2, <1>3, <1>5, <1>8 DEF Endpoint
  <2>3. Append(r, m.data) \in Seq(Data) /\ Len(Append(r, m.data)) = m.id
    BY <1>2, <2>1, AppendProperties
  <2>4. QueueInv(u, s)
    <3>1. \A i \in 1..Len(q.outgoingUnackMsg) :
            q.outgoingUnackMsg[i].ack <= m.id
      <4>1. \A i \in 1..Len(q.outgoingUnackMsg) :
              q.outgoingUnackMsg[i].ack <= q.incomingMsgId /\ q.outgoingUnackMsg[i].ack \in Nat
        <5>1. q.outgoingUnackMsg \in Seq(Message)
          BY <1>2 DEF Endpoint
        <5>2. \A i \in 1..Len(q.outgoingUnackMsg) : q.outgoingUnackMsg[i] \in Message
          BY <5>1, ElementOfSeq
        <5>3. \A i \in 1..Len(q.outgoingUnackMsg) : q.outgoingUnackMsg[i].ack <= q.incomingMsgId
          BY <1>1 DEF EndInv, QueueInv
        <5> QED
          BY <5>2, <5>3 DEF Message
      <4> QED
        BY <1>2, <2>1, <4>1
    <3> QED
      BY <1>1, <2>2, <3>1 DEF EndInv, QueueInv
  <2> QED
    BY <1>1, <1>7, <1>8, <2>2, <2>3, <2>4 DEF EndInv, u
<1>9. CASE ~IsNext(p, m)
  <2>1. u = IF IsGap(q, m) THEN [q EXCEPT !.replayRequested = TRUE] ELSE q
    BY <1>3, <1>5, <1>9
  <2>2. EndInv(u, s, r) /\ u.incomingMsgId = q.incomingMsgId /\ u.outgoingAckId = q.outgoingAckId
    BY <1>1, <1>2, <2>1, FlagsInv DEF Endpoint
  <2> QED
    BY <1>1, <1>7, <1>9, <2>2 DEF u
<1> QED
  BY <1>8, <1>9

----------------------------------------------------------------------------
(* Both ends and the sockets between them                                  *)

LEMMA Peers ==
  ASSUME NEW e \in End
  PROVE  Peer[e] \in End /\ Peer[Peer[e]] = e /\ Peer[e] # e
BY DEF End, Peer

\* Neither end takes for delivered what the other has not received, or for
\* received what the other has not sent.
EndsInv(ep, st, rc) ==
  /\ ep \in [End -> Endpoint] /\ st \in [End -> Seq(Data)] /\ rc \in [End -> Seq(Data)]
  /\ \A e \in End :
       /\ EndInv(ep[e], st[e], rc[e])
       /\ ep[e].outgoingAckId <= ep[Peer[e]].incomingMsgId
       /\ ep[e].incomingMsgId <= Len(st[Peer[e]])

\* The messages that may be under way to each end.
Honest(ep, st) == [e \in End |-> HonestOf(ep[Peer[e]].incomingMsgId, st[Peer[e]])]

Wires(w, h) ==
  /\ w \in [Socket -> [End -> Seq(Message)]]
  /\ \A k \in Socket : \A e \in End : w[k][e] \in Seq(h[e])

\* The server's own protocol and the handshakes read different sockets.
RestOK ==
  /\ \A k \in Socket : handshake[k] # "none" => socketOf["server"] # k
  /\ socketOf \in [End -> Socket \cup {NoSocket}]
  /\ up \subseteq Socket
  /\ phase \in {"connected", "waiting", "auth", "connectionType", "failed", "gaveUp", "ended"}
  /\ controlMessages \in Seq(ControlData)
  /\ handshake \in [Socket -> {"none", "waitingForAuth", "waitingForConnectionType"}]
  /\ managed \in BOOLEAN
  /\ timers \subseteq {"long", "short"}
  /\ faults \in 0..MaxFaults

ChannelInv ==
  /\ EndsInv(endpoint, sent, received)
  /\ Wires(wire, Honest(endpoint, sent))
  /\ RestOK

\* One end is called: its listeners or its users may see one message more.
LEMMA EndStep ==
  ASSUME NEW ep, NEW st, NEW rc, EndsInv(ep, st, rc), NEW e \in End,
         NEW p, NEW s, NEW r, EndInv(p, s, r),
         ep[e].incomingMsgId <= p.incomingMsgId, p.incomingMsgId <= Len(st[Peer[e]]),
         p.outgoingAckId <= ep[Peer[e]].incomingMsgId,
         s = st[e] \/ \E d \in Data : s = Append(st[e], d)
  PROVE  LET ep2 == [ep EXCEPT ![e] = p]
             st2 == [st EXCEPT ![e] = s]
         IN /\ EndsInv(ep2, st2, [rc EXCEPT ![e] = r])
            /\ \A f \in End : Honest(ep, st)[f] \subseteq Honest(ep2, st2)[f]
<1> DEFINE ep2 == [ep EXCEPT ![e] = p]
           st2 == [st EXCEPT ![e] = s]
           rc2 == [rc EXCEPT ![e] = r]
<1>1. /\ ep \in [End -> Endpoint] /\ st \in [End -> Seq(Data)] /\ rc \in [End -> Seq(Data)]
      /\ \A f \in End :
           /\ EndInv(ep[f], st[f], rc[f])
           /\ ep[f].outgoingAckId <= ep[Peer[f]].incomingMsgId
           /\ ep[f].incomingMsgId <= Len(st[Peer[f]])
  BY DEF EndsInv
<1>2. p \in Endpoint /\ s \in Seq(Data) /\ r \in Seq(Data)
  BY DEF EndInv
<1>3. /\ ep2 \in [End -> Endpoint] /\ st2 \in [End -> Seq(Data)] /\ rc2 \in [End -> Seq(Data)]
      /\ ep2[e] = p /\ st2[e] = s /\ rc2[e] = r
      /\ ep2[Peer[e]] = ep[Peer[e]] /\ st2[Peer[e]] = st[Peer[e]] /\ rc2[Peer[e]] = rc[Peer[e]]
  BY <1>1, <1>2, Peers
<1>4. \A f \in End : f = e \/ f = Peer[e]
  BY DEF End, Peer
<1>5. Len(st[e]) <= Len(s) /\ Len(st[e]) \in Nat /\ Len(s) \in Nat
  BY <1>1, <1>2, AppendProperties
<1>6. \A f \in End : ep[f].incomingMsgId \in Nat /\ ep[f].outgoingAckId \in Nat
  BY <1>1 DEF Endpoint
<1>7. p.incomingMsgId \in Nat
  BY <1>2 DEF Endpoint
<1> HIDE DEF ep2, st2, rc2
<1>8. EndsInv(ep2, st2, rc2)
  <2>1. /\ EndInv(ep2[e], st2[e], rc2[e])
        /\ ep2[e].outgoingAckId <= ep2[Peer[e]].incomingMsgId
        /\ ep2[e].incomingMsgId <= Len(st2[Peer[e]])
    BY <1>3
  <2>2. /\ EndInv(ep2[Peer[e]], st2[Peer[e]], rc2[Peer[e]])
        /\ ep2[Peer[e]].outgoingAckId <= ep2[Peer[Peer[e]]].incomingMsgId
        /\ ep2[Peer[e]].incomingMsgId <= Len(st2[Peer[Peer[e]]])
    <3>1. /\ Peer[e] \in End /\ Peer[Peer[e]] = e
          /\ ep[Peer[e]].outgoingAckId <= ep[e].incomingMsgId
          /\ ep[Peer[e]].incomingMsgId <= Len(st[e])
      BY <1>1, Peers
    <3>2. EndInv(ep[Peer[e]], st[Peer[e]], rc[Peer[e]])
      BY <1>1, <3>1
    <3>3. ep[Peer[e]].outgoingAckId <= p.incomingMsgId
      BY <1>6, <1>7, <3>1
    <3>4. ep[Peer[e]].incomingMsgId <= Len(s)
      BY <1>5, <1>6, <3>1
    <3> QED
      BY <1>3, <3>1, <3>2, <3>3, <3>4
  <2> QED
    BY <1>3, <1>4, <2>1, <2>2 DEF EndsInv
<1>9. \A f \in End : Honest(ep, st)[f] \subseteq Honest(ep2, st2)[f]
  <2>1. HonestOf(ep[e].incomingMsgId, st[e]) \subseteq HonestOf(p.incomingMsgId, s)
    BY <1>1, <1>6, <1>7, HonestGrows
  <2>2. Honest(ep, st)[Peer[e]] \subseteq Honest(ep2, st2)[Peer[e]]
    BY <1>3, <2>1, Peers DEF Honest
  <2>3. Honest(ep, st)[e] \subseteq Honest(ep2, st2)[e]
    BY <1>3 DEF Honest
  <2> QED
    BY <1>4, <2>2, <2>3
<1> QED
  BY <1>8, <1>9 DEF ep2, st2, rc2

LEMMA HonestIsTyped ==
  ASSUME NEW ep, NEW st, NEW e \in End
  PROVE  Honest(ep, st)[e] \subseteq Message
BY DEF Honest, HonestOf

LEMMA WiresGrow ==
  ASSUME NEW w, NEW h, NEW h2, Wires(w, h), \A e \in End : h[e] \subseteq h2[e]
  PROVE  Wires(w, h2)
<1>1. ASSUME NEW k \in Socket, NEW e \in End
      PROVE  w[k][e] \in Seq(h2[e])
  BY SeqMonotonic DEF Wires
<1> QED
  BY <1>1 DEF Wires

\* One queue of a socket changes.
LEMMA WireStep ==
  ASSUME NEW w, NEW ep, NEW st, Wires(w, Honest(ep, st)),
         NEW k \in Socket, NEW e \in End, NEW q \in Seq(Honest(ep, st)[e])
  PROVE  Wires([w EXCEPT ![k][e] = q], Honest(ep, st))
<1> DEFINE h == Honest(ep, st)
           w2 == [w EXCEPT ![k][e] = q]
<1>1. q \in Seq(Message)
  BY HonestIsTyped, SeqMonotonic
<1>2. w \in [Socket -> [End -> Seq(Message)]] /\ \A j \in Socket : \A f \in End : w[j][f] \in Seq(h[f])
  BY DEF Wires
<1> HIDE DEF h
<1>3. w2 \in [Socket -> [End -> Seq(Message)]]
  BY <1>1, <1>2
<1>4. ASSUME NEW j \in Socket, NEW f \in End
      PROVE  w2[j][f] \in Seq(h[f])
  <2>1. q \in Seq(h[e])
    BY DEF h
  <2>2. w2[j][f] = IF j = k /\ f = e THEN q ELSE w[j][f]
    BY <1>2
  <2> QED
    BY <1>2, <2>1, <2>2
<1> QED
  BY <1>3, <1>4 DEF Wires, h

LEMMA WriteInv ==
  ASSUME NEW w, NEW ep, NEW st, Wires(w, Honest(ep, st)), up \subseteq Socket,
         NEW k, NEW e \in End, NEW ms \in Seq(Honest(ep, st)[e])
  PROVE  Wires(Write(w, k, e, ms), Honest(ep, st))
<1>1. CASE k \in up
  <2>1. w[k][e] \in Seq(Honest(ep, st)[e])
    BY <1>1 DEF Wires
  <2>2. w[k][e] \o ms \in Seq(Honest(ep, st)[e])
    BY <2>1, ConcatProperties
  <2>3. Write(w, k, e, ms) = [w EXCEPT ![k][e] = w[k][e] \o ms]
    BY <1>1 DEF Write
  <2>4. k \in Socket
    BY <1>1
  <2>5. Wires([w EXCEPT ![k][e] = w[k][e] \o ms], Honest(ep, st))
    BY <2>2, <2>4, WireStep
  <2> QED
    BY <2>3, <2>5
<1>2. CASE k \notin up
  BY <1>2 DEF Write
<1> QED
  BY <1>1, <1>2

LEMMA UnreadInv ==
  ASSUME NEW w, NEW ep, NEW st, Wires(w, Honest(ep, st)), NEW k, NEW e \in End
  PROVE  Wires(Unread(w, k, e), Honest(ep, st))
<1>1. <<>> \in Seq(Honest(ep, st)[e])
  OBVIOUS
<1> QED
  BY <1>1, WireStep DEF Unread

\* The oldest message is read from one queue.
LEMMA ReadInv ==
  ASSUME NEW w, NEW ep, NEW st, Wires(w, Honest(ep, st)),
         NEW k \in Socket, NEW e \in End, w[k][e] # <<>>
  PROVE  /\ Head(w[k][e]) \in Honest(ep, st)[e]
         /\ Wires([w EXCEPT ![k][e] = Tail(@)], Honest(ep, st))
<1>1. w[k][e] \in Seq(Honest(ep, st)[e])
  BY DEF Wires
<1>2. Head(w[k][e]) \in Honest(ep, st)[e] /\ Tail(w[k][e]) \in Seq(Honest(ep, st)[e])
  BY <1>1, HeadTailProperties
<1>3. [w EXCEPT ![k][e] = Tail(@)] = [w EXCEPT ![k][e] = Tail(w[k][e])]
  OBVIOUS
<1> QED
  BY <1>2, <1>3, WireStep

LEMMA ConsumedInv ==
  ASSUME NEW e \in End, ChannelInv, Waiting(e)
  PROVE  /\ Oldest(e) \in Honest(endpoint, sent)[e]
         /\ Wires(Consumed(e), Honest(endpoint, sent))
BY ReadInv DEF ChannelInv, Waiting, Oldest, Consumed

----------------------------------------------------------------------------
(* Steps that leave the protocols of the ends alone                        *)

LEMMA Quiet ==
  ASSUME ChannelInv, UNCHANGED <<endpoint, sent, received>>,
         Wires(wire', Honest(endpoint, sent)), RestOK'
  PROVE  ChannelInv'
BY DEF ChannelInv

LEMMA Known ==
  ASSUME ChannelInv
  PROVE  /\ RestOK /\ up \subseteq Socket /\ controlMessages \in Seq(ControlData)
         /\ Wires(wire, Honest(endpoint, sent))
         /\ \A e \in End : socketOf[e] \in Socket \cup {NoSocket}
BY DEF ChannelInv, RestOK

LEMMA Controls ==
  ASSUME ChannelInv, NEW e \in End, NEW d \in ControlData
  PROVE  /\ <<Control(d)>> \in Seq(Honest(endpoint, sent)[e])
         /\ <<Disconnect>> \in Seq(Honest(endpoint, sent)[e])
         /\ <<>> \in Seq(Honest(endpoint, sent)[e])
<1>1. endpoint[Peer[e]].incomingMsgId \in Nat
  BY Peers DEF ChannelInv, EndsInv, EndInv, Endpoint
<1>2. Control(d) \in Honest(endpoint, sent)[e] /\ Disconnect \in Honest(endpoint, sent)[e]
  BY <1>1, ControlsAreHonest DEF Honest
<1> QED
  BY <1>2

\* What the listener of an attempt gets, and what is left then.
LEMMA ControlInv ==
  ASSUME ChannelInv, ControlMessage # NoData
  PROVE  /\ Attempting
         /\ Wires(WithoutControl, Honest(endpoint, sent))
         /\ RestOfControl \in Seq(ControlData)
<1>1. "client" \in End
  BY DEF End
<1>2. CASE controlMessages # <<>>
  <2>1. Tail(controlMessages) \in Seq(ControlData)
    BY <1>2, Known, HeadTailProperties
  <2> QED
    BY <1>2, <2>1, Known DEF ControlMessage, WithoutControl, RestOfControl
<1>3. CASE controlMessages = <<>>
  <2>1. Waiting("client") /\ Attempting
    BY <1>3 DEF ControlMessage, ControlArrives
  <2> QED
    BY <1>1, <1>3, <2>1, ConsumedInv DEF WithoutControl, RestOfControl
<1> QED
  BY <1>2, <1>3

LEMMA BufferStep ==
  ASSUME ChannelInv, BufferControlMessage
  PROVE  ChannelInv' /\ UNCHANGED <<sent, received>>
<1>1. "client" \in End /\ Waiting("client") /\ Oldest("client").type = "Control"
  BY DEF End, BufferControlMessage, ControlArrives
<1>2. Oldest("client") \in Honest(endpoint, sent)["client"] /\ Wires(wire', Honest(endpoint, sent))
  BY <1>1, ConsumedInv DEF BufferControlMessage
<1>3. Oldest("client").data \in ControlData
  BY <1>1, <1>2 DEF Honest, HonestOf
<1>4. controlMessages' \in Seq(ControlData)
  BY <1>3, Known, AppendProperties DEF BufferControlMessage
<1> QED
  BY <1>2, <1>4, Known, Quiet DEF BufferControlMessage, RestOK, serverVars

LEMMA SignStep ==
  ASSUME ChannelInv, SignArrives
  PROVE  ChannelInv' /\ UNCHANGED <<sent, received>>
<1>1. ControlMessage # NoData
  BY DEF SignArrives, ControlData
<1>2. "server" \in End /\ "connectionType" \in ControlData
  BY DEF End, ControlData
<1>3. Wires(wire', Honest(endpoint, sent))
  BY <1>1, <1>2, ControlInv, Controls, Known, WriteInv DEF SignArrives
<1>4. controlMessages' \in Seq(ControlData)
  BY <1>1, ControlInv DEF SignArrives
<1> QED
  BY <1>3, <1>4, Known, Quiet DEF SignArrives, RestOK, serverVars

\* The client leaves with the sockets in the state w.
LEMMA LeaveStep ==
  ASSUME ChannelInv, NEW w, Wires(w, Honest(endpoint, sent)),
         NEW how \in {"failed", "gaveUp", "ended"}, ClientLeaves(w, how)
  PROVE  ChannelInv' /\ UNCHANGED <<sent, received>>
<1>1. Wires(wire', Honest(endpoint, sent))
  BY UnreadInv DEF ClientLeaves, End
<1>2. UNCHANGED <<endpoint, sent, received>>
  BY DEF ClientLeaves
<1>3. RestOK'
  <2>1. RestOK
    BY Known
  <2>2. controlMessages' \in Seq(ControlData)
    <3>1. controlMessages' = <<>>
      BY DEF ClientLeaves
    <3> QED
      BY <3>1, EmptySeq
  <2>3. up' \subseteq Socket
    <3>1. up' \subseteq up
      BY DEF ClientLeaves
    <3> QED
      BY <2>1, <3>1 DEF RestOK
  <2>4. socketOf' \in [End -> Socket \cup {NoSocket}]
    BY <2>1 DEF ClientLeaves, RestOK
  <2> QED
    BY <2>1, <2>2, <2>3, <2>4 DEF ClientLeaves, RestOK, serverVars
<1> QED
  BY <1>1, <1>2, <1>3, Quiet

LEMMA ClientEnds ==
  ASSUME ChannelInv, HandshakeRefused \/ ClientGivesUp \/ WindowCloses
  PROVE  ChannelInv' /\ UNCHANGED <<sent, received>>
<1>1. CASE HandshakeRefused \/ ClientGivesUp
  BY <1>1, Known, LeaveStep DEF HandshakeRefused, ClientGivesUp
<1>2. CASE WindowCloses
  <2>1. PICK ms \in {<<>>, <<Disconnect>>} : ClientLeaves(Write(wire, socketOf["client"], "server", ms), "ended")
    BY <1>2 DEF WindowCloses
  <2>2. "server" \in End /\ "error" \in ControlData
    BY DEF End, ControlData
  <2>3. ms \in Seq(Honest(endpoint, sent)["server"])
    BY <2>2, Controls
  <2>4. Wires(Write(wire, socketOf["client"], "server", ms), Honest(endpoint, sent))
    BY <2>2, <2>3, Known, WriteInv
  <2> QED
    BY <2>1, <2>4, LeaveStep
<1> QED
  BY <1>1, <1>2

LEMMA CleanStep ==
  ASSUME ChannelInv, GraceTimeExpires \/ ServerReceivesDisconnect
  PROVE  ChannelInv' /\ UNCHANGED <<sent, received>>
<1>1. CleanResources(wire)
  BY DEF GraceTimeExpires, ServerReceivesDisconnect
<1>2. "client" \in End /\ "server" \in End /\ "error" \in ControlData
  BY DEF End, ControlData
<1>3. Wires(Write(wire, socketOf["server"], "client", <<Disconnect>>), Honest(endpoint, sent))
  BY <1>2, Controls, Known, WriteInv
<1>4. Wires(wire', Honest(endpoint, sent))
  BY <1>1, <1>2, <1>3, UnreadInv DEF CleanResources
<1>5. UNCHANGED <<endpoint, sent, received>>
  BY <1>1 DEF CleanResources
<1>6. RestOK'
  <2>1. RestOK
    BY Known
  <2>2. /\ managed' \in BOOLEAN /\ timers' \subseteq {"long", "short"} /\ up' \subseteq Socket
        /\ UNCHANGED <<phase, controlMessages, handshake, faults>>
    BY <1>1, <2>1 DEF CleanResources, RestOK, clientVars
  <2>3. socketOf' \in [End -> Socket \cup {NoSocket}] /\ socketOf'["server"] = NoSocket
    BY <1>1, <1>2, <2>1 DEF CleanResources, RestOK
  <2> QED
    BY <2>1, <2>2, <2>3 DEF RestOK
<1> QED
  BY <1>4, <1>5, <1>6, Quiet

\* The handshakes at the server, but for the one that takes the socket over.
LEMMA HandshakeStep ==
  ASSUME ChannelInv, NEW k \in Socket,
         \/ ServerReceivesAuth(k) \/ ServerDiscards(k)
         \/ ServerRejectsReconnection(k) \/ HandshakeSocketCloses(k)
  PROVE  ChannelInv' /\ UNCHANGED <<sent, received>>
<1>1. /\ "client" \in End /\ "server" \in End
      /\ "sign" \in ControlData /\ "error" \in ControlData
  BY DEF End, ControlData
<1>2. CASE ServerReceivesAuth(k)
  <2>1. Wires([wire EXCEPT ![k]["server"] = Tail(@)], Honest(endpoint, sent))
    BY <1>1, <1>2, Known, ReadInv DEF ServerReceivesAuth, HandshakeMessage
  <2>2. Wires(wire', Honest(endpoint, sent))
    BY <1>1, <1>2, <2>1, Controls, Known, WriteInv DEF ServerReceivesAuth
  <2> QED
    <3>1. RestOK'
      BY <1>2, Known DEF ServerReceivesAuth, HandshakeMessage, RestOK, clientVars
    <3> QED
      BY <1>2, <2>2, <3>1, Quiet DEF ServerReceivesAuth
<1>3. CASE ServerDiscards(k)
  <2>1. Wires(wire', Honest(endpoint, sent))
    BY <1>1, <1>3, Known, ReadInv DEF ServerDiscards
  <2> QED
    BY <1>3, <2>1, Known, Quiet DEF ServerDiscards, RestOK, clientVars, serverVars
<1>4. CASE ServerRejectsReconnection(k)
  <2>1. Wires(Write(wire, k, "client", <<Control("error")>>), Honest(endpoint, sent))
    BY <1>1, Controls, Known, WriteInv
  <2>2. Wires(wire', Honest(endpoint, sent))
    BY <1>1, <1>4, <2>1, UnreadInv DEF ServerRejectsReconnection
  <2> QED
    BY <1>4, <2>2, Known, Quiet DEF ServerRejectsReconnection, RestOK, clientVars
<1>5. CASE HandshakeSocketCloses(k)
  <2>1. Wires(wire', Honest(endpoint, sent))
    BY <1>1, <1>5, Known, UnreadInv DEF HandshakeSocketCloses
  <2> QED
    BY <1>5, <2>1, Known, Quiet DEF HandshakeSocketCloses, RestOK, clientVars
<1> QED
  BY <1>2, <1>3, <1>4, <1>5

LEMMA SocketStep ==
  ASSUME ChannelInv,
         \/ \E k \in Socket : LinkFails(k)
         \/ ClientSocketCloses \/ ClientSocketTimesOut \/ ServerSocketCloses
         \/ AttemptTimesOut \/ OtherClientConnects
  PROVE  ChannelInv' /\ UNCHANGED <<sent, received>>
<1> USE Known
<1>1. ASSUME NEW k \in Socket, LinkFails(k)
      PROVE  ChannelInv' /\ UNCHANGED <<sent, received>>
  BY <1>1, MaxFaultsAssumption, Quiet DEF LinkFails, RestOK, clientVars, serverVars
<1>2. CASE ClientSocketCloses
  <2>1. Wires(wire', Honest(endpoint, sent))
    BY <1>2, UnreadInv DEF ClientSocketCloses, End
  <2> QED
    <3>1. RestOK
      OBVIOUS
    <3>2. RestOK'
      BY <1>2, <3>1 DEF ClientSocketCloses, RestOK, serverVars, End
    <3> QED
      BY <1>2, <2>1, <3>2, Quiet DEF ClientSocketCloses
<1>3. CASE ClientSocketTimesOut
  BY <1>3, MaxFaultsAssumption, Quiet DEF ClientSocketTimesOut, RestOK, serverVars
<1>4. CASE ServerSocketCloses
  <2>1. Wires(wire', Honest(endpoint, sent))
    BY <1>4, UnreadInv DEF ServerSocketCloses, End
  <2> QED
    <3>1. RestOK
      OBVIOUS
    <3>2. socketOf' \in [End -> Socket \cup {NoSocket}] /\ socketOf'["server"] = NoSocket
      BY <1>4, <3>1 DEF ServerSocketCloses, RestOK, End
    <3>3. RestOK'
      BY <1>4, <3>1, <3>2 DEF ServerSocketCloses, RestOK, clientVars
    <3> QED
      BY <1>4, <2>1, <3>3, Quiet DEF ServerSocketCloses
<1>5. CASE AttemptTimesOut
  BY <1>5, MaxFaultsAssumption, Quiet DEF AttemptTimesOut, RestOK, serverVars
<1>6. CASE OtherClientConnects
  BY <1>6, Quiet DEF OtherClientConnects, Shortened, RestOK, clientVars
<1> QED
  BY <1>1, <1>2, <1>3, <1>4, <1>5, <1>6

----------------------------------------------------------------------------
(* Steps in which the protocol of an end is called                         *)

LEMMA EndChange ==
  ASSUME ChannelInv, NEW e \in End, EndInv(endpoint'[e], sent'[e], received'[e]),
         endpoint[e].incomingMsgId <= endpoint'[e].incomingMsgId,
         endpoint'[e].incomingMsgId <= Len(sent[Peer[e]]),
         endpoint'[e].outgoingAckId <= endpoint[Peer[e]].incomingMsgId,
         sent'[e] = sent[e] \/ \E d \in Data : sent'[e] = Append(sent[e], d),
         endpoint' = [endpoint EXCEPT ![e] = endpoint'[e]],
         sent' = [sent EXCEPT ![e] = sent'[e]],
         received' = [received EXCEPT ![e] = received'[e]]
  PROVE  /\ EndsInv(endpoint', sent', received')
         /\ \A w : Wires(w, Honest(endpoint, sent)) => Wires(w, Honest(endpoint', sent'))
         /\ Honest(endpoint', sent')[Peer[e]] = HonestOf(endpoint'[e].incomingMsgId, sent'[e])
<1> DEFINE p == endpoint'[e]
           s == sent'[e]
           r == received'[e]
<1>1. EndsInv(endpoint, sent, received)
  BY DEF ChannelInv
<1>2. /\ EndInv(p, s, r)
      /\ endpoint[e].incomingMsgId <= p.incomingMsgId /\ p.incomingMsgId <= Len(sent[Peer[e]])
      /\ p.outgoingAckId <= endpoint[Peer[e]].incomingMsgId
      /\ s = sent[e] \/ \E d \in Data : s = Append(sent[e], d)
      /\ endpoint' = [endpoint EXCEPT ![e] = p]
      /\ sent' = [sent EXCEPT ![e] = s]
      /\ received' = [received EXCEPT ![e] = r]
  OBVIOUS
<1> HIDE DEF p, s, r
<1>3. LET ep2 == [endpoint EXCEPT ![e] = p]
          st2 == [sent EXCEPT ![e] = s]
      IN /\ EndsInv(ep2, st2, [received EXCEPT ![e] = r])
         /\ \A f \in End : Honest(endpoint, sent)[f] \subseteq Honest(ep2, st2)[f]
  <2>1. /\ EndInv(p, s, r)
        /\ endpoint[e].incomingMsgId <= p.incomingMsgId /\ p.incomingMsgId <= Len(sent[Peer[e]])
        /\ p.outgoingAckId <= endpoint[Peer[e]].incomingMsgId
        /\ s = sent[e] \/ \E d \in Data : s = Append(sent[e], d)
    BY <1>2
  <2> QED
    BY <1>1, <2>1, EndStep
<1>4. /\ EndsInv(endpoint', sent', received')
      /\ \A f \in End : Honest(endpoint, sent)[f] \subseteq Honest(endpoint', sent')[f]
  BY <1>2, <1>3
<1>5. Honest(endpoint', sent')[Peer[e]] = HonestOf(endpoint'[e].incomingMsgId, sent'[e])
  BY Peers DEF Honest
<1> QED
  BY <1>4, <1>5, WiresGrow

LEMMA EndsAreTyped ==
  ASSUME ChannelInv
  PROVE  /\ endpoint \in [End -> Endpoint]
         /\ sent \in [End -> Seq(Data)] /\ received \in [End -> Seq(Data)]
BY DEF ChannelInv, EndsInv

\* What is known of the ends before a step.
LEMMA EndFacts ==
  ASSUME ChannelInv, NEW e \in End
  PROVE  /\ EndInv(endpoint[e], sent[e], received[e])
         /\ endpoint[e].incomingMsgId \in Nat /\ endpoint[e].outgoingAckId \in Nat
         /\ endpoint[e].incomingMsgId <= Len(sent[Peer[e]])
         /\ endpoint[e].outgoingAckId <= endpoint[Peer[e]].incomingMsgId
         /\ endpoint[Peer[e]].incomingMsgId <= Len(sent[e])
         /\ sent[e] \in Seq(Data) /\ received[e] \in Seq(Data)
         /\ sent[Peer[e]] \in Seq(Data)
         /\ Len(received[e]) = endpoint[e].incomingMsgId
         /\ sent = [sent EXCEPT ![e] = sent[e]]
         /\ received = [received EXCEPT ![e] = received[e]]
<1>1. EndsInv(endpoint, sent, received)
  BY DEF ChannelInv
<1>2. Peer[e] \in End /\ Peer[Peer[e]] = e
  BY Peers
<1>3. /\ EndInv(endpoint[e], sent[e], received[e])
      /\ endpoint[e].incomingMsgId <= Len(sent[Peer[e]])
      /\ endpoint[e].outgoingAckId <= endpoint[Peer[e]].incomingMsgId
      /\ endpoint[Peer[e]].incomingMsgId <= Len(sent[e])
      /\ sent \in [End -> Seq(Data)] /\ received \in [End -> Seq(Data)]
  BY <1>1, <1>2 DEF EndsInv
<1>4. endpoint[e].incomingMsgId \in Nat /\ endpoint[e].outgoingAckId \in Nat
  BY <1>3 DEF EndInv, Endpoint
<1>5. Len(received[e]) = endpoint[e].incomingMsgId
  BY <1>3 DEF EndInv
<1> QED
  BY <1>2, <1>3, <1>4, <1>5

LEMMA SendStep ==
  ASSUME ChannelInv, NEW e \in End, SendMessage(e)
  PROVE  ChannelInv' /\ Channel!Send(e)
<1> DEFINE d == ToSend[e][Len(sent[e]) + 1]
           p == Send(endpoint[e], d).endpoint
           s == Append(sent[e], d)
<1>1. d \in Data
  <2>1. Len(sent[e]) + 1 \in 1..Len(ToSend[e]) /\ ToSend[e] \in Seq(Data)
    BY EndFacts, ToSendAssumption DEF SendMessage
  <2> QED
    BY <2>1, ElementOfSeq
<1>2. /\ endpoint' = [endpoint EXCEPT ![e] = p]
      /\ sent' = [sent EXCEPT ![e] = s]
      /\ wire' = Write(wire, socketOf[e], Peer[e], Send(endpoint[e], d).writes)
      /\ UNCHANGED <<socketOf, received, up, clientVars, serverVars, faults>>
  BY DEF SendMessage
<1> HIDE DEF d
<1>3. /\ EndInv(p, s, received[e])
      /\ p.incomingMsgId = endpoint[e].incomingMsgId
      /\ p.outgoingAckId = endpoint[e].outgoingAckId
      /\ Send(endpoint[e], d).writes \in Seq(HonestOf(p.incomingMsgId, s))
  BY <1>1, EndFacts, SendInv
<1> HIDE DEF p
<1>4. received' = [received EXCEPT ![e] = received[e]]
  BY <1>2, EndFacts
<1>5. /\ endpoint[e].incomingMsgId <= p.incomingMsgId /\ p.incomingMsgId <= Len(sent[Peer[e]])
      /\ p.outgoingAckId <= endpoint[Peer[e]].incomingMsgId
  BY <1>3, EndFacts
<1>6. s = sent[e] \/ \E x \in Data : s = Append(sent[e], x)
  BY <1>1
<1> HIDE DEF s
<1>7. /\ EndsInv(endpoint', sent', received')
      /\ \A w : Wires(w, Honest(endpoint, sent)) => Wires(w, Honest(endpoint', sent'))
      /\ Honest(endpoint', sent')[Peer[e]] = HonestOf(p.incomingMsgId, s)
  <2>1. endpoint'[e] = p /\ sent'[e] = s /\ received'[e] = received[e]
    BY <1>2, EndsAreTyped
  <2> QED
    <3>1. /\ EndInv(endpoint'[e], sent'[e], received'[e])
          /\ endpoint[e].incomingMsgId <= endpoint'[e].incomingMsgId
          /\ endpoint'[e].incomingMsgId <= Len(sent[Peer[e]])
          /\ endpoint'[e].outgoingAckId <= endpoint[Peer[e]].incomingMsgId
          /\ sent'[e] = sent[e] \/ \E x \in Data : sent'[e] = Append(sent[e], x)
      BY <1>3, <1>5, <1>6, <2>1
    <3>2. /\ endpoint' = [endpoint EXCEPT ![e] = endpoint'[e]]
          /\ sent' = [sent EXCEPT ![e] = sent'[e]]
          /\ received' = [received EXCEPT ![e] = received'[e]]
      BY <1>2, <1>4, <2>1
    <3> QED
      BY <2>1, <3>1, <3>2, EndChange
<1>8. Wires(wire', Honest(endpoint', sent'))
  BY <1>2, <1>3, <1>7, Known, Peers, WriteInv
<1>9. RestOK'
  BY <1>2, Known DEF RestOK, clientVars, serverVars
<1>10. ChannelInv'
  BY <1>7, <1>8, <1>9 DEF ChannelInv
<1>11. Channel!Send(e)
  BY <1>1, <1>2 DEF Channel!Send, s
<1> QED
  BY <1>10, <1>11

LEMMA ReceiveStep ==
  ASSUME ChannelInv, NEW e \in End, ReceiveMessage(e)
  PROVE  ChannelInv' /\ (Channel!Receive(e) \/ UNCHANGED <<sent, received>>)
<1> DEFINE m == Oldest(e)
           p == Receive(endpoint[e], m).endpoint
           ms == Receive(endpoint[e], m).writes
           r == IF IsNext(endpoint[e], m) THEN Append(received[e], m.data) ELSE received[e]
<1>1. /\ Waiting(e)
      /\ endpoint' = [endpoint EXCEPT ![e] = p]
      /\ wire' = Write(Consumed(e), socketOf[e], Peer[e], ms)
      /\ received' = [received EXCEPT ![e] = r]
      /\ UNCHANGED <<socketOf, sent, up, clientVars, serverVars, faults>>
  BY EndFacts DEF ReceiveMessage
<1>2. m \in Honest(endpoint, sent)[e] /\ Wires(Consumed(e), Honest(endpoint, sent))
  BY <1>1, ConsumedInv
<1> HIDE DEF m
<1>3. /\ m \in Message /\ m.ack <= endpoint[Peer[e]].incomingMsgId
      /\ m.type = "Regular" => m.id \in 1..Len(sent[Peer[e]]) /\ m.data = sent[Peer[e]][m.id]
  BY <1>2 DEF Honest, HonestOf
<1>4. m.ack \in Nat /\ m.id \in Nat /\ endpoint[Peer[e]].incomingMsgId \in Nat /\ Len(sent[e]) \in Nat
  BY <1>3, EndFacts, Peers DEF Message
<1>5. m.ack <= Len(sent[e])
  BY <1>3, <1>4, EndFacts
<1>6. m.type = "Regular" => m.data \in Data
  BY <1>3, EndFacts, ElementOfSeq
<1>7. /\ EndInv(p, sent[e], r)
      /\ ms \in Seq(HonestOf(endpoint[e].incomingMsgId, sent[e]))
      /\ p.incomingMsgId = IF IsNext(endpoint[e], m) THEN m.id ELSE endpoint[e].incomingMsgId
      /\ p.outgoingAckId \in {endpoint[e].outgoingAckId, m.ack}
  BY <1>3, <1>5, <1>6, EndFacts, ReceiveInv
<1> HIDE DEF p, ms, r
<1>8. /\ endpoint[e].incomingMsgId <= p.incomingMsgId /\ p.incomingMsgId <= Len(sent[Peer[e]])
      /\ p.outgoingAckId <= endpoint[Peer[e]].incomingMsgId
      /\ p.incomingMsgId \in Nat
  BY <1>3, <1>4, <1>7, EndFacts DEF IsNext
<1>9. sent' = [sent EXCEPT ![e] = sent[e]]
  BY <1>1, EndFacts
<1>10. /\ EndsInv(endpoint', sent', received')
       /\ \A w : Wires(w, Honest(endpoint, sent)) => Wires(w, Honest(endpoint', sent'))
       /\ Honest(endpoint', sent')[Peer[e]] = HonestOf(p.incomingMsgId, sent[e])
  <2>1. endpoint'[e] = p /\ sent'[e] = sent[e] /\ received'[e] = r
    BY <1>1, EndsAreTyped
  <2> QED
    BY <1>1, <1>7, <1>8, <1>9, <2>1, EndChange
<1>11. Wires(wire', Honest(endpoint', sent'))
  <2>1. ms \in Seq(HonestOf(p.incomingMsgId, sent[e]))
    <3>1. HonestOf(endpoint[e].incomingMsgId, sent[e]) \subseteq HonestOf(p.incomingMsgId, sent[e])
      BY <1>8, EndFacts, HonestGrows
    <3> QED
      BY <1>7, <3>1, SeqMonotonic
  <2> QED
    BY <1>1, <1>2, <1>10, <2>1, Known, Peers, WriteInv
<1>12. RestOK'
  BY <1>1, Known DEF RestOK, clientVars, serverVars
<1>13. ChannelInv'
  BY <1>10, <1>11, <1>12 DEF ChannelInv
<1>14. CASE IsNext(endpoint[e], m)
  <2>1. m.type = "Regular" /\ m.id = Len(received[e]) + 1
    BY <1>14, EndFacts DEF IsNext
  <2>2. Len(received[e]) + 1 <= Len(sent[Peer[e]])
    BY <1>3, <2>1, EndFacts
  <2>3. r = Append(received[e], sent[Peer[e]][Len(received[e]) + 1])
    BY <1>3, <1>14, <2>1 DEF r
  <2>4. Channel!Receive(e)
    BY <1>1, <2>2, <2>3 DEF Channel!Receive
  <2> QED
    BY <1>13, <2>4
<1>15. CASE ~IsNext(endpoint[e], m)
  <2>1. UNCHANGED <<sent, received>>
    BY <1>1, <1>15, EndFacts DEF r
  <2> QED
    BY <1>13, <2>1
<1> QED
  BY <1>14, <1>15

\* The protocol of e acknowledges, or moves to another socket.
LEMMA AcknowledgeStep ==
  ASSUME ChannelInv, NEW e \in End, UNCHANGED <<sent, received>>,
         endpoint' = [endpoint EXCEPT ![e] = endpoint'[e]],
         EndInv(endpoint'[e], sent[e], received[e]),
         endpoint'[e].incomingMsgId = endpoint[e].incomingMsgId,
         endpoint'[e].outgoingAckId = endpoint[e].outgoingAckId
  PROVE  /\ EndsInv(endpoint', sent', received')
         /\ \A w : Wires(w, Honest(endpoint, sent)) => Wires(w, Honest(endpoint', sent'))
         /\ Honest(endpoint', sent')[Peer[e]] = HonestOf(endpoint[e].incomingMsgId, sent[e])
<1>1. /\ EndInv(endpoint'[e], sent'[e], received'[e]) /\ sent'[e] = sent[e]
      /\ sent' = [sent EXCEPT ![e] = sent'[e]]
      /\ received' = [received EXCEPT ![e] = received'[e]]
  BY EndFacts
<1>2. /\ endpoint[e].incomingMsgId <= endpoint'[e].incomingMsgId
      /\ endpoint'[e].incomingMsgId <= Len(sent[Peer[e]])
      /\ endpoint'[e].outgoingAckId <= endpoint[Peer[e]].incomingMsgId
  BY EndFacts
<1> QED
  BY <1>1, <1>2, EndChange

LEMMA AckStep ==
  ASSUME ChannelInv, NEW e \in End, SendAckTimeout(e)
  PROVE  ChannelInv' /\ UNCHANGED <<sent, received>>
<1>1. endpoint'[e] = SendAck(endpoint[e]).endpoint /\ endpoint' = [endpoint EXCEPT ![e] = endpoint'[e]]
  BY EndsAreTyped DEF SendAckTimeout
<1>2. /\ EndInv(endpoint'[e], sent[e], received[e])
      /\ endpoint'[e].incomingMsgId = endpoint[e].incomingMsgId
      /\ endpoint'[e].outgoingAckId = endpoint[e].outgoingAckId
      /\ SendAck(endpoint[e]).writes \in Seq(HonestOf(endpoint[e].incomingMsgId, sent[e]))
  BY <1>1, EndFacts, AcknowledgeInv
<1>3. /\ UNCHANGED <<sent, received, socketOf, up, clientVars, serverVars, faults>>
      /\ wire' = Write(wire, socketOf[e], Peer[e], SendAck(endpoint[e]).writes)
  BY DEF SendAckTimeout
<1>4. /\ EndsInv(endpoint', sent', received')
      /\ Wires(wire, Honest(endpoint', sent'))
      /\ Honest(endpoint', sent')[Peer[e]] = HonestOf(endpoint[e].incomingMsgId, sent[e])
  BY <1>1, <1>2, <1>3, AcknowledgeStep, Known
<1>5. Wires(wire', Honest(endpoint', sent'))
  BY <1>2, <1>3, <1>4, Known, Peers, WriteInv
<1>6. RestOK'
  BY <1>3, Known DEF RestOK, clientVars, serverVars
<1> QED
  BY <1>3, <1>4, <1>5, <1>6 DEF ChannelInv

LEMMA ConnectStep ==
  ASSUME ChannelInv, NEW k \in Socket, Connect(k)
  PROVE  ChannelInv' /\ UNCHANGED <<sent, received>>
<1> DEFINE e == "client"
           w == [Unread(wire, socketOf[e], e) EXCEPT ![k]["server"] = <<Control("auth")>>]
<1>1. e \in End /\ "server" \in End /\ "auth" \in ControlData
  BY DEF End, ControlData
<1>2. /\ endpoint'[e] = BeginAcceptReconnection(endpoint[e])
      /\ endpoint' = [endpoint EXCEPT ![e] = endpoint'[e]]
  BY <1>1, EndsAreTyped DEF Connect
<1>3. /\ EndInv(endpoint'[e], sent[e], received[e])
      /\ endpoint'[e].incomingMsgId = endpoint[e].incomingMsgId
      /\ endpoint'[e].outgoingAckId = endpoint[e].outgoingAckId
  <2>1. EndInv(endpoint[e], sent[e], received[e])
    BY <1>1, EndFacts
  <2>2. /\ EndInv(BeginAcceptReconnection(endpoint[e]), sent[e], received[e])
        /\ BeginAcceptReconnection(endpoint[e]).incomingMsgId = endpoint[e].incomingMsgId
        /\ BeginAcceptReconnection(endpoint[e]).outgoingAckId = endpoint[e].outgoingAckId
    BY <2>1, AcknowledgeInv
  <2> QED
    BY <1>2, <2>2
<1>4. UNCHANGED <<sent, received>>
  BY DEF Connect
<1>5. Wires(w, Honest(endpoint, sent))
  <2>1. Wires(Unread(wire, socketOf[e], e), Honest(endpoint, sent))
    BY <1>1, Known, UnreadInv
  <2>2. <<Control("auth")>> \in Seq(Honest(endpoint, sent)["server"])
    BY <1>1, Controls
  <2> QED
    BY <1>1, <2>1, <2>2, WireStep
<1>6. wire' = w
  BY DEF Connect
<1> HIDE DEF w
<1>7. EndsInv(endpoint', sent', received') /\ Wires(w, Honest(endpoint', sent'))
  BY <1>1, <1>2, <1>3, <1>4, <1>5, AcknowledgeStep
<1>8. RestOK'
  <2>1. RestOK /\ socketOf["server"] # k
    BY <1>1, Known DEF Connect, Free
  <2>2. socketOf' \in [End -> Socket \cup {NoSocket}] /\ socketOf'["server"] = socketOf["server"]
    <3>1. socketOf' = [socketOf EXCEPT !["client"] = k]
      BY DEF Connect
    <3>2. socketOf \in [End -> Socket \cup {NoSocket}]
      BY <2>1 DEF RestOK
    <3>3. [socketOf EXCEPT !["client"] = k]["server"] = socketOf["server"]
      BY <1>1, <3>2
    <3> QED
      BY <1>1, <3>1, <3>2, <3>3
  <2>3. handshake' \in [Socket -> {"none", "waitingForAuth", "waitingForConnectionType"}]
        /\ \A j \in Socket : handshake'[j] # "none" => socketOf'["server"] # j
    BY <2>1, <2>2 DEF Connect, RestOK
  <2>4. up' \subseteq Socket
    BY <2>1 DEF Connect, RestOK
  <2>5. controlMessages' \in Seq(ControlData)
    <3>1. controlMessages' = <<>>
      BY DEF Connect
    <3> QED
      BY <3>1, EmptySeq
  <2> QED
    BY <2>1, <2>2, <2>3, <2>4, <2>5 DEF Connect, RestOK
<1> QED
  BY <1>4, <1>6, <1>7, <1>8 DEF ChannelInv

LEMMA FinishStep ==
  ASSUME ChannelInv, HandshakeFinishes
  PROVE  ChannelInv' /\ UNCHANGED <<sent, received>>
<1> DEFINE e == "client"
           ms == EndAcceptReconnection(endpoint[e]).writes
<1>1. e \in End /\ "server" \in End /\ Peer[e] = "server"
  BY DEF End, Peer
<1>2. /\ endpoint'[e] = EndAcceptReconnection(endpoint[e]).endpoint
      /\ endpoint' = [endpoint EXCEPT ![e] = endpoint'[e]]
  BY <1>1, EndsAreTyped DEF HandshakeFinishes
<1>3. /\ EndInv(endpoint'[e], sent[e], received[e])
      /\ endpoint'[e].incomingMsgId = endpoint[e].incomingMsgId
      /\ endpoint'[e].outgoingAckId = endpoint[e].outgoingAckId
      /\ ms \in Seq(HonestOf(endpoint[e].incomingMsgId, sent[e]))
  BY <1>1, <1>2, EndFacts, AcknowledgeInv
<1>4. /\ UNCHANGED <<socketOf, sent, received, up, serverVars, faults>>
      /\ controlMessages' = RestOfControl /\ phase' = "connected"
      /\ wire' = Write(WithoutControl, socketOf[e], "server", ms)
      /\ ControlMessage # NoData
  BY DEF HandshakeFinishes
<1> HIDE DEF ms
<1>5. Wires(WithoutControl, Honest(endpoint, sent)) /\ RestOfControl \in Seq(ControlData)
  BY <1>4, ControlInv
<1>6. /\ EndsInv(endpoint', sent', received')
      /\ Wires(WithoutControl, Honest(endpoint', sent'))
      /\ Honest(endpoint', sent')["server"] = HonestOf(endpoint[e].incomingMsgId, sent[e])
  BY <1>1, <1>2, <1>3, <1>4, <1>5, AcknowledgeStep
<1>7. Wires(wire', Honest(endpoint', sent'))
  BY <1>1, <1>3, <1>4, <1>6, Known, WriteInv
<1>8. RestOK'
  BY <1>4, <1>5, Known DEF RestOK, serverVars
<1> QED
  BY <1>4, <1>6, <1>7, <1>8 DEF ChannelInv

LEMMA AcceptStep ==
  ASSUME ChannelInv, NEW k \in Socket, ServerAcceptsReconnection(k)
  PROVE  ChannelInv' /\ UNCHANGED <<sent, received>>
<1> DEFINE e == "server"
           old == socketOf[e]
           p == BeginAcceptReconnection(endpoint[e])
           ms == EndAcceptReconnection(p).writes
           w == [Unread(wire, old, e) EXCEPT ![k][e] = Tail(@)]
<1>1. e \in End /\ "client" \in End /\ Peer[e] = "client" /\ "ok" \in ControlData
  BY DEF End, Peer, ControlData
<1>2. /\ endpoint'[e] = EndAcceptReconnection(p).endpoint
      /\ endpoint' = [endpoint EXCEPT ![e] = endpoint'[e]]
  BY <1>1, EndsAreTyped DEF ServerAcceptsReconnection
<1>3. /\ UNCHANGED <<sent, received, clientVars, managed, faults>>
      /\ socketOf' = [socketOf EXCEPT ![e] = k] /\ up' = up \ {old} /\ timers' = {}
      /\ handshake' = [handshake EXCEPT ![k] = "none"]
      /\ wire' = Write(w, k, "client", <<Control("ok")>> \o ms)
      /\ handshake[k] # "none" /\ wire[k][e] # <<>>
  BY DEF ServerAcceptsReconnection, HandshakeMessage
<1>4. /\ EndInv(endpoint'[e], sent[e], received[e])
      /\ endpoint'[e].incomingMsgId = endpoint[e].incomingMsgId
      /\ endpoint'[e].outgoingAckId = endpoint[e].outgoingAckId
      /\ ms \in Seq(HonestOf(endpoint[e].incomingMsgId, sent[e]))
  <2>1. /\ EndInv(p, sent[e], received[e])
        /\ p.incomingMsgId = endpoint[e].incomingMsgId
        /\ p.outgoingAckId = endpoint[e].outgoingAckId
    BY <1>1, EndFacts, AcknowledgeInv
  <2> HIDE DEF p
  <2> QED
    BY <1>2, <2>1, AcknowledgeInv
<1> HIDE DEF ms, p
<1>5. Wires(w, Honest(endpoint, sent))
  <2>1. old # k
    BY <1>3, Known DEF RestOK
  <2>2. Wires(Unread(wire, old, e), Honest(endpoint, sent))
    BY <1>1, Known, UnreadInv
  <2>3. Unread(wire, old, e)[k][e] = wire[k][e]
    BY <1>1, <2>1, Known DEF Unread, Wires
  <2> QED
    BY <1>1, <1>3, <2>2, <2>3, ReadInv
<1> HIDE DEF w
<1>6. /\ EndsInv(endpoint', sent', received')
      /\ Wires(w, Honest(endpoint', sent'))
      /\ Honest(endpoint', sent')["client"] = HonestOf(endpoint[e].incomingMsgId, sent[e])
  BY <1>1, <1>2, <1>3, <1>4, <1>5, AcknowledgeStep
<1>7. <<Control("ok")>> \o ms \in Seq(Honest(endpoint', sent')["client"])
  <2>1. Control("ok") \in HonestOf(endpoint[e].incomingMsgId, sent[e])
    BY <1>1, EndFacts, ControlsAreHonest
  <2>2. <<Control("ok")>> \in Seq(HonestOf(endpoint[e].incomingMsgId, sent[e]))
    BY <2>1
  <2> QED
    BY <1>4, <1>6, <2>2, ConcatProperties
<1>8. Wires(wire', Honest(endpoint', sent'))
  BY <1>1, <1>3, <1>6, <1>7, Known, WriteInv
<1>9. RestOK'
  <2>1. RestOK
    BY Known
  <2>2. socketOf' \in [End -> Socket \cup {NoSocket}] /\ socketOf'[e] = k
    BY <1>1, <1>3, <2>1 DEF RestOK
  <2>3. handshake' \in [Socket -> {"none", "waitingForAuth", "waitingForConnectionType"}]
        /\ \A j \in Socket : handshake'[j] # "none" => j # k
    BY <1>3, <2>1 DEF RestOK
  <2>4. up' \subseteq Socket
    BY <1>3, <2>1 DEF RestOK
  <2> QED
    BY <1>3, <2>1, <2>2, <2>3, <2>4 DEF RestOK, clientVars
<1> QED
  BY <1>3, <1>6, <1>8, <1>9 DEF ChannelInv

----------------------------------------------------------------------------
(* The specification                                                       *)

LEMMA ChannelInit ==
  ASSUME Init
  PROVE  ChannelInv /\ Channel!Init
<1> DEFINE first == CHOOSE k \in Socket : TRUE
<1>1. first \in Socket
  OBVIOUS
<1>2. EndInv(NewEndpoint, <<>>, <<>>)
  BY DEF EndInv, QueueInv, NewEndpoint, Endpoint
<1>3. /\ endpoint = [e \in End |-> NewEndpoint]
      /\ sent = [e \in End |-> <<>>] /\ received = [e \in End |-> <<>>]
      /\ wire = [k \in Socket |-> [e \in End |-> <<>>]]
  BY DEF Init
<1>4. EndsInv(endpoint, sent, received)
  <2>1. NewEndpoint \in Endpoint /\ NewEndpoint.outgoingAckId = 0 /\ NewEndpoint.incomingMsgId = 0
    BY DEF NewEndpoint, Endpoint
  <2>2. ASSUME NEW e \in End
        PROVE  /\ EndInv(endpoint[e], sent[e], received[e])
               /\ endpoint[e].outgoingAckId <= endpoint[Peer[e]].incomingMsgId
               /\ endpoint[e].incomingMsgId <= Len(sent[Peer[e]])
    BY <1>2, <1>3, <2>1, Peers
  <2>3. /\ endpoint \in [End -> Endpoint]
        /\ sent \in [End -> Seq(Data)] /\ received \in [End -> Seq(Data)]
    BY <1>3, <2>1
  <2> QED
    BY <2>2, <2>3 DEF EndsInv
<1>5. Wires(wire, Honest(endpoint, sent))
  BY <1>3 DEF Wires
<1>6. RestOK
  BY <1>1 DEF Init, RestOK
<1>7. Channel!Init
  BY <1>3 DEF Channel!Init
<1> QED
  BY <1>4, <1>5, <1>6, <1>7 DEF ChannelInv

LEMMA ChannelNext ==
  ASSUME ChannelInv, [Next]_vars
  PROVE  ChannelInv' /\ [Channel!Next]_<<sent, received>>
<1>1. CASE ClientReads
  <2>1. CASE ReceiveMessage("client")
    BY <2>1, ReceiveStep DEF Channel!Next, End
  <2>2. CASE HandshakeRefused
    BY <2>2, ClientEnds
  <2> QED
    BY <1>1, <2>1, <2>2, BufferStep, SignStep, FinishStep DEF ClientReads
<1>2. CASE ServerReads
  BY <1>2, ReceiveStep, CleanStep DEF ServerReads, Channel!Next, End
<1>3. ASSUME NEW e \in End, SendMessage(e)
      PROVE  ChannelInv' /\ [Channel!Next]_<<sent, received>>
  BY <1>3, SendStep DEF Channel!Next
<1>4. ASSUME NEW e \in End, SendAckTimeout(e)
      PROVE  ChannelInv' /\ [Channel!Next]_<<sent, received>>
  BY <1>4, AckStep
<1>5. ASSUME NEW k \in Socket, Connect(k)
      PROVE  ChannelInv' /\ [Channel!Next]_<<sent, received>>
  BY <1>5, ConnectStep
<1>6. ASSUME NEW k \in Socket, HandshakeReads(k)
      PROVE  ChannelInv' /\ [Channel!Next]_<<sent, received>>
  BY <1>6, HandshakeStep, AcceptStep DEF HandshakeReads
<1>7. CASE \/ \E k \in Socket : LinkFails(k)
           \/ ClientSocketCloses \/ ClientSocketTimesOut \/ ServerSocketCloses
           \/ AttemptTimesOut \/ OtherClientConnects
  BY <1>7, SocketStep
<1>8. CASE ClientGivesUp \/ WindowCloses
  BY <1>8, ClientEnds
<1>9. CASE GraceTimeExpires
  BY <1>9, CleanStep
<1>10. CASE UNCHANGED vars
  <2>1. UNCHANGED <<endpoint, sent, received, wire>> /\ RestOK'
    BY <1>10, Known DEF vars, clientVars, serverVars, RestOK
  <2> QED
    BY <2>1 DEF ChannelInv
<1> QED
  BY <1>1, <1>2, <1>3, <1>4, <1>5, <1>6, <1>7, <1>8, <1>9, <1>10 DEF Next

LEMMA ChannelInvariant == Spec => []ChannelInv
<1>1. Init => ChannelInv
  BY ChannelInit
<1>2. ChannelInv /\ [Next]_vars => ChannelInv'
  BY ChannelNext
<1> QED
  BY <1>1, <1>2, PTL DEF Spec

\* The fields of both protocols, and what is under way between them, keep
\* their types.
THEOREM TypeCorrect == Spec => []TypeOK
<1>1. ChannelInv => TypeOK
  BY DEF ChannelInv, EndsInv, Wires, RestOK, TypeOK
<1> QED
  BY <1>1, ChannelInvariant, PTL

\* Whatever the sockets and the reconnections do, the connection is a
\* reliable FIFO channel in both directions: the refinement holds of any
\* number of sockets, messages and faults.
THEOREM ConnectionIsAChannel == Spec => ImplementsChannel
<1>1. Init => Channel!Init
  BY ChannelInit
<1>2. ChannelInv /\ [Next]_vars => [Channel!Next]_<<sent, received>>
  BY ChannelNext
<1> QED
  BY <1>1, <1>2, ChannelInvariant, PTL DEF Spec, ImplementsChannel, Channel!Spec

\* An end keeps every message its peer may not have, as it was sent: the
\* queue begins behind what the peer has confirmed, which is never more
\* than it has received.
THEOREM NothingUndeliveredIsForgotten == Spec => []UndeliveredIsKept
<1>1. ASSUME ChannelInv
      PROVE  UndeliveredIsKept
  <2> SUFFICES ASSUME NEW e \in End,
                      NEW id \in endpoint[Peer[e]].incomingMsgId + 1 .. endpoint[e].outgoingMsgId
               PROVE  \E i \in 1..Len(endpoint[e].outgoingUnackMsg) :
                        LET m == endpoint[e].outgoingUnackMsg[i]
                        IN m.id = id /\ m.data = sent[e][id]
    BY DEF UndeliveredIsKept
  <2> DEFINE ackId == endpoint[e].outgoingAckId
             q == endpoint[e].outgoingUnackMsg
  <2>1. /\ ackId \in Nat /\ ackId <= endpoint[Peer[e]].incomingMsgId
        /\ endpoint[Peer[e]].incomingMsgId \in Nat /\ Len(sent[e]) \in Nat
    BY <1>1, EndFacts, Peers
  <2>2. /\ endpoint[e].outgoingMsgId = Len(sent[e]) /\ Len(q) = Len(sent[e]) - ackId
        /\ \A i \in 1..Len(q) : q[i].id = ackId + i /\ q[i].data = sent[e][q[i].id]
    BY <1>1, EndFacts DEF EndInv, QueueInv
  <2> HIDE DEF ackId, q
  <2>3. id - ackId \in 1..Len(q) /\ ackId + (id - ackId) = id
    <3>1. id \in endpoint[Peer[e]].incomingMsgId + 1 .. Len(sent[e]) /\ Len(q) = Len(sent[e]) - ackId
      BY <2>2
    <3>2. id \in Nat /\ ackId < id /\ id <= Len(sent[e])
      BY <2>1, <3>1
    <3> QED
      BY <2>1, <3>1, <3>2
  <2>4. q[id - ackId].id = id /\ q[id - ackId].data = sent[e][id]
    BY <2>2, <2>3
  <2> QED
    BY <2>3, <2>4 DEF q
<1> QED
  BY <1>1, ChannelInvariant, PTL

\* A disposed connection has no socket, so that no close event schedules a
\* timer for it.
GraceInv ==
  /\ GraceTimersOnlyWhenClosed
  /\ socketOf["server"] # NoSocket => managed

\* A grace timer runs only while the server waits for a client to come
\* back, so that it never disposes a connection that is in use.
THEOREM NoTimerInUse == Spec => []GraceTimersOnlyWhenClosed
<1>1. Init => GraceInv
  BY DEF Init, GraceInv, GraceTimersOnlyWhenClosed
<1>2. ASSUME ChannelInv, GraceInv, [Next]_vars
      PROVE  GraceInv'
  <2> USE DEF GraceInv, GraceTimersOnlyWhenClosed
  <2>1. socketOf \in [End -> Socket \cup {NoSocket}]
    BY <1>2, Known DEF RestOK
  <2>2. \A k : [socketOf EXCEPT !["client"] = k]["server"] = socketOf["server"]
        /\ [socketOf EXCEPT !["server"] = k]["server"] = k
    BY <2>1 DEF End
  <2>3. CASE UNCHANGED <<socketOf, managed, timers>>
    BY <1>2, <2>3
  <2>4. CASE /\ \E k : socketOf' = [socketOf EXCEPT !["client"] = k]
             /\ UNCHANGED <<managed, timers>>
    BY <1>2, <2>2, <2>4
  <2>5. CASE ServerSocketCloses
    BY <1>2, <2>2, <2>5 DEF ServerSocketCloses
  <2>6. ASSUME NEW k \in Socket, ServerAcceptsReconnection(k)
        PROVE  GraceInv'
    BY <1>2, <2>2, <2>6 DEF ServerAcceptsReconnection
  <2>7. CASE OtherClientConnects
    BY <1>2, <2>7 DEF OtherClientConnects, Shortened
  <2>8. CASE CleanResources(wire)
    BY <1>2, <2>2, <2>8 DEF CleanResources
  <2>9. CASE ClientReads
    <3>1. CASE HandshakeRefused
      BY <2>4, <3>1 DEF HandshakeRefused, ClientLeaves, serverVars
    <3>2. CASE ReceiveMessage("client") \/ BufferControlMessage \/ SignArrives \/ HandshakeFinishes
      BY <2>3, <3>2 DEF ReceiveMessage, BufferControlMessage, SignArrives, HandshakeFinishes, serverVars
    <3> QED
      BY <2>9, <3>1, <3>2 DEF ClientReads
  <2>10. CASE ServerReads
    BY <2>3, <2>8, <2>10 DEF ServerReads, ReceiveMessage, ServerReceivesDisconnect, serverVars
  <2>11. CASE \E e \in End : SendMessage(e) \/ SendAckTimeout(e)
    BY <2>3, <2>11 DEF SendMessage, SendAckTimeout, serverVars
  <2>12. ASSUME NEW k \in Socket, LinkFails(k) \/ Connect(k) \/ HandshakeReads(k)
         PROVE  GraceInv'
    <3>1. CASE Connect(k)
      BY <2>4, <3>1 DEF Connect
    <3>2. CASE LinkFails(k)
      BY <2>3, <3>2 DEF LinkFails, serverVars
    <3>3. CASE \/ ServerReceivesAuth(k) \/ ServerDiscards(k)
               \/ ServerRejectsReconnection(k) \/ HandshakeSocketCloses(k)
      BY <2>3, <3>3 DEF ServerReceivesAuth, ServerDiscards, ServerRejectsReconnection,
                        HandshakeSocketCloses, serverVars
    <3> QED
      BY <2>6, <2>12, <3>1, <3>2, <3>3 DEF HandshakeReads
  <2>13. CASE ClientSocketCloses \/ ClientGivesUp \/ WindowCloses
    BY <2>4, <2>13 DEF ClientSocketCloses, ClientGivesUp, WindowCloses, ClientLeaves, serverVars
  <2>14. CASE ClientSocketTimesOut \/ AttemptTimesOut \/ UNCHANGED vars
    BY <2>3, <2>14 DEF ClientSocketTimesOut, AttemptTimesOut, vars, serverVars
  <2>15. CASE GraceTimeExpires
    BY <2>8, <2>15 DEF GraceTimeExpires
  <2> QED
    BY <1>2, <2>5, <2>7, <2>9, <2>10, <2>11, <2>12, <2>13, <2>14, <2>15 DEF Next
<1>3. GraceInv => GraceTimersOnlyWhenClosed
  BY DEF GraceInv
<1> QED
  BY <1>1, <1>2, <1>3, ChannelInvariant, PTL DEF Spec

----------------------------------------------------------------------------
(* What is under way on a socket                                           *)

\* From here on the assumptions are cited where they are needed.
HIDE NoDataAssumption
HIDE ControlAssumption
HIDE SocketAssumption
HIDE NoSocketAssumption
HIDE ToSendAssumption
HIDE MaxFaultsAssumption

NoneOf(q, type) == \A i \in DOMAIN q : q[i].type # type
OneControl(q, d) ==
  \E j \in DOMAIN q :
    /\ q[j].type = "Control" /\ q[j].data = d
    /\ \A i \in DOMAIN q : i # j => q[i].type # "Control"

\* Whatever the handshake has under way in q it has in r.
KeepsControls(q, r) ==
  /\ NoneOf(q, "Control") => NoneOf(r, "Control")
  /\ \A d : OneControl(q, d) => OneControl(r, d)

\* The regular messages of q follow one another, the first of them the message n.
Gapless(q, n) ==
  \A i \in DOMAIN q :
    q[i].type = "Regular" /\ q[i].id > n + 1 =>
      \E j \in DOMAIN q : j < i /\ q[j].type = "Regular" /\ q[j].id = q[i].id - 1

\* Of those behind n none is missing up to top.
Complete(q, n, top) ==
  \A id \in n + 1 .. top : \E j \in DOMAIN q : q[j].type = "Regular" /\ q[j].id = id

LEMMA Behind ==
  ASSUME NEW q \in Seq(Message), NEW ms \in Seq(Message)
  PROVE  /\ q \o ms \in Seq(Message)
         /\ Len(q) \in Nat /\ Len(ms) \in Nat
         /\ DOMAIN q = 1..Len(q) /\ DOMAIN ms = 1..Len(ms)
         /\ DOMAIN (q \o ms) = 1..(Len(q) + Len(ms))
         /\ \A i \in 1..Len(q) : i \in 1..(Len(q) + Len(ms)) /\ (q \o ms)[i] = q[i]
         /\ \A i \in 1..Len(ms) : Len(q) + i \in 1..(Len(q) + Len(ms)) /\ (q \o ms)[Len(q) + i] = ms[i]
         /\ \A i \in 1..(Len(q) + Len(ms)) :
              i \in 1..Len(q) \/ \E j \in 1..Len(ms) : i = Len(q) + j
<1> DEFINE l == Len(q)
           n == Len(ms)
           p == q \o ms
<1>1. /\ l \in Nat /\ n \in Nat /\ DOMAIN q = 1..l /\ DOMAIN ms = 1..n
      /\ p \in Seq(Message) /\ Len(p) = l + n
      /\ \A i \in 1..(l + n) : p[i] = IF i <= l THEN q[i] ELSE ms[i - l]
  BY ConcatProperties, LenProperties
<1>2. DOMAIN p = 1..(l + n)
  BY <1>1, LenProperties
<1> HIDE DEF l, n, p
<1>3. \A i \in 1..l : i \in 1..(l + n) /\ p[i] = q[i]
  BY <1>1
<1>4. ASSUME NEW i \in 1..n
      PROVE  l + i \in 1..(l + n) /\ p[l + i] = ms[i]
  <2>1. l + i \in 1..(l + n) /\ ~(l + i <= l) /\ (l + i) - l = i
    BY <1>1
  <2> QED
    BY <1>1, <2>1
<1>5. ASSUME NEW i \in 1..(l + n), i \notin 1..l
      PROVE  \E j \in 1..n : i = l + j
  <2>1. i - l \in 1..n /\ i = l + (i - l)
    BY <1>1, <1>5
  <2> QED
    BY <2>1
<1> QED
  BY <1>1, <1>2, <1>3, <1>4, <1>5 DEF l, n, p

LEMMA BehindOf ==
  ASSUME NEW q \in Seq(Message), NEW ms \in Seq(Message)
  PROVE  /\ \A type : NoneOf(q, type) /\ NoneOf(ms, type) => NoneOf(q \o ms, type)
         /\ NoneOf(ms, "Control") => KeepsControls(q, q \o ms)
         /\ \A d : NoneOf(q, "Control") /\ OneControl(ms, d) => OneControl(q \o ms, d)
<1> DEFINE l == Len(q)
           n == Len(ms)
           p == q \o ms
<1>1. /\ l \in Nat /\ n \in Nat /\ DOMAIN q = 1..l /\ DOMAIN ms = 1..n /\ DOMAIN p = 1..(l + n)
      /\ \A i \in 1..l : i \in 1..(l + n) /\ p[i] = q[i]
      /\ \A i \in 1..n : l + i \in 1..(l + n) /\ p[l + i] = ms[i]
      /\ \A i \in 1..(l + n) : i \in 1..l \/ \E j \in 1..n : i = l + j
  BY Behind
<1> HIDE DEF l, n, p
<1>2. ASSUME NEW type, NoneOf(q, type), NoneOf(ms, type)
      PROVE  NoneOf(p, type)
  <2>1. ASSUME NEW i \in 1..(l + n)
        PROVE  p[i].type # type
    <3>1. CASE i \in 1..l
      BY <1>1, <1>2, <3>1 DEF NoneOf
    <3>2. ASSUME NEW j \in 1..n, i = l + j
          PROVE  p[i].type # type
      <4>1. p[i] = ms[j]
        BY <1>1, <3>2
      <4> QED
        BY <1>1, <1>2, <4>1 DEF NoneOf
    <3> QED
      BY <1>1, <3>1, <3>2
  <2> QED
    BY <1>1, <2>1 DEF NoneOf
<1>3. ASSUME NoneOf(ms, "Control"), NEW d, OneControl(q, d)
      PROVE  OneControl(p, d)
  <2>1. PICK j \in 1..l : /\ q[j].type = "Control" /\ q[j].data = d
                          /\ \A i \in 1..l : i # j => q[i].type # "Control"
    BY <1>1, <1>3 DEF OneControl
  <2>2. ASSUME NEW i \in 1..(l + n), i # j
        PROVE  p[i].type # "Control"
    <3>1. CASE i \in 1..l
      <4>1. p[i] = q[i]
        BY <1>1, <3>1
      <4> QED
        BY <2>1, <2>2, <3>1, <4>1
    <3>2. ASSUME NEW h \in 1..n, i = l + h
          PROVE  p[i].type # "Control"
      <4>1. p[i] = ms[h]
        BY <1>1, <3>2
      <4> QED
        BY <1>1, <1>3, <4>1 DEF NoneOf
    <3> QED
      BY <1>1, <3>1, <3>2
  <2>3. j \in 1..(l + n) /\ p[j] = q[j]
    BY <1>1
  <2>4. DOMAIN p = 1..(l + n)
    BY <1>1
  <2> QED
    BY ONLY <2>1, <2>2, <2>3, <2>4 DEF OneControl
<1>4. ASSUME NoneOf(q, "Control"), NEW d, OneControl(ms, d)
      PROVE  OneControl(p, d)
  <2>1. PICK j \in 1..n : /\ ms[j].type = "Control" /\ ms[j].data = d
                          /\ \A i \in 1..n : i # j => ms[i].type # "Control"
    <3>1. OneControl(ms, d) /\ DOMAIN ms = 1..n
      BY <1>1, <1>4
    <3> QED
      BY ONLY <3>1 DEF OneControl
  <2>2. ASSUME NEW i \in 1..(l + n), i # l + j
        PROVE  p[i].type # "Control"
    <3>1. CASE i \in 1..l
      <4>1. p[i] = q[i]
        BY <1>1, <3>1
      <4> QED
        BY <1>1, <1>4, <3>1, <4>1 DEF NoneOf
    <3>2. ASSUME NEW h \in 1..n, i = l + h
          PROVE  p[i].type # "Control"
      <4>1. p[i] = ms[h] /\ h # j
        BY <1>1, <2>2, <3>2
      <4> QED
        BY <2>1, <4>1
    <3> QED
      BY <1>1, <3>1, <3>2
  <2>3. l + j \in 1..(l + n) /\ p[l + j] = ms[j]
    BY <1>1
  <2>4. DOMAIN p = 1..(l + n)
    BY <1>1
  <2> QED
    BY ONLY <2>1, <2>2, <2>3, <2>4 DEF OneControl
<1> QED
  BY <1>2, <1>3, <1>4 DEF KeepsControls, p

LEMMA OneMessage ==
  ASSUME NEW m \in Message
  PROVE  /\ <<m>> \in Seq(Message) /\ <<>> \in Seq(Message)
         /\ \A type : type # m.type => NoneOf(<<m>>, type)
         /\ m.type = "Control" => OneControl(<<m>>, m.data)
         /\ \A type : NoneOf(<<>>, type)
BY DEF NoneOf, OneControl

LEMMA Rest ==
  ASSUME NEW q \in Seq(Message), q # <<>>
  PROVE  /\ Tail(q) \in Seq(Message) /\ Head(q) \in Message /\ Head(q) = q[1]
         /\ DOMAIN q = 1..Len(q) /\ Len(q) \in Nat /\ 1 \in 1..Len(q)
         /\ DOMAIN Tail(q) = 1..(Len(q) - 1)
         /\ \A i \in 1..(Len(q) - 1) : i + 1 \in 1..Len(q) /\ i + 1 # 1 /\ Tail(q)[i] = q[i + 1]
         /\ \A i \in 1..Len(q) : i = 1 \/ \E j \in 1..(Len(q) - 1) : i = j + 1
<1> DEFINE n == Len(q)
           t == Tail(q)
<1>1. /\ t \in Seq(Message) /\ Head(q) \in Message /\ Head(q) = q[1]
      /\ DOMAIN q = 1..n /\ n \in Nat /\ n > 0
      /\ Len(t) = n - 1 /\ \A i \in 1..(n - 1) : t[i] = q[i + 1]
  OBVIOUS
<1>2. DOMAIN t = 1..(n - 1)
  BY <1>1
<1> HIDE DEF n, t
<1>3. 1 \in 1..n /\ \A i \in 1..(n - 1) : i + 1 \in 1..n /\ i + 1 # 1
  BY <1>1
<1>4. ASSUME NEW i \in 1..n, i # 1
      PROVE  \E j \in 1..(n - 1) : i = j + 1
  <2>1. i - 1 \in 1..(n - 1) /\ i = (i - 1) + 1
    BY <1>1, <1>4
  <2> QED
    BY <2>1
<1> QED
  BY <1>1, <1>2, <1>3, <1>4 DEF n, t

LEMMA RestOf ==
  ASSUME NEW q \in Seq(Message), q # <<>>
  PROVE  /\ \A type : NoneOf(q, type) => NoneOf(Tail(q), type) /\ Head(q).type # type
         /\ Head(q).type # "Control" => KeepsControls(q, Tail(q))
         /\ \A d : OneControl(q, d) /\ Head(q).type = "Control" =>
                     Head(q).data = d /\ NoneOf(Tail(q), "Control")
<1> DEFINE n == Len(q)
           t == Tail(q)
<1>1. /\ Head(q) = q[1] /\ DOMAIN q = 1..n /\ n \in Nat /\ 1 \in 1..n /\ DOMAIN t = 1..(n - 1)
      /\ \A i \in 1..(n - 1) : i + 1 \in 1..n /\ i + 1 # 1 /\ t[i] = q[i + 1]
      /\ \A i \in 1..n : i = 1 \/ \E j \in 1..(n - 1) : i = j + 1
  BY Rest
<1> HIDE DEF n, t
<1>2. ASSUME NEW type, NoneOf(q, type)
      PROVE  NoneOf(t, type) /\ q[1].type # type
  BY <1>1, <1>2 DEF NoneOf
<1>3. ASSUME NEW d, OneControl(q, d)
      PROVE  /\ q[1].type # "Control" => OneControl(t, d)
             /\ q[1].type = "Control" => q[1].data = d /\ NoneOf(t, "Control")
  <2>1. PICK j \in 1..n : /\ q[j].type = "Control" /\ q[j].data = d
                          /\ \A i \in 1..n : i # j => q[i].type # "Control"
    <3>1. OneControl(q, d) /\ DOMAIN q = 1..n
      BY <1>1, <1>3
    <3> QED
      BY ONLY <3>1 DEF OneControl
  <2>2. CASE j = 1
    BY <1>1, <2>1, <2>2 DEF NoneOf
  <2>3. CASE j # 1
    <3>1. PICK h \in 1..(n - 1) : j = h + 1
      BY <1>1, <2>3
    <3>2. ASSUME NEW i \in 1..(n - 1), i # h
          PROVE  t[i].type # "Control"
      <4>1. i + 1 # j
        BY <3>1, <3>2
      <4> QED
        BY <1>1, <2>1, <4>1
    <3>3. q[1].type # "Control"
      BY <1>1, <2>1, <2>3
    <3> QED
      BY <1>1, <2>1, <3>1, <3>2, <3>3 DEF OneControl
  <2> QED
    BY <2>2, <2>3
<1> QED
  BY <1>1, <1>2, <1>3 DEF KeepsControls, t

\* Messages that follow on what is there, or on what has been received.
LEMMA GapExtend ==
  ASSUME NEW q \in Seq(Message), NEW ms \in Seq(Message), NEW n \in Nat, NEW a \in Nat, NEW top \in Nat,
         Gapless(q, n), Complete(q, n, a), Gapless(ms, a), Complete(ms, a, top)
  PROVE  Gapless(q \o ms, n) /\ Complete(q \o ms, n, top)
<1> DEFINE l == Len(q)
           b == Len(ms)
           p == q \o ms
<1>1. /\ l \in Nat /\ b \in Nat /\ DOMAIN q = 1..l /\ DOMAIN ms = 1..b /\ DOMAIN p = 1..(l + b)
      /\ \A i \in 1..l : i \in 1..(l + b) /\ p[i] = q[i]
      /\ \A i \in 1..b : l + i \in 1..(l + b) /\ p[l + i] = ms[i]
      /\ \A i \in 1..(l + b) : i \in 1..l \/ \E j \in 1..b : i = l + j
  BY Behind
<1>2. ASSUME NEW i \in 1..b
      PROVE  ms[i].id \in Nat
  <2>1. ms[i] \in Message
    BY <1>1, ElementOfSeq
  <2> QED
    BY <2>1 DEF Message
<1> HIDE DEF l, b, p
<1>3. ASSUME NEW i \in 1..(l + b), p[i].type = "Regular", p[i].id > n + 1
      PROVE  \E j \in 1..(l + b) : j < i /\ p[j].type = "Regular" /\ p[j].id = p[i].id - 1
  <2>1. CASE i \in 1..l
    <3>1. q[i].type = "Regular" /\ q[i].id > n + 1 /\ p[i] = q[i]
      BY <1>1, <1>3, <2>1
    <3>2. PICK j \in 1..l : j < i /\ q[j].type = "Regular" /\ q[j].id = q[i].id - 1
      BY <1>1, <2>1, <3>1 DEF Gapless
    <3>3. j \in 1..(l + b) /\ p[j] = q[j]
      BY <1>1
    <3> QED
      BY <3>1, <3>2, <3>3
  <2>2. ASSUME NEW h \in 1..b, i = l + h
        PROVE  \E j \in 1..(l + b) : j < i /\ p[j].type = "Regular" /\ p[j].id = p[i].id - 1
    <3>1. p[i] = ms[h] /\ ms[h].id \in Nat /\ ms[h].id > n + 1 /\ ms[h].type = "Regular"
      BY <1>1, <1>2, <1>3, <2>2
    <3>2. CASE ms[h].id > a + 1
      <4>1. PICK j \in 1..b : j < h /\ ms[j].type = "Regular" /\ ms[j].id = ms[h].id - 1
        BY <1>1, <3>1, <3>2 DEF Gapless
      <4>2. l + j \in 1..(l + b) /\ p[l + j] = ms[j]
        BY <1>1
      <4>3. l + j < i
        BY <1>1, <2>2, <4>1
      <4> QED
        BY <3>1, <4>1, <4>2, <4>3
    <3>3. CASE ~(ms[h].id > a + 1)
      <4>1. ms[h].id - 1 \in n + 1 .. a
        BY <3>1, <3>3
      <4>2. PICK j \in 1..l : q[j].type = "Regular" /\ q[j].id = ms[h].id - 1
        BY <1>1, <4>1 DEF Complete
      <4>3. j \in 1..(l + b) /\ p[j] = q[j] /\ j < i
        <5>1. j < l + h
          BY <1>1
        <5> QED
          BY <1>1, <2>2, <5>1
      <4> QED
        BY <3>1, <4>2, <4>3
    <3> QED
      BY <3>2, <3>3
  <2> QED
    BY <1>1, <2>1, <2>2
<1>4. ASSUME NEW id \in n + 1 .. top
      PROVE  \E j \in 1..(l + b) : p[j].type = "Regular" /\ p[j].id = id
  <2>1. CASE id <= a
    <3>1. id \in n + 1 .. a
      BY <2>1
    <3>2. PICK j \in 1..l : q[j].type = "Regular" /\ q[j].id = id
      BY <1>1, <3>1 DEF Complete
    <3> QED
      BY <1>1, <3>2
  <2>2. CASE ~(id <= a)
    <3>1. id \in a + 1 .. top
      BY <2>2
    <3>2. PICK j \in 1..b : ms[j].type = "Regular" /\ ms[j].id = id
      BY <1>1, <3>1 DEF Complete
    <3> QED
      BY <1>1, <3>2
  <2> QED
    BY <2>1, <2>2
<1> QED
  BY <1>1, <1>3, <1>4 DEF Gapless, Complete, p

LEMMA GapQuiet ==
  ASSUME NEW q \in Seq(Message), NEW ms \in Seq(Message), NEW n \in Nat, NEW top \in Nat,
         Gapless(q, n), NoneOf(ms, "Regular")
  PROVE  Gapless(q \o ms, n) /\ (Complete(q, n, top) => Complete(q \o ms, n, top))
<1>1. \A a \in Nat : Gapless(ms, a) /\ Complete(ms, a, a)
  BY DEF Gapless, Complete, NoneOf
<1>2. Complete(q, n, 0)
  BY DEF Complete
<1>3. Gapless(q \o ms, n)
  BY <1>1, <1>2, GapExtend
<1>4. Complete(q, n, top) => Complete(q \o ms, n, top)
  BY <1>1, GapExtend
<1> QED
  BY <1>3, <1>4

\* Everything unacknowledged is sent again.
LEMMA GapReplay ==
  ASSUME NEW q \in Seq(Message), NEW ms \in Seq(Message), NEW n \in Nat, NEW a \in Nat, a <= n, NEW top \in Nat,
         Gapless(q, n), Gapless(ms, a), Complete(ms, a, top)
  PROVE  Gapless(q \o ms, n) /\ Complete(q \o ms, n, top)
<1>1. Complete(q, n, a)
  BY DEF Complete
<1> QED
  BY <1>1, GapExtend

\* One message is read.
LEMMA GapRead ==
  ASSUME NEW q \in Seq(Message), q # <<>>, NEW n \in Nat, Gapless(q, n)
  PROVE  LET m == Head(q)
             n2 == IF m.type = "Regular" /\ m.id = n + 1 THEN n + 1 ELSE n
         IN /\ ~(m.type = "Regular" /\ m.id > n + 1)
            /\ Gapless(Tail(q), n2)
            /\ \A top \in Nat : Complete(q, n, top) => Complete(Tail(q), n2, top)
<1> DEFINE l == Len(q)
           t == Tail(q)
           m == Head(q)
           n2 == IF m.type = "Regular" /\ m.id = n + 1 THEN n + 1 ELSE n
<1>1. /\ m = q[1] /\ m \in Message /\ DOMAIN q = 1..l /\ l \in Nat /\ 1 \in 1..l /\ DOMAIN t = 1..(l - 1)
      /\ \A i \in 1..(l - 1) : i + 1 \in 1..l /\ i + 1 # 1 /\ t[i] = q[i + 1]
      /\ \A i \in 1..l : i = 1 \/ \E j \in 1..(l - 1) : i = j + 1
  BY Rest
<1>2. m.id \in Nat /\ n2 \in Nat /\ n <= n2
  BY <1>1 DEF Message
<1>3. ASSUME NEW i \in 1..l
      PROVE  q[i].id \in Nat
  <2>1. q[i] \in Message
    BY <1>1, ElementOfSeq
  <2> QED
    BY <2>1 DEF Message
<1> HIDE DEF l, t, m
<1>4. ~(m.type = "Regular" /\ m.id > n + 1)
  <2>1. \A j \in 1..l : ~(j < 1)
    BY <1>1
  <2> QED
    BY <1>1, <2>1 DEF Gapless
<1>5. ASSUME NEW i \in 1..(l - 1), t[i].type = "Regular", t[i].id > n2 + 1
      PROVE  \E j \in 1..(l - 1) : j < i /\ t[j].type = "Regular" /\ t[j].id = t[i].id - 1
  <2>1. i + 1 \in 1..l /\ t[i] = q[i + 1] /\ q[i + 1].id \in Nat /\ q[i + 1].id > n + 1
    BY <1>1, <1>2, <1>3, <1>5
  <2>2. PICK j \in 1..l : j < i + 1 /\ q[j].type = "Regular" /\ q[j].id = q[i + 1].id - 1
    BY <1>1, <1>5, <2>1 DEF Gapless
  <2>3. j # 1
    <3>1. CASE j = 1
      <4>1. m.type = "Regular" /\ m.id = q[i + 1].id - 1 /\ m.id > n
        BY <1>1, <2>1, <2>2, <3>1
      <4>2. m.id = n + 1 /\ n2 = n + 1
        BY <1>2, <1>4, <4>1
      <4> QED
        BY <1>5, <2>1, <4>1, <4>2
    <3> QED
      BY <3>1
  <2>4. PICK h \in 1..(l - 1) : j = h + 1
    BY <1>1, <2>3
  <2>5. h < i
    BY <1>1, <2>2, <2>4
  <2> QED
    BY <1>1, <2>1, <2>2, <2>4, <2>5
<1>6. ASSUME NEW top \in Nat, Complete(q, n, top), NEW id \in n2 + 1 .. top
      PROVE  \E j \in 1..(l - 1) : t[j].type = "Regular" /\ t[j].id = id
  <2>1. id \in n + 1 .. top
    BY <1>2
  <2>2. PICK j \in 1..l : q[j].type = "Regular" /\ q[j].id = id
    BY <1>1, <1>6, <2>1 DEF Complete
  <2>3. j # 1
    <3>1. CASE j = 1
      <4>1. m.type = "Regular" /\ m.id = id /\ id > n
        BY <1>1, <2>1, <2>2, <3>1
      <4>2. n2 = n + 1 /\ id = n + 1
        BY <1>2, <1>4, <4>1
      <4> QED
        BY <4>2
    <3> QED
      BY <3>1
  <2>4. PICK h \in 1..(l - 1) : j = h + 1
    BY <1>1, <2>3
  <2> QED
    BY <1>1, <2>2, <2>4
<1> QED
  BY <1>1, <1>4, <1>5, <1>6 DEF Gapless, Complete, t, m

\* What is kept follows what the peer has confirmed, up to the last message sent.
LEMMA UnackFits ==
  ASSUME NEW p, NEW s, NEW r, EndInv(p, s, r)
  PROVE  LET q == p.outgoingUnackMsg IN
         /\ q \in Seq(Message)
         /\ NoneOf(q, "Control") /\ NoneOf(q, "ReplayRequest")
         /\ Gapless(q, p.outgoingAckId)
         /\ Complete(q, p.outgoingAckId, p.outgoingMsgId)
<1> DEFINE q == p.outgoingUnackMsg
           a == p.outgoingAckId
           top == p.outgoingMsgId
           l == Len(q)
<1>1. q \in Seq(Message) /\ a \in Nat /\ top \in Nat
  BY DEF EndInv, Endpoint
<1>2. /\ DOMAIN q = 1..l /\ l \in Nat /\ l = top - a
      /\ \A i \in 1..l : q[i].type = "Regular" /\ q[i].id = a + i
  <2>1. QueueInv(p, s)
    BY DEF EndInv
  <2>2. Len(s) = top /\ l = Len(s) - a
    BY <2>1 DEF QueueInv
  <2>3. \A i \in 1..l : q[i].type = "Regular" /\ q[i].id = a + i
    BY <2>1 DEF QueueInv
  <2>4. DOMAIN q = 1..l /\ l \in Nat
    BY <1>1
  <2> QED
    BY <2>2, <2>3, <2>4
<1> HIDE DEF q, a, top, l
<1>3. NoneOf(q, "Control") /\ NoneOf(q, "ReplayRequest")
  BY <1>2 DEF NoneOf
<1>4. ASSUME NEW i \in 1..l, q[i].id > a + 1
      PROVE  \E j \in 1..l : j < i /\ q[j].type = "Regular" /\ q[j].id = q[i].id - 1
  <2>1. i - 1 \in 1..l /\ i - 1 < i /\ a + (i - 1) = (a + i) - 1
    <3>1. q[i].id = a + i
      BY <1>2
    <3> QED
      BY <1>1, <1>2, <1>4, <3>1
  <2>2. q[i - 1].type = "Regular" /\ q[i - 1].id = a + (i - 1) /\ q[i].id = a + i
    BY <1>2, <2>1
  <2> QED
    BY <2>1, <2>2
<1>5. ASSUME NEW id \in a + 1 .. top
      PROVE  \E j \in 1..l : q[j].type = "Regular" /\ q[j].id = id
  <2>1. id - a \in 1..l /\ a + (id - a) = id
    BY <1>1, <1>2
  <2>2. q[id - a].type = "Regular" /\ q[id - a].id = a + (id - a)
    BY <1>2, <2>1
  <2> QED
    BY <2>1, <2>2
<1> QED
  BY <1>1, <1>2, <1>3, <1>4, <1>5 DEF Gapless, Complete, q, a, top

\* Everything unacknowledged behind an acknowledgement.
LEMMA ReplayFits ==
  ASSUME NEW p, NEW s, NEW r, EndInv(p, s, r), NEW h \in Seq(Message),
         NoneOf(h, "Regular"), NoneOf(h, "ReplayRequest")
  PROVE  LET q == h \o p.outgoingUnackMsg IN
         /\ q \in Seq(Message)
         /\ NoneOf(q, "ReplayRequest")
         /\ NoneOf(h, "Control") => NoneOf(q, "Control")
         /\ \A d : OneControl(h, d) => OneControl(q, d)
         /\ Gapless(q, p.outgoingAckId)
         /\ Complete(q, p.outgoingAckId, p.outgoingMsgId)
<1> DEFINE u == p.outgoingUnackMsg
           a == p.outgoingAckId
           top == p.outgoingMsgId
           q == h \o u
<1>1. /\ u \in Seq(Message) /\ NoneOf(u, "Control") /\ NoneOf(u, "ReplayRequest")
      /\ Gapless(u, a) /\ Complete(u, a, top)
  BY UnackFits
<1>2. a \in Nat /\ top \in Nat
  BY DEF EndInv, Endpoint
<1> HIDE DEF u, a, top
<1>3. Gapless(h, a) /\ Complete(h, a, a)
  BY <1>2 DEF Gapless, Complete, NoneOf
<1>4. Gapless(q, a) /\ Complete(q, a, top)
  BY <1>1, <1>2, <1>3, GapExtend
<1>5. /\ q \in Seq(Message) /\ NoneOf(q, "ReplayRequest")
      /\ NoneOf(h, "Control") => NoneOf(q, "Control")
      /\ KeepsControls(h, q)
  BY <1>1, Behind, BehindOf
<1> QED
  BY <1>4, <1>5 DEF KeepsControls, u, a, top

\* What an end sends is new.
LEMMA SendFits ==
  ASSUME NEW p, NEW s, NEW r, EndInv(p, s, r), NEW d \in Data
  PROVE  LET x == Send(p, d) IN
         /\ x.writes \in Seq(Message)
         /\ NoneOf(x.writes, "Control") /\ NoneOf(x.writes, "ReplayRequest")
         /\ x.endpoint.outgoingMsgId = p.outgoingMsgId + 1
         /\ x.endpoint.incomingMsgId = p.incomingMsgId
         /\ x.endpoint.isReconnecting = p.isReconnecting
         /\ p.isReconnecting => x.writes = <<>>
         /\ ~p.isReconnecting =>
              /\ Gapless(x.writes, p.outgoingMsgId)
              /\ Complete(x.writes, p.outgoingMsgId, p.outgoingMsgId + 1)
<1> DEFINE m == Regular(p.outgoingMsgId + 1, p.incomingMsgId, d)
           n == p.outgoingMsgId
<1>1. p \in Endpoint /\ n \in Nat /\ p.incomingMsgId \in Nat
  BY DEF EndInv, Endpoint
<1>2. m \in Message /\ m.type = "Regular" /\ m.id = n + 1
  BY <1>1 DEF Regular, Message
<1>3. Send(p, d).writes = IF p.isReconnecting THEN <<>> ELSE <<m>>
  BY DEF Send
<1>4. /\ Send(p, d).endpoint.outgoingMsgId = n + 1
      /\ Send(p, d).endpoint.incomingMsgId = p.incomingMsgId
      /\ Send(p, d).endpoint.isReconnecting = p.isReconnecting
  BY <1>1 DEF Send, Endpoint
<1> HIDE DEF m, n
<1>5. /\ <<m>> \in Seq(Message) /\ <<>> \in Seq(Message)
      /\ NoneOf(<<m>>, "Control") /\ NoneOf(<<m>>, "ReplayRequest")
      /\ NoneOf(<<>>, "Control") /\ NoneOf(<<>>, "ReplayRequest")
  BY <1>2, OneMessage
<1>6. Gapless(<<m>>, n)
  BY <1>1, <1>2 DEF Gapless
<1>7. Complete(<<m>>, n, n + 1)
  <2>1. \A id \in n + 1 .. n + 1 : id = n + 1
    BY <1>1
  <2>2. 1 \in DOMAIN <<m>> /\ <<m>>[1] = m
    OBVIOUS
  <2> QED
    BY <1>2, <2>1, <2>2 DEF Complete
<1> QED
  BY <1>3, <1>4, <1>5, <1>6, <1>7 DEF n

LEMMA AckFits ==
  ASSUME NEW p, NEW s, NEW r, EndInv(p, s, r)
  PROVE  LET x == SendAck(p) IN
         /\ x.writes \in Seq(Message) /\ x.writes = <<AckMessage(p.incomingMsgId)>>
         /\ NoneOf(x.writes, "Control") /\ NoneOf(x.writes, "Regular") /\ NoneOf(x.writes, "ReplayRequest")
         /\ x.endpoint.outgoingMsgId = p.outgoingMsgId
         /\ x.endpoint.incomingMsgId = p.incomingMsgId
         /\ x.endpoint.isReconnecting = p.isReconnecting
<1>1. p \in Endpoint /\ p.incomingMsgId \in Nat
  BY DEF EndInv, Endpoint
<1>2. /\ SendAck(p).writes = <<AckMessage(p.incomingMsgId)>>
      /\ SendAck(p).endpoint.outgoingMsgId = p.outgoingMsgId
      /\ SendAck(p).endpoint.incomingMsgId = p.incomingMsgId
      /\ SendAck(p).endpoint.isReconnecting = p.isReconnecting
  BY <1>1 DEF SendAck, Endpoint
<1>3. AckMessage(p.incomingMsgId) \in Message /\ AckMessage(p.incomingMsgId).type = "Ack"
  BY <1>1 DEF AckMessage, Message
<1>4. /\ SendAck(p).writes \in Seq(Message) /\ NoneOf(SendAck(p).writes, "Control")
      /\ NoneOf(SendAck(p).writes, "Regular") /\ NoneOf(SendAck(p).writes, "ReplayRequest")
  BY <1>2, <1>3, OneMessage
<1> QED
  BY <1>2, <1>4

\* A message that is neither a replay request nor after a gap is not answered.
LEMMA ReadFits ==
  ASSUME NEW p, NEW s, NEW r, EndInv(p, s, r), NEW m \in Message, m.ack <= Len(s)
  PROVE  LET x == Receive(p, m) IN
         /\ x.writes \in Seq(Message) /\ NoneOf(x.writes, "Control")
         /\ m.type # "ReplayRequest" /\ ~IsGap(p, m) => x.writes = <<>>
         /\ x.endpoint.outgoingMsgId = p.outgoingMsgId
         /\ x.endpoint.isReconnecting = p.isReconnecting
         /\ x.endpoint.incomingMsgId = IF IsNext(p, m) THEN p.incomingMsgId + 1 ELSE p.incomingMsgId
<1> DEFINE q == ReceiveAck(p, m)
           u == Receive(p, m).endpoint
<1>1. p \in Endpoint /\ p.incomingMsgId \in Nat
  BY DEF EndInv, Endpoint
<1>2. EndInv(q, s, r) /\ q.incomingMsgId = p.incomingMsgId
  BY ReceiveAckInv
<1>3. q.outgoingMsgId = p.outgoingMsgId /\ q.isReconnecting = p.isReconnecting
  BY <1>1 DEF ReceiveAck, Endpoint
<1>4. q \in Endpoint
  BY <1>2 DEF EndInv
<1>5. IsNext(q, m) = IsNext(p, m) /\ IsGap(q, m) = IsGap(p, m)
  BY <1>2 DEF IsNext, IsGap
<1>6. u = IF IsNext(q, m) THEN [q EXCEPT !.incomingMsgId = m.id]
          ELSE IF IsGap(q, m) THEN [q EXCEPT !.replayRequested = TRUE]
          ELSE q
  BY DEF Receive
<1>7. /\ Receive(p, m).writes \in {<<ReplayRequest>>, q.outgoingUnackMsg, <<>>}
      /\ m.type # "ReplayRequest" /\ ~IsGap(q, m) => Receive(p, m).writes = <<>>
  BY DEF Receive
<1>8. q.outgoingUnackMsg \in Seq(Message) /\ NoneOf(q.outgoingUnackMsg, "Control")
  BY <1>2, UnackFits
<1>9. ReplayRequest \in Message /\ ReplayRequest.type = "ReplayRequest"
  BY DEF ReplayRequest, Message
<1>10. /\ <<ReplayRequest>> \in Seq(Message) /\ NoneOf(<<ReplayRequest>>, "Control")
       /\ <<>> \in Seq(Message) /\ NoneOf(<<>>, "Control")
  BY <1>9, OneMessage
<1> HIDE DEF q, u
<1>11. Receive(p, m).writes \in Seq(Message) /\ NoneOf(Receive(p, m).writes, "Control")
  BY <1>7, <1>8, <1>10
<1>12. u.outgoingMsgId = q.outgoingMsgId /\ u.isReconnecting = q.isReconnecting
  BY <1>4, <1>6 DEF Endpoint
<1>13. u.incomingMsgId = IF IsNext(p, m) THEN p.incomingMsgId + 1 ELSE p.incomingMsgId
  <2>1. CASE IsNext(p, m)
    <3>1. m.id = p.incomingMsgId + 1
      BY <2>1 DEF IsNext
    <3> QED
      BY <1>4, <1>5, <1>6, <2>1, <3>1 DEF Endpoint
  <2>2. CASE ~IsNext(p, m)
    BY <1>2, <1>4, <1>5, <1>6, <2>2 DEF Endpoint
  <2> QED
    BY <2>1, <2>2
<1> QED
  BY <1>3, <1>5, <1>7, <1>11, <1>12, <1>13 DEF u

\* Everything unacknowledged is written again when a reconnection ends.
LEMMA FinishFits ==
  ASSUME NEW p, NEW s, NEW r, EndInv(p, s, r)
  PROVE  LET ms == EndAcceptReconnection(p).writes IN
         /\ ms \in Seq(Message)
         /\ NoneOf(ms, "Control") /\ NoneOf(ms, "ReplayRequest")
         /\ Gapless(ms, p.outgoingAckId)
         /\ Complete(ms, p.outgoingAckId, p.outgoingMsgId)
<1> DEFINE h == <<AckMessage(p.incomingMsgId)>>
<1>1. EndAcceptReconnection(p).writes = h \o p.outgoingUnackMsg
  BY DEF EndAcceptReconnection
<1>2. AckMessage(p.incomingMsgId) \in Message /\ AckMessage(p.incomingMsgId).type = "Ack"
  BY DEF EndInv, Endpoint, AckMessage, Message
<1>3. /\ h \in Seq(Message) /\ NoneOf(h, "Control") /\ NoneOf(h, "Regular") /\ NoneOf(h, "ReplayRequest")
  BY <1>2, OneMessage
<1> HIDE DEF h
<1> QED
  BY <1>1, <1>3, ReplayFits

\* The fields that the two ends of a reconnection change.
LEMMA ReconnectionFits ==
  ASSUME NEW p \in Endpoint
  PROVE  /\ LET x == BeginAcceptReconnection(p) IN
            /\ x \in Endpoint /\ x.isReconnecting
            /\ x.outgoingMsgId = p.outgoingMsgId /\ x.incomingMsgId = p.incomingMsgId
            /\ x.outgoingAckId = p.outgoingAckId /\ x.outgoingUnackMsg = p.outgoingUnackMsg
         /\ LET x == EndAcceptReconnection(p).endpoint IN
            /\ ~x.isReconnecting
            /\ x.outgoingMsgId = p.outgoingMsgId /\ x.incomingMsgId = p.incomingMsgId
            /\ x.outgoingAckId = p.outgoingAckId
BY DEF BeginAcceptReconnection, EndAcceptReconnection, Endpoint

----------------------------------------------------------------------------
(* What an operation does to each queue                                    *)

TypedWires(w) == w \in [Socket -> [End -> Seq(Message)]]

LEMMA WriteView ==
  ASSUME NEW w, TypedWires(w), up \subseteq Socket, NEW k, NEW e \in End, NEW ms \in Seq(Message)
  PROVE  LET w2 == Write(w, k, e, ms) IN
         /\ TypedWires(w2)
         /\ \A j \in Socket : \A f \in End :
              w2[j][f] = IF j = k /\ k \in up /\ f = e THEN w[j][f] \o ms ELSE w[j][f]
<1>1. CASE k \in up
  <2> DEFINE q == w[k][e] \o ms
             w2 == [w EXCEPT ![k][e] = q]
  <2>1. k \in Socket /\ w[k][e] \in Seq(Message)
    BY <1>1 DEF TypedWires
  <2>2. q \in Seq(Message)
    BY <2>1, Behind
  <2>3. Write(w, k, e, ms) = w2
    BY <1>1 DEF Write
  <2>4. q = w[k][e] \o ms
    OBVIOUS
  <2> HIDE DEF q
  <2>5. TypedWires(w2) /\ \A j \in Socket : \A f \in End : w2[j][f] = IF j = k /\ f = e THEN q ELSE w[j][f]
    BY <2>1, <2>2 DEF TypedWires
  <2> HIDE DEF w2
  <2> QED
    BY <1>1, <2>3, <2>4, <2>5
<1>2. CASE k \notin up
  BY <1>2 DEF Write
<1> QED
  BY <1>1, <1>2

LEMMA WriteElsewhere ==
  ASSUME NEW w, TypedWires(w), up \subseteq Socket, NEW k, NEW ms, NEW j \in Socket
  PROVE  /\ Write(w, k, "server", ms)[j]["client"] = w[j]["client"]
         /\ Write(w, k, "client", ms)[j]["server"] = w[j]["server"]
<1>1. Write(w, k, "server", ms)[j]["client"] = w[j]["client"]
  <2> DEFINE q == w[k]["server"] \o ms
  <2>1. Write(w, k, "server", ms) = IF k \in up THEN [w EXCEPT ![k]["server"] = q] ELSE w
    BY DEF Write
  <2> HIDE DEF q
  <2> QED
    BY <2>1 DEF TypedWires, End
<1>2. Write(w, k, "client", ms)[j]["server"] = w[j]["server"]
  <2> DEFINE q == w[k]["client"] \o ms
  <2>1. Write(w, k, "client", ms) = IF k \in up THEN [w EXCEPT ![k]["client"] = q] ELSE w
    BY DEF Write
  <2> HIDE DEF q
  <2> QED
    BY <2>1 DEF TypedWires, End
<1> QED
  BY <1>1, <1>2

LEMMA UnreadView ==
  ASSUME NEW w, TypedWires(w), NEW k, NEW e \in End
  PROVE  LET w2 == Unread(w, k, e) IN
         /\ TypedWires(w2)
         /\ \A j \in Socket : \A f \in End : w2[j][f] = IF j = k /\ f = e THEN <<>> ELSE w[j][f]
<1>1. <<>> \in Seq(Message)
  OBVIOUS
<1>2. CASE k \in Socket
  BY <1>1, <1>2 DEF Unread, TypedWires
<1>3. CASE k \notin Socket
  BY <1>3 DEF Unread
<1> QED
  BY <1>2, <1>3

LEMMA TailView ==
  ASSUME NEW w, TypedWires(w), NEW k \in Socket, NEW e \in End, w[k][e] # <<>>
  PROVE  LET w2 == [w EXCEPT ![k][e] = Tail(@)] IN
         /\ TypedWires(w2)
         /\ w[k][e] \in Seq(Message) /\ Head(w[k][e]) \in Message
         /\ \A j \in Socket : \A f \in End : w2[j][f] = IF j = k /\ f = e THEN Tail(w[j][f]) ELSE w[j][f]
<1>1. w[k][e] \in Seq(Message)
  BY DEF TypedWires
<1>2. Tail(w[k][e]) \in Seq(Message) /\ Head(w[k][e]) \in Message
  BY <1>1, Rest
<1> DEFINE q == Tail(w[k][e])
           w2 == [w EXCEPT ![k][e] = q]
<1>3. q = Tail(w[k][e]) /\ [w EXCEPT ![k][e] = Tail(@)] = w2
  OBVIOUS
<1> HIDE DEF q
<1>4. TypedWires(w2) /\ \A j \in Socket : \A f \in End : w2[j][f] = IF j = k /\ f = e THEN q ELSE w[j][f]
  BY <1>2, <1>3 DEF TypedWires
<1> HIDE DEF w2
<1> QED
  BY <1>1, <1>2, <1>3, <1>4

----------------------------------------------------------------------------
(* The handshake of a reconnection                                         *)

NoControl(q) == NoneOf(q, "Control")

Silent(k) == NoControl(wire[k]["client"])
Answered(k, d) == OneControl(wire[k]["client"], d)

\* How far the handshake on the client's socket has got.  A socket that is
\* down still holds what had arrived.
Exchange(k) ==
  /\ phase = "auth" =>
       \/ /\ handshake[k] = "waitingForAuth"
          /\ Silent(k) /\ OneControl(wire[k]["server"], "auth")
       \/ /\ handshake[k] = "waitingForConnectionType"
          /\ Answered(k, "sign") /\ NoControl(wire[k]["server"])
       \/ k \notin up /\ (Silent(k) \/ Answered(k, "sign"))
  /\ phase = "connectionType" =>
       \/ handshake[k] = "waitingForConnectionType" /\ Silent(k)
       \/ handshake[k] = "none" /\ socketOf["server"] = k /\ Answered(k, "ok")
       \/ k \notin up /\ (Silent(k) \/ Answered(k, "ok") \/ (Answered(k, "error") /\ ~managed))
  /\ phase = "connected" => Silent(k)

\* Only the client's socket is up, and the server reads it; once the client
\* has done its part it is the connection's own protocol that does.
JoinAt(k) ==
  /\ k \in up => socketOf["client"] = k /\ (socketOf["server"] = k \/ handshake[k] # "none")
  /\ k \in up /\ ~endpoint["client"].isReconnecting => socketOf["server"] = k
  /\ socketOf["client"] # k => wire[k]["client"] = <<>>
  /\ socketOf["client"] = k => Exchange(k)

JoinInv ==
  /\ phase \in {"auth", "connectionType"} => endpoint["client"].isReconnecting
  /\ phase = "connected" => ~endpoint["client"].isReconnecting
  /\ phase \in {"auth", "connectionType", "connected"} => controlMessages = <<>>
  /\ FailureIsFinal
  /\ \A k \in Socket : JoinAt(k)

\* From w to w2 no control message comes or goes; only of the sockets in s
\* does it matter what is under way to the server.
Undisturbed(w, w2, s) ==
  \A j \in Socket :
    /\ KeepsControls(w[j]["client"], w2[j]["client"])
    /\ j \notin up /\ w[j]["client"] = <<>> => w2[j]["client"] = <<>>
    /\ j \in s => KeepsControls(w[j]["server"], w2[j]["server"])

LEMMA TwoEnds == "client" \in End /\ "server" \in End /\ Peer["client"] = "server" /\ Peer["server"] = "client"
                 /\ \A e \in End : e = "client" \/ e = "server"
BY DEF End, Peer

LEMMA ControlsStay ==
  /\ \A q : KeepsControls(q, q)
  /\ \A q, r, t : KeepsControls(q, r) /\ KeepsControls(r, t) => KeepsControls(q, t)
BY DEF KeepsControls

LEMMA StillUndisturbed ==
  ASSUME NEW s, NEW w
  PROVE  /\ Undisturbed(w, w, s)
         /\ \A w2, w3 : Undisturbed(w, w2, s) /\ Undisturbed(w2, w3, s) => Undisturbed(w, w3, s)
BY ControlsStay DEF Undisturbed

LEMMA WriteUndisturbed ==
  ASSUME NEW s, NEW w, TypedWires(w), up \subseteq Socket,
         NEW k, NEW e \in End, NEW ms \in Seq(Message), NoControl(ms)
  PROVE  Undisturbed(w, Write(w, k, e, ms), s)
<1> DEFINE w2 == Write(w, k, e, ms)
<1>0. w2 = Write(w, k, e, ms)
  OBVIOUS
<1> HIDE DEF w2
<1>1. \A j \in Socket : \A f \in End :
        w2[j][f] = IF j = k /\ k \in up /\ f = e THEN w[j][f] \o ms ELSE w[j][f]
  BY <1>0, WriteView
<1>2. ASSUME NEW j \in Socket, NEW f \in End
      PROVE  KeepsControls(w[j][f], w2[j][f])
  <2>1. w[j][f] \in Seq(Message)
    BY DEF TypedWires
  <2>2. KeepsControls(w[j][f], w[j][f] \o ms)
    BY <2>1, BehindOf DEF NoControl
  <2>3. w2[j][f] = w[j][f] \o ms \/ w2[j][f] = w[j][f]
    BY <1>1
  <2> QED
    BY <2>2, <2>3, ControlsStay
<1>3. ASSUME NEW j \in Socket, j \notin up, w[j]["client"] = <<>>
      PROVE  w2[j]["client"] = <<>>
  BY <1>1, <1>3, TwoEnds
<1>4. Undisturbed(w, w2, s)
  BY <1>2, <1>3, TwoEnds DEF Undisturbed
<1> QED
  BY <1>4 DEF w2

LEMMA ReadUndisturbed ==
  ASSUME NEW s, NEW w, TypedWires(w), NEW k \in Socket, NEW e \in End,
         w[k][e] # <<>>, Head(w[k][e]).type # "Control"
  PROVE  Undisturbed(w, [w EXCEPT ![k][e] = Tail(@)], s)
<1> DEFINE w2 == [w EXCEPT ![k][e] = Tail(@)]
<1>0. w2 = [w EXCEPT ![k][e] = Tail(@)]
  OBVIOUS
<1> HIDE DEF w2
<1>1. \A j \in Socket : \A f \in End : w2[j][f] = IF j = k /\ f = e THEN Tail(w[j][f]) ELSE w[j][f]
  BY <1>0, TailView
<1>2. KeepsControls(w[k][e], Tail(w[k][e]))
  <2>1. w[k][e] \in Seq(Message)
    BY DEF TypedWires
  <2> QED
    BY <2>1, RestOf
<1>3. ASSUME NEW j \in Socket, NEW f \in End
      PROVE  KeepsControls(w[j][f], w2[j][f])
  BY <1>1, <1>2, ControlsStay
<1>4. ASSUME NEW j \in Socket, w[j]["client"] = <<>>
      PROVE  w2[j]["client"] = <<>>
  BY <1>1, <1>4, TwoEnds
<1>5. Undisturbed(w, w2, s)
  BY <1>3, <1>4, TwoEnds DEF Undisturbed
<1> QED
  BY <1>5 DEF w2

LEMMA UnreadUndisturbed ==
  ASSUME NEW s, NEW w, TypedWires(w), NEW k, k \notin s
  PROVE  Undisturbed(w, Unread(w, k, "server"), s)
<1> DEFINE w2 == Unread(w, k, "server")
<1>1. \A j \in Socket : \A f \in End : w2[j][f] = IF j = k /\ f = "server" THEN <<>> ELSE w[j][f]
  BY UnreadView, TwoEnds
<1> HIDE DEF w2
<1>2. \A j \in Socket : w2[j]["client"] = w[j]["client"] /\ (j # k => w2[j]["server"] = w[j]["server"])
  BY <1>1, TwoEnds
<1> QED
  BY <1>2, ControlsStay DEF Undisturbed, w2

LEMMA WiresAreTyped ==
  ASSUME ChannelInv
  PROVE  TypedWires(wire) /\ up \subseteq Socket
BY Known DEF Wires, TypedWires

\* Steps of the traffic, and sockets that go down.
LEMMA JoinKept ==
  ASSUME JoinInv, up \subseteq Socket,
         UNCHANGED <<phase, controlMessages>>,
         endpoint'["client"].isReconnecting = endpoint["client"].isReconnecting,
         socketOf'["client"] = socketOf["client"],
         managed' => managed, up' \subseteq up, Undisturbed(wire, wire', up'),
         \A k \in up' : handshake'[k] = handshake[k] /\ (socketOf["server"] = k => socketOf'["server"] = k)
  PROVE  JoinInv'
<1>1. ASSUME NEW k \in Socket
      PROVE  JoinAt(k)'
  <2>1. JoinAt(k)
    BY DEF JoinInv
  <2>2. /\ KeepsControls(wire[k]["client"], wire'[k]["client"])
        /\ k \notin up /\ wire[k]["client"] = <<>> => wire'[k]["client"] = <<>>
        /\ k \in up' => KeepsControls(wire[k]["server"], wire'[k]["server"])
    BY DEF Undisturbed
  <2>3. /\ Silent(k) => Silent(k)'
        /\ \A d : Answered(k, d) => Answered(k, d)'
        /\ k \in up' /\ OneControl(wire[k]["server"], "auth") => OneControl(wire'[k]["server"], "auth")
        /\ k \in up' /\ NoControl(wire[k]["server"]) => NoControl(wire'[k]["server"])
    BY <2>2 DEF KeepsControls, Silent, Answered, NoControl
  <2>4. k \in up' => k \in up /\ handshake'[k] = handshake[k] /\ (socketOf["server"] = k => socketOf'["server"] = k)
    OBVIOUS
  <2>5. socketOf["client"] = k => Exchange(k)'
    <3> SUFFICES ASSUME socketOf["client"] = k
                 PROVE  Exchange(k)'
      OBVIOUS
    <3> HIDE DEF Silent, Answered
    <3>1. CASE phase = "auth"
      BY <2>1, <2>3, <2>4, <3>1 DEF JoinAt, Exchange
    <3>2. CASE phase = "connectionType"
      <4>1. Exchange(k)
        BY <2>1 DEF JoinAt
      <4>2. CASE k \in up'
        BY <2>3, <2>4, <3>2, <4>1, <4>2 DEF Exchange
      <4>3. CASE k \notin up'
        <5>1. Silent(k) \/ Answered(k, "ok") \/ (Answered(k, "error") /\ ~managed)
          BY <3>2, <4>1 DEF Exchange
        <5>2. Silent(k)' \/ Answered(k, "ok")' \/ (Answered(k, "error")' /\ ~managed')
          BY <2>3, <5>1
        <5> QED
          BY <3>2, <4>3, <5>2 DEF Exchange
      <4> QED
        BY <4>2, <4>3
    <3>3. CASE phase \notin {"auth", "connectionType"}
      BY <2>1, <2>3, <3>3 DEF JoinAt, Exchange
    <3> QED
      BY <3>1, <3>2, <3>3
  <2> QED
    BY <2>1, <2>2, <2>4, <2>5 DEF JoinAt
<1> QED
  BY <1>1 DEF JoinInv, FailureIsFinal

\* Steps of a client that is not in the middle of an attempt.
LEMMA JoinIdle ==
  ASSUME JoinInv, phase' \notin {"auth", "connectionType", "connected"}, phase' = "failed" => ~managed',
         endpoint'["client"].isReconnecting = endpoint["client"].isReconnecting,
         up' \subseteq up, handshake' = handshake, socketOf'["server"] = socketOf["server"],
         \A k \in up' : socketOf'["client"] = socketOf["client"],
         \A k \in Socket : socketOf'["client"] # k => wire'[k]["client"] = <<>>
  PROVE  JoinInv'
<1>1. ASSUME NEW k \in Socket
      PROVE  JoinAt(k)'
  <2>1. JoinAt(k)
    BY DEF JoinInv
  <2>2. Exchange(k)'
    BY DEF Exchange
  <2> QED
    BY <2>1, <2>2 DEF JoinAt
<1> QED
  BY <1>1 DEF JoinInv, FailureIsFinal

LEMMA NextToSend ==
  ASSUME ChannelInv, NEW e \in End, SendMessage(e)
  PROVE  ToSend[e][Len(sent[e]) + 1] \in Data
<1>1. Len(sent[e]) + 1 \in 1..Len(ToSend[e]) /\ ToSend[e] \in Seq(Data)
  BY EndFacts, ToSendAssumption DEF SendMessage
<1> QED
  BY <1>1, ElementOfSeq

\* The oldest message: it is one that the other end has written.
LEMMA OldestFits ==
  ASSUME ChannelInv, NEW e \in End, Waiting(e)
  PROVE  LET k == socketOf[e] IN
         /\ k \in Socket /\ wire[k][e] # <<>> /\ wire[k][e] \in Seq(Message)
         /\ Consumed(e) = [wire EXCEPT ![k][e] = Tail(@)] /\ TypedWires(Consumed(e))
         /\ Oldest(e) = Head(wire[k][e]) /\ Oldest(e) \in Message
         /\ Oldest(e).ack <= Len(sent[e])
<1>1. /\ socketOf[e] \in Socket /\ wire[socketOf[e]][e] # <<>>
      /\ Consumed(e) = [wire EXCEPT ![socketOf[e]][e] = Tail(@)]
      /\ Oldest(e) = Head(wire[socketOf[e]][e])
  BY DEF Waiting, Consumed, Oldest
<1>2. wire[socketOf[e]][e] \in Seq(Message) /\ TypedWires(Consumed(e))
  BY <1>1, WiresAreTyped, TailView DEF TypedWires
<1>3. Oldest(e) \in Message /\ Oldest(e).ack <= endpoint[Peer[e]].incomingMsgId
  BY ConsumedInv DEF Honest, HonestOf
<1>4. Oldest(e).ack \in Nat /\ Len(sent[e]) \in Nat /\ endpoint[Peer[e]].incomingMsgId \in Nat
  BY <1>3, EndFacts, Peers DEF Message
<1>5. Oldest(e).ack <= Len(sent[e])
  BY <1>3, <1>4, EndFacts
<1> QED
  BY <1>1, <1>2, <1>3, <1>5

LEMMA JoinTraffic ==
  ASSUME ChannelInv, JoinInv, NEW e \in End, SendMessage(e) \/ ReceiveMessage(e) \/ SendAckTimeout(e)
  PROVE  JoinInv'
<1>1. TypedWires(wire) /\ up \subseteq Socket /\ endpoint \in [End -> Endpoint]
  BY WiresAreTyped, EndsAreTyped
<1>2. EndInv(endpoint[e], sent[e], received[e]) /\ Peer[e] \in End
  BY EndFacts, Peers
<1>3. CASE SendMessage(e)
  <2> DEFINE d == ToSend[e][Len(sent[e]) + 1]
             r == Send(endpoint[e], d)
  <2>1. d \in Data
    BY <1>3, NextToSend
  <2>2. /\ endpoint' = [endpoint EXCEPT ![e] = r.endpoint]
        /\ wire' = Write(wire, socketOf[e], Peer[e], r.writes)
        /\ UNCHANGED <<socketOf, up, phase, controlMessages, handshake, managed>>
    BY <1>3 DEF SendMessage, clientVars, serverVars
  <2> HIDE DEF d
  <2>3. /\ r.writes \in Seq(Message) /\ NoneOf(r.writes, "Control")
        /\ r.endpoint.isReconnecting = endpoint[e].isReconnecting
    BY <1>2, <2>1, SendFits
  <2> HIDE DEF r
  <2>4. NoControl(r.writes)
    BY <2>3 DEF NoControl
  <2>5. Undisturbed(wire, wire', up')
    BY <1>1, <1>2, <2>2, <2>3, <2>4, WriteUndisturbed
  <2>6. endpoint'["client"].isReconnecting = endpoint["client"].isReconnecting
    BY <1>1, <2>2, <2>3, TwoEnds
  <2> QED
    BY <1>1, <2>2, <2>5, <2>6, JoinKept
<1>4. CASE SendAckTimeout(e)
  <2> DEFINE r == SendAck(endpoint[e])
  <2>1. /\ endpoint' = [endpoint EXCEPT ![e] = r.endpoint]
        /\ wire' = Write(wire, socketOf[e], Peer[e], r.writes)
        /\ UNCHANGED <<socketOf, up, phase, controlMessages, handshake, managed>>
    BY <1>4 DEF SendAckTimeout, clientVars, serverVars
  <2>2. /\ r.writes \in Seq(Message) /\ NoneOf(r.writes, "Control")
        /\ r.endpoint.isReconnecting = endpoint[e].isReconnecting
    BY <1>2, AckFits
  <2> HIDE DEF r
  <2>3. NoControl(r.writes)
    BY <2>2 DEF NoControl
  <2>4. Undisturbed(wire, wire', up')
    BY <1>1, <1>2, <2>1, <2>2, <2>3, WriteUndisturbed
  <2>5. endpoint'["client"].isReconnecting = endpoint["client"].isReconnecting
    BY <1>1, <2>1, <2>2, TwoEnds
  <2> QED
    BY <1>1, <2>1, <2>4, <2>5, JoinKept
<1>5. CASE ReceiveMessage(e)
  <2> DEFINE m == Oldest(e)
             r == Receive(endpoint[e], m)
             w == Consumed(e)
  <2>1. /\ Waiting(e) /\ m.type # "Control"
        /\ endpoint' = [endpoint EXCEPT ![e] = r.endpoint]
        /\ wire' = Write(w, socketOf[e], Peer[e], r.writes)
        /\ UNCHANGED <<socketOf, up, phase, controlMessages, handshake, managed>>
    BY <1>5 DEF ReceiveMessage, clientVars, serverVars
  <2>2. /\ socketOf[e] \in Socket /\ wire[socketOf[e]][e] # <<>>
        /\ w = [wire EXCEPT ![socketOf[e]][e] = Tail(@)] /\ TypedWires(w)
        /\ m = Head(wire[socketOf[e]][e]) /\ m \in Message /\ m.ack <= Len(sent[e])
    BY <2>1, OldestFits
  <2> HIDE DEF m, w
  <2>3. /\ r.writes \in Seq(Message) /\ NoneOf(r.writes, "Control")
        /\ r.endpoint.isReconnecting = endpoint[e].isReconnecting
    BY <1>2, <2>2, ReadFits
  <2> HIDE DEF r
  <2>4. NoControl(r.writes)
    BY <2>3 DEF NoControl
  <2>5. Undisturbed(wire, w, up')
    BY <1>1, <2>1, <2>2, ReadUndisturbed
  <2>6. Undisturbed(w, wire', up')
    BY <1>1, <1>2, <2>1, <2>2, <2>3, <2>4, WriteUndisturbed
  <2>7. Undisturbed(wire, wire', up')
    BY <2>5, <2>6, StillUndisturbed
  <2>8. endpoint'["client"].isReconnecting = endpoint["client"].isReconnecting
    BY <1>1, <2>1, <2>3, TwoEnds
  <2> QED
    BY <1>1, <2>1, <2>7, <2>8, JoinKept
<1> QED
  BY <1>3, <1>4, <1>5

\* Sockets that go down, and the connection with them.
LEMMA JoinSockets ==
  ASSUME ChannelInv, JoinInv,
         \/ \E k \in Socket : LinkFails(k) \/ HandshakeSocketCloses(k) \/ ServerDiscards(k)
         \/ ServerSocketCloses \/ GraceTimeExpires \/ ServerReceivesDisconnect
         \/ OtherClientConnects \/ UNCHANGED vars
  PROVE  JoinInv'
<1>1. TypedWires(wire) /\ up \subseteq Socket /\ socketOf \in [End -> Socket \cup {NoSocket}]
      /\ handshake \in [Socket -> {"none", "waitingForAuth", "waitingForConnectionType"}]
  BY WiresAreTyped, Known DEF RestOK
<1>2. ASSUME NEW k \in Socket, LinkFails(k)
      PROVE  JoinInv'
  <2>1. /\ UNCHANGED <<endpoint, socketOf, wire, phase, controlMessages, handshake, managed>>
        /\ up' = up \ {k}
    BY <1>2 DEF LinkFails, clientVars, serverVars
  <2>2. Undisturbed(wire, wire', up')
    BY <2>1, StillUndisturbed
  <2> QED
    BY <1>1, <2>1, <2>2, JoinKept
<1>3. ASSUME NEW k \in Socket, HandshakeSocketCloses(k)
      PROVE  JoinInv'
  <2>1. /\ UNCHANGED <<endpoint, socketOf, up, phase, controlMessages, managed>>
        /\ handshake' = [handshake EXCEPT ![k] = "none"] /\ k \notin up
        /\ wire' = Unread(wire, k, "server")
    BY <1>3 DEF HandshakeSocketCloses, clientVars
  <2>2. Undisturbed(wire, wire', up')
    BY <1>1, <2>1, UnreadUndisturbed
  <2>3. \A j \in up' : handshake'[j] = handshake[j]
    BY <1>1, <2>1
  <2> QED
    BY <1>1, <2>1, <2>2, <2>3, JoinKept
<1>4. ASSUME NEW k \in Socket, ServerDiscards(k)
      PROVE  JoinInv'
  <2>1. /\ UNCHANGED <<endpoint, socketOf, up, phase, controlMessages, handshake, managed>>
        /\ wire[k]["server"] # <<>> /\ Head(wire[k]["server"]).type # "Control"
        /\ wire' = [wire EXCEPT ![k]["server"] = Tail(@)]
    BY <1>4 DEF ServerDiscards, clientVars, serverVars
  <2>2. Undisturbed(wire, wire', up')
    BY <1>1, <2>1, ReadUndisturbed, TwoEnds
  <2> QED
    BY <1>1, <2>1, <2>2, JoinKept
<1>5. CASE ServerSocketCloses
  <2> DEFINE k == socketOf["server"]
  <2>1. /\ UNCHANGED <<endpoint, up, phase, controlMessages, handshake, managed>>
        /\ socketOf' = [socketOf EXCEPT !["server"] = NoSocket] /\ k \notin up
        /\ wire' = Unread(wire, k, "server")
    BY <1>5 DEF ServerSocketCloses, clientVars
  <2> HIDE DEF k
  <2>2. Undisturbed(wire, wire', up')
    BY <1>1, <2>1, UnreadUndisturbed
  <2>3. socketOf'["client"] = socketOf["client"] /\ \A j \in up' : socketOf["server"] # j
    BY <1>1, <2>1, TwoEnds DEF k
  <2> QED
    BY <1>1, <2>1, <2>2, <2>3, JoinKept
<1>6. CASE CleanResources(wire)
  <2> DEFINE k == socketOf["server"]
             w == Write(wire, k, "client", <<Disconnect>>)
  <2>1. /\ UNCHANGED <<endpoint, phase, controlMessages, handshake>> /\ managed' = FALSE
        /\ socketOf' = [socketOf EXCEPT !["server"] = NoSocket] /\ up' = up \ {k}
        /\ wire' = Unread(w, k, "server")
    BY <1>6 DEF CleanResources, clientVars
  <2>2. Disconnect \in Message /\ Disconnect.type = "Disconnect"
    BY DEF Disconnect, Message
  <2>3. <<Disconnect>> \in Seq(Message) /\ NoControl(<<Disconnect>>)
    BY <2>2, OneMessage DEF NoControl
  <2>4. TypedWires(w) /\ Undisturbed(wire, w, up')
    <3>1. Undisturbed(wire, w, up')
      BY <1>1, <2>3, WriteUndisturbed, TwoEnds
    <3>2. TypedWires(w)
      BY <1>1, <2>3, WriteView, TwoEnds
    <3> QED
      BY <3>1, <3>2
  <2> HIDE DEF k, w
  <2>5. Undisturbed(w, wire', up')
    BY <1>1, <2>1, <2>4, UnreadUndisturbed
  <2>6. Undisturbed(wire, wire', up')
    BY <2>4, <2>5, StillUndisturbed
  <2>7. socketOf'["client"] = socketOf["client"] /\ \A j \in up' : socketOf["server"] # j
    BY <1>1, <2>1, TwoEnds DEF k
  <2> QED
    BY <1>1, <2>1, <2>6, <2>7, JoinKept
<1>7. CASE OtherClientConnects \/ UNCHANGED vars
  <2>1. UNCHANGED <<endpoint, socketOf, wire, up, phase, controlMessages, handshake, managed>>
    BY <1>7 DEF OtherClientConnects, clientVars, vars, serverVars
  <2>2. Undisturbed(wire, wire', up')
    BY <2>1, StillUndisturbed
  <2> QED
    BY <1>1, <2>1, <2>2, JoinKept
<1> QED
  BY <1>2, <1>3, <1>4, <1>5, <1>6, <1>7 DEF GraceTimeExpires, ServerReceivesDisconnect

\* The only answer an attempt can get is that of the socket it has opened.
LEMMA AnswerIs ==
  ASSUME ChannelInv, JoinInv, ControlMessage # NoData
  PROVE  LET k == socketOf["client"] IN
         /\ k \in Socket /\ wire[k]["client"] # <<>> /\ wire[k]["client"] \in Seq(Message)
         /\ Head(wire[k]["client"]).type = "Control" /\ NoControl(Tail(wire[k]["client"]))
         /\ WithoutControl = [wire EXCEPT ![k]["client"] = Tail(@)]
         /\ RestOfControl = <<>> /\ controlMessages = <<>>
         /\ endpoint["client"].isReconnecting
         /\ \/ /\ phase = "auth" /\ ControlMessage = "sign"
               /\ handshake[k] = "waitingForConnectionType" \/ k \notin up
            \/ /\ phase = "connectionType" /\ ControlMessage = "ok"
               /\ socketOf["server"] = k \/ k \notin up
            \/ phase = "connectionType" /\ ControlMessage = "error" /\ ~managed
<1> DEFINE k == socketOf["client"]
           q == wire[k]["client"]
<1>1. phase \in {"auth", "connectionType"} /\ controlMessages = <<>> /\ endpoint["client"].isReconnecting
  BY DEF ControlMessage, Attempting, JoinInv
<1>2. ControlArrives /\ ControlMessage = Oldest("client").data /\ RestOfControl = <<>>
      /\ WithoutControl = Consumed("client")
  BY <1>1 DEF ControlMessage, RestOfControl, WithoutControl
<1>3. Waiting("client") /\ Oldest("client").type = "Control"
  BY <1>2 DEF ControlArrives
<1>4. /\ k \in Socket /\ q # <<>> /\ q \in Seq(Message)
      /\ WithoutControl = [wire EXCEPT ![k]["client"] = Tail(@)]
      /\ Oldest("client") = Head(q)
  BY <1>2, <1>3, TwoEnds, OldestFits
<1>5. JoinAt(k) /\ Exchange(k)
  BY <1>4 DEF JoinInv, JoinAt
<1> HIDE DEF q
<1>6. Head(q).type = "Control" /\ ~NoneOf(q, "Control")
  BY <1>3, <1>4, RestOf
<1>7. ~Silent(k)
  BY <1>6 DEF Silent, NoControl, q
<1>8. ASSUME NEW d, Answered(k, d)
      PROVE  ControlMessage = d /\ NoControl(Tail(q))
  <2>1. OneControl(q, d)
    BY <1>8 DEF Answered, q
  <2>2. Head(q).data = d /\ NoneOf(Tail(q), "Control")
    BY <1>4, <1>6, <2>1, RestOf
  <2> QED
    BY <1>2, <1>4, <2>2 DEF NoControl
<1> HIDE DEF k
<1>9. CASE phase = "auth"
  <2>1. Answered(k, "sign") /\ (handshake[k] = "waitingForConnectionType" \/ k \notin up)
    BY <1>5, <1>7, <1>9 DEF Exchange
  <2> QED
    BY <1>1, <1>2, <1>4, <1>6, <1>8, <1>9, <2>1 DEF k, q
<1>10. CASE phase = "connectionType"
  <2>1. \/ Answered(k, "ok") /\ (socketOf["server"] = k \/ k \notin up)
        \/ Answered(k, "error") /\ ~managed
    BY <1>5, <1>7, <1>10 DEF Exchange
  <2> QED
    BY <1>1, <1>2, <1>4, <1>6, <1>8, <1>10, <2>1 DEF k, q
<1> QED
  BY <1>1, <1>9, <1>10

\* The client leaves, or loses its socket.
LEMMA JoinLeaves ==
  ASSUME ChannelInv, JoinInv, NEW w, TypedWires(w), \A k \in Socket : w[k]["client"] = wire[k]["client"],
         NEW how \in {"failed", "gaveUp", "ended"}, how = "failed" => ~managed, ClientLeaves(w, how)
  PROVE  JoinInv'
<1> DEFINE k == socketOf["client"]
<1>1. /\ phase' = how /\ socketOf' = [socketOf EXCEPT !["client"] = NoSocket]
      /\ wire' = Unread(w, k, "client") /\ up' = up \ {k}
      /\ UNCHANGED <<endpoint, handshake, managed>>
  BY DEF ClientLeaves, serverVars
<1>2. socketOf \in [End -> Socket \cup {NoSocket}] /\ up \subseteq Socket
  BY Known DEF RestOK
<1>3. \A j \in up : j = k
  BY <1>2 DEF JoinInv, JoinAt
<1>4. up' = {} /\ socketOf'["server"] = socketOf["server"] /\ socketOf'["client"] = NoSocket
  BY <1>1, <1>2, <1>3, TwoEnds
<1>5. ASSUME NEW j \in Socket
      PROVE  wire'[j]["client"] = <<>>
  <2>1. wire'[j]["client"] = IF j = k THEN <<>> ELSE w[j]["client"]
    BY <1>1, UnreadView, TwoEnds
  <2>2. j # k => wire[j]["client"] = <<>>
    BY DEF JoinInv, JoinAt
  <2> QED
    BY <2>1, <2>2
<1> HIDE DEF k
<1> QED
  BY <1>1, <1>4, <1>5, JoinIdle

LEMMA JoinWaits ==
  ASSUME ChannelInv, JoinInv,
         \/ ClientSocketCloses \/ ClientSocketTimesOut \/ AttemptTimesOut \/ BufferControlMessage
  PROVE  JoinInv'
<1> DEFINE k == socketOf["client"]
<1>1. /\ socketOf \in [End -> Socket \cup {NoSocket}] /\ up \subseteq Socket
      /\ TypedWires(wire)
  BY WiresAreTyped, Known DEF RestOK
<1>2. /\ \A j \in up : j = k
      /\ \A j \in Socket : j # k => wire[j]["client"] = <<>>
  BY <1>1 DEF JoinInv, JoinAt
<1>3. CASE ClientSocketTimesOut \/ AttemptTimesOut
  <2>1. UNCHANGED <<endpoint, socketOf, wire, up, handshake, managed>> /\ phase' = "waiting"
    BY <1>3 DEF ClientSocketTimesOut, AttemptTimesOut, serverVars
  <2> QED
    BY <1>2, <2>1, JoinIdle
<1>4. CASE BufferControlMessage
  <2>1. /\ phase \notin {"auth", "connectionType"} /\ Waiting("client") /\ Oldest("client").type = "Control"
        /\ wire' = Consumed("client")
        /\ UNCHANGED <<endpoint, socketOf, up, phase, handshake, managed>>
    BY <1>4 DEF BufferControlMessage, Attempting, ControlArrives, serverVars
  <2>2. /\ k \in Socket /\ wire[k]["client"] # <<>> /\ wire[k]["client"] \in Seq(Message)
        /\ wire' = [wire EXCEPT ![k]["client"] = Tail(@)]
        /\ Head(wire[k]["client"]).type = "Control"
    BY <2>1, OldestFits, TwoEnds
  <2>3. phase # "connected"
    <3>1. ~NoneOf(wire[k]["client"], "Control")
      BY <2>2, RestOf
    <3>2. JoinAt(k)
      BY <2>2 DEF JoinInv
    <3> QED
      BY <3>1, <3>2 DEF JoinAt, Exchange, Silent, NoControl
  <2>4. ASSUME NEW j \in Socket, j # k
        PROVE  wire'[j]["client"] = <<>>
    <3>1. wire'[j]["client"] = wire[j]["client"]
      BY <1>1, <2>2, <2>4, TwoEnds DEF TypedWires
    <3> QED
      BY <1>2, <2>4, <3>1
  <2> HIDE DEF k
  <2>5. phase' = "failed" => ~managed'
    BY <2>1 DEF JoinInv, FailureIsFinal
  <2> QED
    BY <2>1, <2>3, <2>4, <2>5, JoinIdle DEF k
<1>5. CASE ClientSocketCloses
  <2>1. /\ k \in Socket \ up /\ socketOf' = [socketOf EXCEPT !["client"] = NoSocket]
        /\ wire' = Unread(wire, k, "client")
        /\ phase' = IF phase = "connected" THEN "waiting" ELSE phase
        /\ UNCHANGED <<endpoint, up, controlMessages, handshake, managed>>
    BY <1>5 DEF ClientSocketCloses, serverVars
  <2>2. up = {} /\ socketOf'["client"] = NoSocket
    BY <1>1, <1>2, <2>1, TwoEnds
  <2>3. ASSUME NEW j \in Socket
        PROVE  JoinAt(j)'
    <3>1. wire'[j]["client"] = IF j = k THEN <<>> ELSE wire[j]["client"]
      BY <1>1, <2>1, UnreadView, TwoEnds
    <3>2. wire'[j]["client"] = <<>>
      BY <1>2, <3>1
    <3>3. j \notin up'
      BY <2>1, <2>2
    <3>4. socketOf'["client"] # j
      BY <2>2, NoSocketAssumption
    <3> QED
      BY <3>2, <3>3, <3>4 DEF JoinAt
  <2> QED
    BY <2>1, <2>3 DEF JoinInv, FailureIsFinal
<1> QED
  BY <1>3, <1>4, <1>5

LEMMA JoinEnds ==
  ASSUME ChannelInv, JoinInv, HandshakeRefused \/ ClientGivesUp \/ WindowCloses
  PROVE  JoinInv'
<1>1. TypedWires(wire) /\ up \subseteq Socket
  BY WiresAreTyped
<1>2. CASE HandshakeRefused
  <2>1. ControlMessage # NoData /\ ClientLeaves(wire, "failed")
    BY <1>2, ControlAssumption DEF HandshakeRefused, ControlData
  <2>2. ~managed
    BY <1>2, <2>1, AnswerIs DEF HandshakeRefused
  <2> QED
    BY <1>1, <2>1, <2>2, JoinLeaves
<1>3. CASE ClientGivesUp
  BY <1>1, <1>3, JoinLeaves DEF ClientGivesUp
<1>4. CASE WindowCloses
  <2>1. PICK ms \in {<<>>, <<Disconnect>>} : ClientLeaves(Write(wire, socketOf["client"], "server", ms), "ended")
    BY <1>4 DEF WindowCloses
  <2>2. ms \in Seq(Message)
    <3>1. Disconnect \in Message
      BY DEF Disconnect, Message
    <3> QED
      BY <3>1, OneMessage
  <2> DEFINE w == Write(wire, socketOf["client"], "server", ms)
  <2>3. w = Write(wire, socketOf["client"], "server", ms)
    OBVIOUS
  <2> HIDE DEF w
  <2>4. TypedWires(w)
    BY <1>1, <2>2, <2>3, WriteView, TwoEnds
  <2>5. ASSUME NEW k \in Socket
        PROVE  w[k]["client"] = wire[k]["client"]
    BY <1>1, <2>3, WriteElsewhere
  <2> QED
    BY <2>1, <2>3, <2>4, <2>5, JoinLeaves
<1> QED
  BY <1>2, <1>3, <1>4

LEMMA JoinConnect ==
  ASSUME ChannelInv, JoinInv, NEW k \in Socket, Connect(k)
  PROVE  JoinInv'
<1> DEFINE old == socketOf["client"]
           w == Unread(wire, old, "client")
<1>1. /\ TypedWires(wire) /\ up \subseteq Socket /\ socketOf \in [End -> Socket \cup {NoSocket}]
      /\ handshake \in [Socket -> {"none", "waitingForAuth", "waitingForConnectionType"}]
      /\ endpoint \in [End -> Endpoint]
  BY WiresAreTyped, EndsAreTyped, Known DEF RestOK
<1>2. /\ phase' = "auth" /\ controlMessages' = <<>> /\ UNCHANGED managed
      /\ k \notin up /\ old # k
      /\ endpoint' = [endpoint EXCEPT !["client"] = BeginAcceptReconnection(endpoint["client"])]
      /\ socketOf' = [socketOf EXCEPT !["client"] = k] /\ up' = (up \ {old}) \cup {k}
      /\ wire' = [w EXCEPT ![k]["server"] = <<Control("auth")>>]
      /\ handshake' = [handshake EXCEPT ![k] = "waitingForAuth"]
  BY TwoEnds DEF Connect, Free
<1>3. endpoint'["client"].isReconnecting
  BY <1>1, <1>2, TwoEnds, ReconnectionFits
<1>4. socketOf'["client"] = k /\ handshake'[k] = "waitingForAuth"
  BY <1>1, <1>2, TwoEnds
<1>5. up' = {k}
  <2>1. \A j \in up : j = old
    BY <1>1 DEF JoinInv, JoinAt
  <2> QED
    BY <1>2, <2>1
<1>6. TypedWires(w) /\ \A j \in Socket : w[j]["client"] = IF j = old THEN <<>> ELSE wire[j]["client"]
  BY <1>1, UnreadView, TwoEnds
<1> HIDE DEF w, old
<1>7. wire'[k]["server"] = <<Control("auth")>> /\ \A j \in Socket : wire'[j]["client"] = w[j]["client"]
  BY <1>2, <1>6 DEF TypedWires, End
<1>8. ASSUME NEW j \in Socket
      PROVE  wire'[j]["client"] = <<>>
  <2>1. j # old => wire[j]["client"] = <<>>
    BY DEF JoinInv, JoinAt, old
  <2> QED
    BY <1>6, <1>7, <2>1
<1>9. OneControl(wire'[k]["server"], "auth") /\ Silent(k)'
  <2>1. Control("auth") \in Message /\ Control("auth").type = "Control" /\ Control("auth").data = "auth"
    BY DEF Control, Message, ControlData
  <2>2. OneControl(<<Control("auth")>>, "auth") /\ NoneOf(<<>>, "Control")
    BY <2>1, OneMessage
  <2> QED
    BY <1>7, <1>8, <2>2 DEF Silent, NoControl
<1>10. Exchange(k)'
  BY <1>2, <1>4, <1>9 DEF Exchange
<1>11. ASSUME NEW j \in Socket
       PROVE  JoinAt(j)'
  <2>1. j \in up' => j = k
    BY <1>5
  <2>2. j = k => Exchange(j)'
    BY <1>10
  <2> QED
    BY <1>3, <1>4, <1>8, <2>1, <2>2 DEF JoinAt
<1> QED
  BY <1>2, <1>3, <1>11 DEF JoinInv, FailureIsFinal

\* The client has read the answer on its socket.
LEMMA JoinRead ==
  ASSUME ChannelInv, JoinInv, ControlMessage # NoData, NEW ms,
         wire' = Write(WithoutControl, socketOf["client"], "server", ms),
         controlMessages' = RestOfControl, UNCHANGED <<socketOf, up, serverVars>>,
         phase' \in {"connectionType", "connected"},
         phase' = "connected" <=> ~endpoint'["client"].isReconnecting,
         phase' = "connectionType" /\ socketOf["client"] \in up =>
           handshake[socketOf["client"]] = "waitingForConnectionType",
         phase' = "connected" /\ socketOf["client"] \in up => socketOf["server"] = socketOf["client"]
  PROVE  JoinInv'
<1> DEFINE k == socketOf["client"]
           w == WithoutControl
<1>1. TypedWires(wire) /\ up \subseteq Socket
  BY WiresAreTyped
<1>2. /\ k \in Socket /\ wire[k]["client"] # <<>>
      /\ NoControl(Tail(wire[k]["client"])) /\ w = [wire EXCEPT ![k]["client"] = Tail(@)]
      /\ RestOfControl = <<>>
  BY AnswerIs
<1>3. /\ wire' = Write(w, k, "server", ms) /\ controlMessages' = <<>>
      /\ UNCHANGED <<socketOf, up, handshake, managed>>
  BY <1>2 DEF serverVars
<1> HIDE DEF w
<1>4. TypedWires(w)
  <2>1. Waiting("client") /\ w = Consumed("client")
    BY AnswerIs DEF w, WithoutControl, Waiting
  <2> QED
    BY <2>1, OldestFits, TwoEnds
<1>5. \A j \in Socket : wire'[j]["client"] = w[j]["client"]
  BY <1>1, <1>3, <1>4, WriteElsewhere
<1>6. wire'[k]["client"] = Tail(wire[k]["client"])
      /\ \A j \in Socket : j # k => wire'[j]["client"] = wire[j]["client"]
  BY <1>1, <1>2, <1>5, TwoEnds DEF TypedWires
<1>7. Silent(k)'
  BY <1>2, <1>6 DEF Silent
<1>8. Exchange(k)'
  BY <1>3, <1>7 DEF Exchange
<1>9. ASSUME NEW j \in Socket
      PROVE  JoinAt(j)'
  <2>1. JoinAt(j)
    BY DEF JoinInv
  <2>2. CASE j = k
    BY <1>3, <1>8, <2>1, <2>2 DEF JoinAt
  <2>3. CASE j # k
    BY <1>3, <1>6, <2>1, <2>3 DEF JoinAt
  <2> QED
    BY <2>2, <2>3
<1> QED
  BY <1>3, <1>9 DEF JoinInv, FailureIsFinal

LEMMA JoinAnswers ==
  ASSUME ChannelInv, JoinInv, SignArrives \/ HandshakeFinishes
  PROVE  JoinInv'
<1>1. CASE SignArrives
  <2>1. ControlMessage = "sign" /\ ControlMessage # NoData /\ phase = "auth"
    BY <1>1, ControlAssumption DEF SignArrives, ControlData
  <2>2. /\ socketOf["client"] \in up => handshake[socketOf["client"]] = "waitingForConnectionType"
        /\ endpoint["client"].isReconnecting
    BY <2>1, AnswerIs
  <2>3. /\ wire' = Write(WithoutControl, socketOf["client"], "server", <<Control("connectionType")>>)
        /\ controlMessages' = RestOfControl /\ phase' = "connectionType"
        /\ UNCHANGED <<endpoint, socketOf, up, serverVars>>
    BY <1>1 DEF SignArrives
  <2> QED
    BY <2>1, <2>2, <2>3, JoinRead
<1>2. CASE HandshakeFinishes
  <2> DEFINE r == EndAcceptReconnection(endpoint["client"])
  <2>1. /\ phase = "connectionType" /\ ControlMessage \notin {NoData, "error"}
        /\ endpoint' = [endpoint EXCEPT !["client"] = r.endpoint]
        /\ wire' = Write(WithoutControl, socketOf["client"], "server", r.writes)
        /\ controlMessages' = RestOfControl /\ phase' = "connected"
        /\ UNCHANGED <<socketOf, up, serverVars>>
    BY <1>2 DEF HandshakeFinishes
  <2>2. socketOf["client"] \in up => socketOf["server"] = socketOf["client"]
    BY <2>1, AnswerIs
  <2>3. ~endpoint'["client"].isReconnecting
    BY <2>1, EndsAreTyped, TwoEnds, ReconnectionFits
  <2> HIDE DEF r
  <2> QED
    BY <2>1, <2>2, <2>3, JoinRead
<1> QED
  BY <1>1, <1>2

----------------------------------------------------------------------------
Appended(q, ms, q2) == q2 = q \o ms

\* What the server answers on the socket k, when it has read the queue to it.
LEMMA AnswerView ==
  ASSUME NEW w, TypedWires(w), up \subseteq Socket, NEW k \in Socket, NEW ms \in Seq(Message),
         NEW w2, w2 = Write(w, k, "client", ms)
  PROVE  /\ TypedWires(w2)
         /\ \A j \in Socket : w2[j]["server"] = w[j]["server"]
         /\ \A j \in Socket : j # k \/ k \notin up => w2[j]["client"] = w[j]["client"]
         /\ k \in up => Appended(w[k]["client"], ms, w2[k]["client"])
<1>1. TypedWires(w2)
  BY WriteView, TwoEnds
<1>2. \A j \in Socket : w2[j]["server"] = w[j]["server"]
  BY WriteElsewhere
<1>3. CASE k \in up
  <2> DEFINE q == w[k]["client"] \o ms
  <2>1. w2 = [w EXCEPT ![k]["client"] = q] /\ q = w[k]["client"] \o ms
    BY <1>3 DEF Write
  <2> HIDE DEF q
  <2> QED
    BY <1>1, <1>2, <1>3, <2>1 DEF Appended, TypedWires, End
<1>4. CASE k \notin up
  BY <1>1, <1>2, <1>4 DEF Write
<1> QED
  BY <1>3, <1>4

\* A socket that is down when the server answers on it.
LEMMA DownUndisturbed ==
  ASSUME NEW s, NEW w, NEW w2, \A j \in Socket : w2[j]["client"] = w[j]["client"],
         \A j \in Socket : j \in s => w2[j]["server"] = w[j]["server"]
  PROVE  Undisturbed(w, w2, s)
BY ControlsStay DEF Undisturbed

\* A socket that is up.
LEMMA JoinServer ==
  ASSUME ChannelInv, JoinInv, NEW k \in up, handshake[k] # "none",
         UNCHANGED <<phase, controlMessages, managed>>,
         endpoint'["client"] = endpoint["client"], socketOf'["client"] = socketOf["client"],
         up' \subseteq up, \A j \in Socket : j # k => wire'[j]["client"] = wire[j]["client"],
         k \in up' => socketOf'["server"] = k \/ handshake'[k] # "none",
         phase = "auth" /\ Exchange(k) => Exchange(k)',
         phase = "connectionType" /\ Exchange(k) => Exchange(k)'
  PROVE  JoinInv'
<1>1. up \subseteq Socket /\ socketOf["server"] # k
  BY Known DEF RestOK
<1>2. JoinAt(k) /\ socketOf["client"] = k /\ endpoint["client"].isReconnecting
  BY <1>1 DEF JoinInv, JoinAt
<1>3. phase # "connected"
  BY <1>2 DEF JoinInv
<1>4. Exchange(k)'
  <2>1. CASE phase \in {"auth", "connectionType"}
    BY <1>2, <2>1 DEF JoinAt
  <2>2. CASE phase \notin {"auth", "connectionType"}
    BY <1>3, <2>2 DEF Exchange
  <2> QED
    BY <2>1, <2>2
<1>5. JoinAt(k)'
  BY <1>2, <1>4 DEF JoinAt
<1>6. ASSUME NEW j \in Socket, j # k
      PROVE  JoinAt(j)'
  <2>1. JoinAt(j)
    BY DEF JoinInv
  <2> QED
    BY <1>2, <1>6, <2>1 DEF JoinAt
<1> QED
  BY <1>1, <1>5, <1>6 DEF JoinInv, FailureIsFinal

\* The server has read the oldest message on the socket k.
Popped(w, k) == [w EXCEPT ![k]["server"] = Tail(@)]

LEMMA PoppedView ==
  ASSUME NEW w, TypedWires(w), NEW k \in Socket, w[k]["server"] # <<>>,
         NEW w2, w2 = Popped(w, k)
  PROVE  /\ TypedWires(w2)
         /\ \A j \in Socket : w2[j]["client"] = w[j]["client"]
         /\ \A j \in Socket : j # k => w2[j]["server"] = w[j]["server"]
         /\ w2[k]["server"] = Tail(w[k]["server"])
<1> DEFINE q == Tail(w[k]["server"])
<1>1. q \in Seq(Message) /\ q = Tail(w[k]["server"]) /\ w2 = [w EXCEPT ![k]["server"] = q]
  <2>1. w[k]["server"] \in Seq(Message)
    BY TwoEnds DEF TypedWires
  <2> QED
    BY <2>1, Rest DEF Popped
<1> HIDE DEF q
<1> QED
  BY <1>1 DEF TypedWires, End

LEMMA OneControlMessage ==
  ASSUME NEW d \in ControlData
  PROVE  /\ Control(d) \in Message /\ Control(d).type = "Control" /\ Control(d).data = d
         /\ <<Control(d)>> \in Seq(Message) /\ OneControl(<<Control(d)>>, d)
         /\ NoneOf(<<Control(d)>>, "Regular") /\ NoneOf(<<Control(d)>>, "ReplayRequest")
<1>1. Control(d) \in Message /\ Control(d).type = "Control" /\ Control(d).data = d
  BY DEF Control, Message
<1> QED
  BY <1>1, OneMessage

\* The queue to the handshake of a socket that is up, and the oldest message.
LEMMA HandshakeReadsOne ==
  ASSUME ChannelInv, NEW k \in Socket, NEW state, NEW d \in ControlData, HandshakeMessage(k, state, d)
  PROVE  /\ handshake[k] = state /\ wire[k]["server"] # <<>>
         /\ ~NoControl(wire[k]["server"])
         /\ \A x : OneControl(wire[k]["server"], x) => NoControl(Tail(wire[k]["server"]))
<1> DEFINE q == wire[k]["server"]
<1>1. q \in Seq(Message) /\ q # <<>> /\ Head(q) = Control(d) /\ handshake[k] = state
  BY WiresAreTyped, TwoEnds DEF HandshakeMessage, TypedWires
<1>2. Control(d).type = "Control"
  BY DEF Control
<1> HIDE DEF q
<1>3. ~NoneOf(q, "Control") /\ \A x : OneControl(q, x) => NoneOf(Tail(q), "Control")
  BY <1>1, <1>2, RestOf
<1> QED
  BY <1>1, <1>3 DEF NoControl, q

LEMMA JoinSign ==
  ASSUME ChannelInv, JoinInv, NEW k \in Socket, ServerReceivesAuth(k)
  PROVE  JoinInv'
<1> DEFINE w == Popped(wire, k)
           ms == <<Control("sign")>>
<1>1. /\ TypedWires(wire) /\ up \subseteq Socket
      /\ handshake \in [Socket -> {"none", "waitingForAuth", "waitingForConnectionType"}]
      /\ "auth" \in ControlData /\ "sign" \in ControlData
  BY WiresAreTyped, Known DEF RestOK, ControlData
<1>2. /\ HandshakeMessage(k, "waitingForAuth", "auth")
      /\ wire' = Write(w, k, "client", ms)
      /\ handshake' = [handshake EXCEPT ![k] = "waitingForConnectionType"]
      /\ UNCHANGED <<endpoint, socketOf, up, phase, controlMessages, managed>>
  BY DEF ServerReceivesAuth, clientVars, Popped
<1>3. /\ handshake[k] = "waitingForAuth" /\ wire[k]["server"] # <<>>
      /\ ~NoControl(wire[k]["server"])
      /\ \A x : OneControl(wire[k]["server"], x) => NoControl(Tail(wire[k]["server"]))
  BY <1>1, <1>2, HandshakeReadsOne
<1>4. ms \in Seq(Message) /\ OneControl(ms, "sign")
  BY <1>1, OneControlMessage
<1>5. w = Popped(wire, k)
  OBVIOUS
<1> HIDE DEF w, ms
<1>6. /\ TypedWires(w) /\ w[k]["server"] = Tail(wire[k]["server"])
      /\ \A j \in Socket : w[j]["client"] = wire[j]["client"]
      /\ \A j \in Socket : j # k => w[j]["server"] = wire[j]["server"]
  BY <1>1, <1>3, <1>5, PoppedView
<1>7. /\ \A j \in Socket : wire'[j]["server"] = w[j]["server"]
      /\ \A j \in Socket : j # k \/ k \notin up => wire'[j]["client"] = w[j]["client"]
      /\ k \in up => Appended(w[k]["client"], ms, wire'[k]["client"])
  BY <1>1, <1>2, <1>4, <1>6, AnswerView
<1>8. CASE k \notin up
  <2>1. Undisturbed(wire, wire', up')
    BY <1>1, <1>2, <1>6, <1>7, <1>8, DownUndisturbed
  <2>2. \A j \in up' : handshake'[j] = handshake[j]
    BY <1>1, <1>2, <1>8
  <2> QED
    BY <1>1, <1>2, <2>1, <2>2, JoinKept
<1>9. CASE k \in up
  <2>1. handshake'[k] = "waitingForConnectionType"
    BY <1>1, <1>2
  <2>2. phase = "auth" /\ Exchange(k) => Exchange(k)'
    <3> SUFFICES ASSUME phase = "auth", Exchange(k)
                 PROVE  Exchange(k)'
      OBVIOUS
    <3>1. Silent(k) /\ OneControl(wire[k]["server"], "auth")
      BY <1>3, <1>9 DEF Exchange
    <3>2. wire'[k]["client"] = wire[k]["client"] \o ms /\ NoneOf(wire[k]["client"], "Control")
          /\ wire[k]["client"] \in Seq(Message)
      <4>1. w[k]["client"] = wire[k]["client"]
        BY <1>6
      <4>2. Appended(w[k]["client"], ms, wire'[k]["client"])
        BY <1>7, <1>9
      <4>3. NoneOf(wire[k]["client"], "Control") /\ wire[k]["client"] \in Seq(Message)
        BY <1>1, <3>1, TwoEnds DEF Silent, NoControl, TypedWires
      <4> QED
        BY <4>1, <4>2, <4>3 DEF Appended
    <3>3. Answered(k, "sign")'
      BY <1>4, <3>2, BehindOf DEF Answered
    <3>4. NoControl(wire[k]["server"])'
      BY <1>3, <1>6, <1>7, <3>1
    <3> QED
      BY <1>2, <2>1, <3>3, <3>4 DEF Exchange
  <2>3. phase = "connectionType" /\ Exchange(k) => Exchange(k)'
    BY <1>3, <1>9 DEF Exchange
  <2> QED
    BY <1>2, <1>3, <1>6, <1>7, <1>9, <2>1, <2>2, <2>3, JoinServer
<1> QED
  BY <1>8, <1>9

LEMMA JoinReject ==
  ASSUME ChannelInv, JoinInv, NEW k \in Socket, ServerRejectsReconnection(k)
  PROVE  JoinInv'
<1> DEFINE ms == <<Control("error")>>
           w == Write(wire, k, "client", ms)
<1>1. /\ TypedWires(wire) /\ up \subseteq Socket
      /\ handshake \in [Socket -> {"none", "waitingForAuth", "waitingForConnectionType"}]
      /\ "connectionType" \in ControlData /\ "error" \in ControlData
  BY WiresAreTyped, Known DEF RestOK, ControlData
<1>2. /\ HandshakeMessage(k, "waitingForConnectionType", "connectionType") /\ ~managed
      /\ wire' = Unread(w, k, "server") /\ up' = up \ {k}
      /\ handshake' = [handshake EXCEPT ![k] = "none"]
      /\ UNCHANGED <<endpoint, socketOf, phase, controlMessages, managed>>
  BY DEF ServerRejectsReconnection, clientVars
<1>3. handshake[k] = "waitingForConnectionType" /\ ~NoControl(wire[k]["server"])
  BY <1>1, <1>2, HandshakeReadsOne
<1>4. ms \in Seq(Message) /\ OneControl(ms, "error")
  BY <1>1, OneControlMessage
<1>5. w = Write(wire, k, "client", ms)
  OBVIOUS
<1> HIDE DEF w, ms
<1>6. /\ TypedWires(w) /\ \A j \in Socket : w[j]["server"] = wire[j]["server"]
      /\ \A j \in Socket : j # k \/ k \notin up => w[j]["client"] = wire[j]["client"]
      /\ k \in up => Appended(wire[k]["client"], ms, w[k]["client"])
  BY <1>1, <1>4, <1>5, AnswerView
<1>7. /\ \A j \in Socket : wire'[j]["client"] = w[j]["client"]
      /\ \A j \in Socket : j # k => wire'[j]["server"] = w[j]["server"]
  <2>1. \A j \in Socket : \A f \in End : wire'[j][f] = IF j = k /\ f = "server" THEN <<>> ELSE w[j][f]
    BY <1>2, <1>6, UnreadView, TwoEnds
  <2> QED
    BY <2>1, TwoEnds
<1>8. \A j \in up' : handshake'[j] = handshake[j]
  BY <1>1, <1>2
<1>9. CASE k \notin up
  <2>1. Undisturbed(wire, wire', up')
    BY <1>2, <1>6, <1>7, <1>9, DownUndisturbed
  <2> QED
    BY <1>1, <1>2, <1>8, <2>1, JoinKept
<1>10. CASE k \in up
  <2>1. phase = "connectionType" /\ Exchange(k) => Exchange(k)'
    <3> SUFFICES ASSUME phase = "connectionType", Exchange(k)
                 PROVE  Exchange(k)'
      OBVIOUS
    <3>1. Silent(k)
      BY <1>3, <1>10 DEF Exchange
    <3>2. wire'[k]["client"] = wire[k]["client"] \o ms /\ NoneOf(wire[k]["client"], "Control")
          /\ wire[k]["client"] \in Seq(Message)
      BY <1>1, <1>6, <1>7, <1>10, <3>1, TwoEnds DEF Silent, NoControl, TypedWires, Appended
    <3>3. Answered(k, "error")'
      BY <1>4, <3>2, BehindOf DEF Answered
    <3> QED
      BY <1>2, <3>3 DEF Exchange
  <2>2. phase = "auth" /\ Exchange(k) => Exchange(k)'
    BY <1>3, <1>10 DEF Exchange
  <2> QED
    BY <1>2, <1>3, <1>6, <1>7, <1>10, <2>1, <2>2, JoinServer
<1> QED
  BY <1>9, <1>10

LEMMA JoinAccept ==
  ASSUME ChannelInv, JoinInv, NEW k \in Socket, ServerAcceptsReconnection(k)
  PROVE  JoinInv'
<1> DEFINE old == socketOf["server"]
           p == BeginAcceptReconnection(endpoint["server"])
           r == EndAcceptReconnection(p)
           v == Unread(wire, old, "server")
           w == Popped(v, k)
           ms == <<Control("ok")>> \o r.writes
<1>1. /\ TypedWires(wire) /\ up \subseteq Socket /\ socketOf \in [End -> Socket \cup {NoSocket}]
      /\ handshake \in [Socket -> {"none", "waitingForAuth", "waitingForConnectionType"}]
      /\ endpoint \in [End -> Endpoint]
      /\ "connectionType" \in ControlData /\ "ok" \in ControlData
  BY WiresAreTyped, EndsAreTyped, Known DEF RestOK, ControlData
<1>2. /\ HandshakeMessage(k, "waitingForConnectionType", "connectionType")
      /\ endpoint' = [endpoint EXCEPT !["server"] = r.endpoint]
      /\ socketOf' = [socketOf EXCEPT !["server"] = k] /\ up' = up \ {old}
      /\ wire' = Write(w, k, "client", ms)
      /\ handshake' = [handshake EXCEPT ![k] = "none"]
      /\ UNCHANGED <<phase, controlMessages, managed>>
  BY DEF ServerAcceptsReconnection, clientVars, Popped
<1>3. /\ handshake[k] = "waitingForConnectionType" /\ wire[k]["server"] # <<>>
      /\ ~NoControl(wire[k]["server"])
  BY <1>1, <1>2, HandshakeReadsOne
<1>4. old # k
  BY <1>3, Known DEF RestOK
<1>5. ms \in Seq(Message) /\ OneControl(ms, "ok")
  <2>1. EndInv(p, sent["server"], received["server"])
    BY TwoEnds, EndFacts, AcknowledgeInv
  <2> HIDE DEF p
  <2>2. r.writes \in Seq(Message) /\ NoneOf(r.writes, "Control")
    BY <2>1, FinishFits
  <2> HIDE DEF r
  <2>3. <<Control("ok")>> \in Seq(Message) /\ OneControl(<<Control("ok")>>, "ok")
    BY <1>1, OneControlMessage
  <2>4. ms \in Seq(Message)
    BY <2>2, <2>3, Behind
  <2>5. KeepsControls(<<Control("ok")>>, ms)
    BY <2>2, <2>3, BehindOf
  <2> QED
    BY <2>3, <2>4, <2>5 DEF KeepsControls
<1>6. socketOf'["client"] = socketOf["client"] /\ socketOf'["server"] = k /\ handshake'[k] = "none"
      /\ endpoint'["client"] = endpoint["client"]
  BY <1>1, <1>2, TwoEnds
<1> HIDE DEF ms
<1>7. TypedWires(v) /\ \A j \in Socket : \A f \in End : v[j][f] = IF j = old /\ f = "server" THEN <<>> ELSE wire[j][f]
  BY <1>1, UnreadView, TwoEnds
<1>8. w = Popped(v, k)
  OBVIOUS
<1> HIDE DEF v, w, r, p
<1>9. /\ \A j \in Socket : v[j]["client"] = wire[j]["client"]
      /\ \A j \in Socket : j # old => v[j]["server"] = wire[j]["server"]
  BY <1>7, TwoEnds
<1>10. v[k]["server"] # <<>>
  BY <1>3, <1>4, <1>9
<1>11. /\ TypedWires(w)
       /\ \A j \in Socket : w[j]["client"] = wire[j]["client"]
       /\ \A j \in Socket : j # k /\ j # old => w[j]["server"] = wire[j]["server"]
  <2>1. /\ TypedWires(w)
        /\ \A j \in Socket : w[j]["client"] = v[j]["client"]
        /\ \A j \in Socket : j # k => w[j]["server"] = v[j]["server"]
    BY <1>7, <1>8, <1>10, PoppedView
  <2> QED
    BY <1>9, <2>1
<1>12. /\ \A j \in Socket : wire'[j]["server"] = w[j]["server"]
       /\ \A j \in Socket : j # k \/ k \notin up => wire'[j]["client"] = w[j]["client"]
       /\ k \in up => Appended(w[k]["client"], ms, wire'[k]["client"])
  BY <1>1, <1>2, <1>5, <1>11, AnswerView
<1>13. CASE k \notin up
  <2>1. Undisturbed(wire, wire', up')
    BY <1>1, <1>2, <1>11, <1>12, <1>13, DownUndisturbed
  <2>2. \A j \in up' : handshake'[j] = handshake[j] /\ socketOf["server"] # j
    BY <1>1, <1>2, <1>13
  <2> QED
    BY <1>1, <1>2, <1>6, <2>1, <2>2, JoinKept
<1>14. CASE k \in up
  <2>1. phase = "connectionType" /\ Exchange(k) => Exchange(k)'
    <3> SUFFICES ASSUME phase = "connectionType", Exchange(k)
                 PROVE  Exchange(k)'
      OBVIOUS
    <3>1. Silent(k)
      BY <1>3, <1>14 DEF Exchange
    <3>2. wire'[k]["client"] = wire[k]["client"] \o ms /\ NoneOf(wire[k]["client"], "Control")
          /\ wire[k]["client"] \in Seq(Message)
      <4>1. w[k]["client"] = wire[k]["client"]
        BY <1>11
      <4>2. Appended(w[k]["client"], ms, wire'[k]["client"])
        BY <1>12, <1>14
      <4>3. NoneOf(wire[k]["client"], "Control") /\ wire[k]["client"] \in Seq(Message)
        BY <1>1, <3>1, TwoEnds DEF Silent, NoControl, TypedWires
      <4> QED
        BY <4>1, <4>2, <4>3 DEF Appended
    <3>3. Answered(k, "ok")'
      BY <1>5, <3>2, BehindOf DEF Answered
    <3> QED
      BY <1>2, <1>6, <3>3 DEF Exchange
  <2>2. phase = "auth" /\ Exchange(k) => Exchange(k)'
    BY <1>3, <1>14 DEF Exchange
  <2> QED
    BY <1>2, <1>3, <1>6, <1>11, <1>12, <1>14, <2>1, <2>2, JoinServer
<1> QED
  BY <1>13, <1>14

LEMMA JoinInit == Init => JoinInv
<1> SUFFICES ASSUME Init
             PROVE  JoinInv
  OBVIOUS
<1> DEFINE first == CHOOSE k \in Socket : TRUE
<1>1. /\ endpoint = [e \in End |-> NewEndpoint] /\ socketOf = [e \in End |-> first]
      /\ wire = [k \in Socket |-> [e \in End |-> <<>>]] /\ up = {first}
      /\ phase = "connected" /\ controlMessages = <<>>
  BY DEF Init
<1> HIDE DEF first
<1>2. ~endpoint["client"].isReconnecting /\ socketOf["client"] = first /\ socketOf["server"] = first
  BY <1>1, TwoEnds DEF NewEndpoint
<1>3. ASSUME NEW k \in Socket
      PROVE  JoinAt(k)
  <2>1. wire[k]["client"] = <<>>
    BY <1>1, TwoEnds
  <2>2. Exchange(k)
    BY <1>1, <2>1 DEF Exchange, Silent, NoControl, NoneOf
  <2> QED
    BY <1>1, <1>2, <2>1, <2>2 DEF JoinAt
<1> QED
  BY <1>1, <1>2, <1>3 DEF JoinInv, FailureIsFinal

LEMMA JoinNext ==
  ASSUME ChannelInv, JoinInv, [Next]_vars
  PROVE  JoinInv'
<1>1. CASE ClientReads
  <2>1. CASE ReceiveMessage("client")
    BY <2>1, JoinTraffic, TwoEnds
  <2> QED
    BY <1>1, <2>1, JoinWaits, JoinAnswers, JoinEnds DEF ClientReads
<1>2. CASE ServerReads
  BY <1>2, JoinTraffic, JoinSockets, TwoEnds DEF ServerReads
<1>3. ASSUME NEW e \in End, SendMessage(e) \/ SendAckTimeout(e)
      PROVE  JoinInv'
  BY <1>3, JoinTraffic
<1>4. ASSUME NEW k \in Socket, LinkFails(k) \/ Connect(k) \/ HandshakeReads(k)
      PROVE  JoinInv'
  BY <1>4, JoinSockets, JoinConnect, JoinSign, JoinAccept, JoinReject DEF HandshakeReads
<1>5. CASE ClientSocketCloses \/ ClientSocketTimesOut \/ AttemptTimesOut \/ ClientGivesUp \/ WindowCloses
  BY <1>5, JoinWaits, JoinEnds
<1>6. CASE ServerSocketCloses \/ OtherClientConnects \/ GraceTimeExpires \/ UNCHANGED vars
  BY <1>6, JoinSockets
<1> QED
  BY <1>1, <1>2, <1>3, <1>4, <1>5, <1>6 DEF Next

LEMMA JoinInvariant == Spec => []JoinInv
<1>1. ChannelInv /\ JoinInv /\ [Next]_vars => JoinInv'
  BY JoinNext
<1> QED
  BY <1>1, JoinInit, ChannelInvariant, PTL DEF Spec

\* Two ends that believe to be connected are connected to each other: the
\* answer that ends an attempt was given on its own socket, where at most
\* one answer is under way, and by a server that has taken it over.
THEOREM ClientAndServerMeet == Spec => []ConnectedToEachOther
<1>1. ASSUME ChannelInv, JoinInv
      PROVE  ConnectedToEachOther
  <2>1. up \subseteq Socket
    BY <1>1, WiresAreTyped
  <2> QED
    BY <1>1, <2>1 DEF JoinInv, JoinAt, ConnectedToEachOther
<1> QED
  BY <1>1, JoinInvariant, ChannelInvariant, PTL

\* The client gives up for good only after an answer of a server that has
\* disposed the connection, and a disposed connection does not come back.
THEOREM RefusalIsFinal == Spec => []FailureIsFinal
<1>1. JoinInv => FailureIsFinal
  BY DEF JoinInv
<1> QED
  BY <1>1, JoinInvariant, PTL

----------------------------------------------------------------------------
(* The order of what is under way                                          *)

NoRegular(q) == NoneOf(q, "Regular")
NoReplay(q) == NoneOf(q, "ReplayRequest")

Handshaking(k, e) == e = "server" /\ handshake[k] # "none"

\* What the peer sends arrives: the socket is up and the protocol of each
\* end is its own.
Facing(k, e) ==
  /\ k \in up /\ socketOf[e] = k /\ socketOf[Peer[e]] = k
  /\ ~endpoint[Peer[e]].isReconnecting

\* The regular messages under way follow on those received; between ends
\* that face each other none is missing.  A temporary protocol is not sent
\* any, and no end has reason to ask for one again.
GapAt(k, e) ==
  /\ NoReplay(wire[k][e])
  /\ Handshaking(k, e) => NoRegular(wire[k][e])
  /\ socketOf[e] = k => Gapless(wire[k][e], endpoint[e].incomingMsgId)
  /\ Facing(k, e) => Complete(wire[k][e], endpoint[e].incomingMsgId, endpoint[Peer[e]].outgoingMsgId)

GapInv ==
  /\ ~endpoint["server"].isReconnecting
  /\ \A k \in Socket : \A e \in End : GapAt(k, e)

\* From q to r nothing regular is added, and from the middle nothing taken.
Calmer(q, r) ==
  /\ NoReplay(q) => NoReplay(r)
  /\ NoRegular(q) => NoRegular(r)
  /\ \A n \in Nat : Gapless(q, n) => Gapless(r, n)
AsFull(q, r) ==
  \A n \in Nat : \A top \in Nat : Gapless(q, n) /\ Complete(q, n, top) => Complete(r, n, top)

\* The same of all queues, where u are the sockets up and so the ends' afterwards.
Calm(w, w2, u, so) ==
  \A j \in Socket : \A f \in End :
    /\ Calmer(w[j][f], w2[j][f])
    /\ j \in u /\ so[f] = j => AsFull(w[j][f], w2[j][f])

LEMMA CalmStays ==
  /\ \A q : Calmer(q, q) /\ AsFull(q, q)
  /\ \A q, r, t : Calmer(q, r) /\ Calmer(r, t) => Calmer(q, t)
  /\ \A q, r, t : Calmer(q, r) /\ AsFull(q, r) /\ AsFull(r, t) => AsFull(q, t)
<1>1. \A q : Calmer(q, q) /\ AsFull(q, q)
  BY DEF Calmer, AsFull
<1>2. \A q, r, t : Calmer(q, r) /\ Calmer(r, t) => Calmer(q, t)
  BY DEF Calmer
<1>3. \A q, r, t : Calmer(q, r) /\ AsFull(q, r) /\ AsFull(r, t) => AsFull(q, t)
  BY DEF Calmer, AsFull
<1> QED
  BY <1>1, <1>2, <1>3

LEMMA StillCalm ==
  ASSUME NEW u, NEW so, NEW w
  PROVE  /\ Calm(w, w, u, so)
         /\ \A w2, w3 : Calm(w, w2, u, so) /\ Calm(w2, w3, u, so) => Calm(w, w3, u, so)
<1>1. Calm(w, w, u, so)
  BY CalmStays DEF Calm
<1>2. ASSUME NEW w2, NEW w3, Calm(w, w2, u, so), Calm(w2, w3, u, so)
      PROVE  Calm(w, w3, u, so)
  <2>1. ASSUME NEW j \in Socket, NEW f \in End
        PROVE  /\ Calmer(w[j][f], w3[j][f])
               /\ j \in u /\ so[f] = j => AsFull(w[j][f], w3[j][f])
    <3>1. /\ Calmer(w[j][f], w2[j][f]) /\ Calmer(w2[j][f], w3[j][f])
          /\ j \in u /\ so[f] = j => AsFull(w[j][f], w2[j][f]) /\ AsFull(w2[j][f], w3[j][f])
      BY <1>2 DEF Calm
    <3> QED
      BY <3>1, CalmStays
  <2> QED
    BY <2>1 DEF Calm
<1> QED
  BY <1>1, <1>2

LEMMA CalmQueue ==
  ASSUME NEW q \in Seq(Message)
  PROVE  /\ \A ms \in Seq(Message) : NoRegular(ms) /\ NoReplay(ms) => Calmer(q, q \o ms) /\ AsFull(q, q \o ms)
         /\ q # <<>> /\ Head(q).type # "Regular" => Calmer(q, Tail(q)) /\ AsFull(q, Tail(q))
         /\ Calmer(q, <<>>)
<1>1. ASSUME NEW ms \in Seq(Message), NoneOf(ms, "Regular"), NoneOf(ms, "ReplayRequest")
      PROVE  Calmer(q, q \o ms) /\ AsFull(q, q \o ms)
  <2> DEFINE r == q \o ms
  <2>1. \A type : NoneOf(q, type) /\ NoneOf(ms, type) => NoneOf(r, type)
    BY BehindOf
  <2>2. \A n \in Nat : Gapless(q, n) => Gapless(r, n)
    BY <1>1, GapQuiet
  <2>3. \A n \in Nat : \A top \in Nat : Gapless(q, n) /\ Complete(q, n, top) => Complete(r, n, top)
    BY <1>1, GapQuiet
  <2> HIDE DEF r
  <2>4. Calmer(q, r) /\ AsFull(q, r)
    BY <1>1, <2>1, <2>2, <2>3 DEF Calmer, AsFull, NoRegular, NoReplay
  <2> QED
    BY <2>4 DEF r
<1>2. ASSUME q # <<>>, Head(q).type # "Regular"
      PROVE  Calmer(q, Tail(q)) /\ AsFull(q, Tail(q))
  <2> DEFINE r == Tail(q)
  <2>1. \A type : NoneOf(q, type) => NoneOf(r, type)
    BY <1>2, RestOf
  <2>2. \A n \in Nat : Gapless(q, n) => Gapless(r, n)
    BY <1>2, GapRead
  <2>3. \A n \in Nat : \A top \in Nat : Gapless(q, n) /\ Complete(q, n, top) => Complete(r, n, top)
    BY <1>2, GapRead
  <2> HIDE DEF r
  <2>4. Calmer(q, r) /\ AsFull(q, r)
    BY <2>1, <2>2, <2>3 DEF Calmer, AsFull, NoRegular, NoReplay
  <2> QED
    BY <2>4 DEF r
<1>3. Calmer(q, <<>>)
  BY DEF Calmer, NoRegular, NoReplay, NoneOf, Gapless
<1>4. \A ms \in Seq(Message) : NoRegular(ms) /\ NoReplay(ms) => Calmer(q, q \o ms) /\ AsFull(q, q \o ms)
  <2> SUFFICES ASSUME NEW ms \in Seq(Message), NoRegular(ms), NoReplay(ms)
               PROVE  Calmer(q, q \o ms) /\ AsFull(q, q \o ms)
    OBVIOUS
  <2>1. NoneOf(ms, "Regular") /\ NoneOf(ms, "ReplayRequest")
    BY DEF NoRegular, NoReplay
  <2> QED
    BY <1>1, <2>1, Zenon
<1> QED
  BY <1>2, <1>3, <1>4

LEMMA CalmWrite ==
  ASSUME NEW u, NEW so, NEW w, TypedWires(w), up \subseteq Socket,
         NEW k, NEW e \in End, NEW ms \in Seq(Message), NoRegular(ms), NoReplay(ms)
  PROVE  Calm(w, Write(w, k, e, ms), u, so) /\ TypedWires(Write(w, k, e, ms))
<1> DEFINE w2 == Write(w, k, e, ms)
<1>0. w2 = Write(w, k, e, ms)
  OBVIOUS
<1> HIDE DEF w2
<1>1. \A j \in Socket : \A f \in End :
        w2[j][f] = IF j = k /\ k \in up /\ f = e THEN w[j][f] \o ms ELSE w[j][f]
  BY <1>0, WriteView
<1>4. TypedWires(w2)
  BY <1>0, WriteView
<1>2. ASSUME NEW j \in Socket, NEW f \in End
      PROVE  Calmer(w[j][f], w2[j][f]) /\ AsFull(w[j][f], w2[j][f])
  <2>1. w[j][f] \in Seq(Message)
    BY DEF TypedWires
  <2>2. Calmer(w[j][f], w[j][f] \o ms) /\ AsFull(w[j][f], w[j][f] \o ms)
    BY <2>1, CalmQueue
  <2>3. w2[j][f] = w[j][f] \o ms \/ w2[j][f] = w[j][f]
    BY <1>1
  <2> QED
    BY <2>2, <2>3, CalmStays
<1>3. Calm(w, w2, u, so)
  BY <1>2 DEF Calm
<1> QED
  BY <1>3, <1>4 DEF w2

LEMMA CalmRead ==
  ASSUME NEW u, NEW so, NEW w, TypedWires(w), NEW k \in Socket, NEW e \in End,
         w[k][e] # <<>>, Head(w[k][e]).type # "Regular"
  PROVE  Calm(w, [w EXCEPT ![k][e] = Tail(@)], u, so) /\ TypedWires([w EXCEPT ![k][e] = Tail(@)])
<1> DEFINE w2 == [w EXCEPT ![k][e] = Tail(@)]
<1>0. w2 = [w EXCEPT ![k][e] = Tail(@)]
  OBVIOUS
<1> HIDE DEF w2
<1>1. \A j \in Socket : \A f \in End : w2[j][f] = IF j = k /\ f = e THEN Tail(w[j][f]) ELSE w[j][f]
  BY <1>0, TailView
<1>5. TypedWires(w2)
  BY <1>0, TailView
<1>2. Calmer(w[k][e], Tail(w[k][e])) /\ AsFull(w[k][e], Tail(w[k][e]))
  <2>1. w[k][e] \in Seq(Message)
    BY DEF TypedWires
  <2> QED
    BY <2>1, CalmQueue
<1>3. ASSUME NEW j \in Socket, NEW f \in End
      PROVE  Calmer(w[j][f], w2[j][f]) /\ AsFull(w[j][f], w2[j][f])
  BY <1>1, <1>2, CalmStays
<1>4. Calm(w, w2, u, so)
  BY <1>3 DEF Calm
<1> QED
  BY <1>4, <1>5 DEF w2

LEMMA CalmUnread ==
  ASSUME NEW u, NEW so, NEW w, TypedWires(w), NEW k, NEW e \in End, ~(k \in u /\ so[e] = k)
  PROVE  Calm(w, Unread(w, k, e), u, so) /\ TypedWires(Unread(w, k, e))
<1> DEFINE w2 == Unread(w, k, e)
<1>1. /\ TypedWires(w2)
      /\ \A j \in Socket : \A f \in End : w2[j][f] = IF j = k /\ f = e THEN <<>> ELSE w[j][f]
  BY UnreadView
<1> HIDE DEF w2
<1>2. ASSUME NEW j \in Socket, NEW f \in End
      PROVE  /\ Calmer(w[j][f], w2[j][f])
             /\ j \in u /\ so[f] = j => AsFull(w[j][f], w2[j][f])
  <2>1. w[j][f] \in Seq(Message)
    BY DEF TypedWires
  <2> QED
    BY <1>1, <2>1, CalmQueue, CalmStays
<1>3. Calm(w, w2, u, so)
  BY <1>2 DEF Calm
<1> QED
  BY <1>1, <1>3 DEF w2

\* One queue, and then all of them.
LEMMA GapStays ==
  ASSUME NEW k, NEW e, GapAt(k, e), Calmer(wire[k][e], wire'[k][e]),
         endpoint[e].incomingMsgId \in Nat, endpoint[Peer[e]].outgoingMsgId \in Nat,
         Handshaking(k, e)' => Handshaking(k, e),
         socketOf'[e] = k => socketOf[e] = k /\ endpoint'[e].incomingMsgId = endpoint[e].incomingMsgId,
         Facing(k, e)' => /\ Facing(k, e) /\ AsFull(wire[k][e], wire'[k][e])
                          /\ endpoint'[Peer[e]].outgoingMsgId = endpoint[Peer[e]].outgoingMsgId
  PROVE  GapAt(k, e)'
<1>1. Facing(k, e)' => socketOf'[e] = k
  BY DEF Facing
<1>2. Facing(k, e)' => Complete(wire'[k][e], endpoint'[e].incomingMsgId, endpoint'[Peer[e]].outgoingMsgId)
  BY <1>1 DEF GapAt, AsFull
<1> QED
  BY <1>2 DEF GapAt, Calmer

LEMMA Numbers ==
  ASSUME ChannelInv
  PROVE  \A e \in End : /\ endpoint[e].incomingMsgId \in Nat /\ endpoint[Peer[e]].outgoingMsgId \in Nat
                        /\ endpoint[e].outgoingMsgId \in Nat
BY EndsAreTyped, Peers DEF Endpoint

SameNumbers(p, p2) ==
  /\ p2.incomingMsgId = p.incomingMsgId /\ p2.outgoingMsgId = p.outgoingMsgId
  /\ p2.isReconnecting = p.isReconnecting

LEMMA GapKept ==
  ASSUME ChannelInv, GapInv, Calm(wire, wire', up', socketOf'), up' \subseteq up,
         \A e \in End : SameNumbers(endpoint[e], endpoint'[e]),
         \A k \in Socket : handshake'[k] # "none" => handshake[k] # "none",
         \A k \in Socket : \A e \in End : socketOf'[e] = k => socketOf[e] = k
  PROVE  GapInv'
<1>1. ASSUME NEW k \in Socket, NEW e \in End
      PROVE  GapAt(k, e)'
  <2>1. /\ GapAt(k, e) /\ Calmer(wire[k][e], wire'[k][e])
        /\ k \in up' /\ socketOf'[e] = k => AsFull(wire[k][e], wire'[k][e])
    BY DEF GapInv, Calm
  <2>2. Handshaking(k, e)' => Handshaking(k, e)
    BY DEF Handshaking
  <2>3. Peer[e] \in End /\ SameNumbers(endpoint[e], endpoint'[e]) /\ SameNumbers(endpoint[Peer[e]], endpoint'[Peer[e]])
    BY Peers
  <2>4. Facing(k, e)' => Facing(k, e) /\ k \in up' /\ socketOf'[e] = k
    BY <2>3 DEF Facing, SameNumbers, Peer
  <2>5. /\ endpoint'[e].incomingMsgId = endpoint[e].incomingMsgId
        /\ endpoint'[Peer[e]].outgoingMsgId = endpoint[Peer[e]].outgoingMsgId
    BY <2>3 DEF SameNumbers
  <2> QED
    BY <2>1, <2>2, <2>4, <2>5, GapStays, Numbers
<1> QED
  BY <1>1, TwoEnds DEF GapInv, SameNumbers

LEMMA QuietMessages ==
  /\ Disconnect \in Message /\ <<Disconnect>> \in Seq(Message)
  /\ NoRegular(<<Disconnect>>) /\ NoReplay(<<Disconnect>>)
  /\ <<>> \in Seq(Message) /\ NoRegular(<<>>) /\ NoReplay(<<>>)
  /\ \A d \in ControlData : <<Control(d)>> \in Seq(Message) /\ NoRegular(<<Control(d)>>) /\ NoReplay(<<Control(d)>>)
<1>1. Disconnect \in Message /\ Disconnect.type = "Disconnect"
  BY DEF Disconnect, Message
<1>2. <<Disconnect>> \in Seq(Message) /\ NoneOf(<<Disconnect>>, "Regular") /\ NoneOf(<<Disconnect>>, "ReplayRequest")
      /\ <<>> \in Seq(Message) /\ NoneOf(<<>>, "Regular") /\ NoneOf(<<>>, "ReplayRequest")
  BY <1>1, OneMessage
<1>3. \A d \in ControlData : <<Control(d)>> \in Seq(Message) /\ NoneOf(<<Control(d)>>, "Regular")
                             /\ NoneOf(<<Control(d)>>, "ReplayRequest")
  BY OneControlMessage
<1> QED
  BY <1>1, <1>2, <1>3 DEF NoRegular, NoReplay

LEMMA GapSockets ==
  ASSUME ChannelInv, GapInv,
         \/ \E k \in Socket : LinkFails(k) \/ HandshakeSocketCloses(k)
         \/ ClientSocketCloses \/ ServerSocketCloses \/ ClientSocketTimesOut \/ AttemptTimesOut
         \/ OtherClientConnects \/ UNCHANGED vars
  PROVE  GapInv'
<1>1. /\ TypedWires(wire) /\ up \subseteq Socket /\ socketOf \in [End -> Socket \cup {NoSocket}]
      /\ handshake \in [Socket -> {"none", "waitingForAuth", "waitingForConnectionType"}]
  BY WiresAreTyped, Known DEF RestOK
<1>2. UNCHANGED endpoint
  BY DEF LinkFails, HandshakeSocketCloses, ClientSocketCloses, ServerSocketCloses, ClientSocketTimesOut,
         AttemptTimesOut, OtherClientConnects, vars
<1>3. \A e \in End : SameNumbers(endpoint[e], endpoint'[e])
  BY <1>2 DEF SameNumbers
<1>4. CASE UNCHANGED <<socketOf, wire, handshake>> /\ up' \subseteq up
  BY <1>3, <1>4, StillCalm, GapKept
<1>5. ASSUME NEW k \in Socket, HandshakeSocketCloses(k)
      PROVE  GapInv'
  <2>1. /\ UNCHANGED <<socketOf, up>> /\ handshake' = [handshake EXCEPT ![k] = "none"] /\ k \notin up
        /\ wire' = Unread(wire, k, "server")
    BY <1>5 DEF HandshakeSocketCloses
  <2>2. Calm(wire, wire', up', socketOf')
    BY <1>1, <2>1, CalmUnread, TwoEnds
  <2>3. \A j \in Socket : handshake'[j] # "none" => handshake[j] # "none"
    BY <1>1, <2>1
  <2> QED
    BY <1>3, <2>1, <2>2, <2>3, GapKept
<1>6. ASSUME NEW e \in End, UNCHANGED <<up, handshake>>, socketOf' = [socketOf EXCEPT ![e] = NoSocket],
             wire' = Unread(wire, socketOf[e], e), socketOf[e] \in Socket
      PROVE  GapInv'
  <2>1. \A f \in End : socketOf'[f] = IF f = e THEN NoSocket ELSE socketOf[f]
    BY <1>1, <1>6
  <2>0. ~(socketOf[e] \in up' /\ socketOf'[e] = socketOf[e])
    BY <1>6, <2>1, NoSocketAssumption
  <2>2. Calm(wire, wire', up', socketOf')
    BY <1>1, <1>6, <2>0, CalmUnread
  <2>3. \A j \in Socket : \A f \in End : socketOf'[f] = j => socketOf[f] = j
    BY <2>1, NoSocketAssumption
  <2> QED
    BY <1>3, <1>6, <2>2, <2>3, GapKept
<1>7. CASE ClientSocketCloses
  BY <1>6, <1>7, TwoEnds DEF ClientSocketCloses, serverVars
<1>8. CASE ServerSocketCloses
  BY <1>6, <1>8, TwoEnds DEF ServerSocketCloses
<1>9. ASSUME NEW k \in Socket, LinkFails(k)
      PROVE  GapInv'
  BY <1>4, <1>9 DEF LinkFails, serverVars
<1>10. CASE ClientSocketTimesOut \/ AttemptTimesOut \/ OtherClientConnects \/ UNCHANGED vars
  BY <1>4, <1>10 DEF ClientSocketTimesOut, AttemptTimesOut, OtherClientConnects, serverVars, vars
<1> QED
  BY <1>5, <1>7, <1>8, <1>9, <1>10

\* An end that goes for good.
LEMMA GapLeaves ==
  ASSUME ChannelInv, GapInv, NEW e \in End, NEW ms \in Seq(Message), NoRegular(ms), NoReplay(ms),
         UNCHANGED <<endpoint, handshake>>, socketOf' = [socketOf EXCEPT ![e] = NoSocket],
         up' = up \ {socketOf[e]},
         wire' = Unread(Write(wire, socketOf[e], Peer[e], ms), socketOf[e], e)
  PROVE  GapInv'
<1> DEFINE k == socketOf[e]
           w == Write(wire, k, Peer[e], ms)
<1>1. TypedWires(wire) /\ up \subseteq Socket /\ socketOf \in [End -> Socket \cup {NoSocket}] /\ Peer[e] \in End
  BY WiresAreTyped, Peers, Known DEF RestOK
<1>2. Calm(wire, w, up', socketOf') /\ TypedWires(w)
  BY <1>1, CalmWrite
<1>3. wire' = Unread(w, k, e) /\ up' = up \ {k}
  OBVIOUS
<1> HIDE DEF w
<1>4. Calm(w, wire', up', socketOf')
  BY <1>2, <1>3, CalmUnread
<1>5. Calm(wire, wire', up', socketOf')
  BY <1>2, <1>4, StillCalm
<1>6. \A j \in Socket : \A f \in End : socketOf'[f] = j => socketOf[f] = j
  BY <1>1, NoSocketAssumption
<1>7. \A f \in End : SameNumbers(endpoint[f], endpoint'[f])
  BY DEF SameNumbers
<1> QED
  BY <1>3, <1>5, <1>6, <1>7, GapKept

LEMMA GapEnds ==
  ASSUME ChannelInv, GapInv,
         \/ HandshakeRefused \/ ClientGivesUp \/ WindowCloses
         \/ GraceTimeExpires \/ ServerReceivesDisconnect
  PROVE  GapInv'
<1>1. TypedWires(wire) /\ up \subseteq Socket
  BY WiresAreTyped
<1>2. ASSUME NEW ms \in {<<>>, <<Disconnect>>}, NEW how,
             ClientLeaves(Write(wire, socketOf["client"], "server", ms), how)
      PROVE  GapInv'
  <2>1. ms \in Seq(Message) /\ NoRegular(ms) /\ NoReplay(ms)
    BY QuietMessages
  <2>2. /\ UNCHANGED <<endpoint, handshake>> /\ socketOf' = [socketOf EXCEPT !["client"] = NoSocket]
        /\ up' = up \ {socketOf["client"]}
        /\ wire' = Unread(Write(wire, socketOf["client"], Peer["client"], ms), socketOf["client"], "client")
    BY <1>2, TwoEnds DEF ClientLeaves, serverVars
  <2> QED
    BY <2>1, <2>2, GapLeaves, TwoEnds
<1>3. Write(wire, socketOf["client"], "server", <<>>) = wire
  <2>1. ASSUME NEW k \in up
        PROVE  [wire EXCEPT ![k]["server"] = wire[k]["server"] \o <<>>] = wire
    <3> DEFINE q == wire[k]["server"] \o <<>>
    <3>1. wire[k]["server"] \in Seq(Message)
      BY <1>1, TwoEnds DEF TypedWires
    <3>2. q = wire[k]["server"] /\ k \in Socket
      BY <1>1, <3>1
    <3> HIDE DEF q
    <3>3. [wire EXCEPT ![k]["server"] = q] = wire
      BY <1>1, <3>2 DEF TypedWires, End
    <3> QED
      BY <3>3 DEF q
  <2> QED
    BY <2>1 DEF Write
<1>4. CASE HandshakeRefused \/ ClientGivesUp
  <2>1. PICK how : ClientLeaves(wire, how)
    BY <1>4 DEF HandshakeRefused, ClientGivesUp
  <2> QED
    BY <1>2, <1>3, <2>1
<1>5. CASE WindowCloses
  BY <1>2, <1>5 DEF WindowCloses
<1>6. CASE CleanResources(wire)
  <2>1. /\ UNCHANGED <<endpoint, handshake>> /\ socketOf' = [socketOf EXCEPT !["server"] = NoSocket]
        /\ up' = up \ {socketOf["server"]}
        /\ wire' = Unread(Write(wire, socketOf["server"], Peer["server"], <<Disconnect>>), socketOf["server"], "server")
    BY <1>6, TwoEnds DEF CleanResources
  <2> QED
    BY <2>1, GapLeaves, QuietMessages, TwoEnds
<1> QED
  BY <1>4, <1>5, <1>6 DEF GraceTimeExpires, ServerReceivesDisconnect

\* The views of WriteView and TailView, for the ends by name.
LEMMA WrittenView ==
  ASSUME NEW w, TypedWires(w), up \subseteq Socket, NEW k, NEW e \in End, NEW ms \in Seq(Message),
         NEW w2, w2 = Write(w, k, e, ms)
  PROVE  /\ TypedWires(w2)
         /\ \A j \in Socket : \A f \in End : ~(j = k /\ f = e /\ k \in up) => w2[j][f] = w[j][f]
         /\ k \in up => Appended(w[k][e], ms, w2[k][e])
         /\ ms = <<>> => w2 = w
<1>1. TypedWires(w2)
  BY WriteView
<1>2. ASSUME k \in up
      PROVE  /\ \A j \in Socket : \A f \in End : ~(j = k /\ f = e) => w2[j][f] = w[j][f]
             /\ Appended(w[k][e], ms, w2[k][e])
  <2> DEFINE q == w[k][e] \o ms
  <2>1. k \in Socket /\ w2 = [w EXCEPT ![k][e] = q] /\ Appended(w[k][e], ms, q)
    BY <1>2 DEF Write, Appended
  <2> HIDE DEF q
  <2> QED
    BY <2>1 DEF TypedWires
<1>3. k \notin up => w2 = w
  BY DEF Write
<1>4. ASSUME ms = <<>>
      PROVE  w2 = w
  <2>1. ASSUME k \in up
        PROVE  w2 = w
    <3> DEFINE q == w[k][e] \o ms
    <3>1. w[k][e] \in Seq(Message) /\ k \in Socket
      BY <2>1 DEF TypedWires
    <3>2. q = w[k][e]
      BY <1>4, <3>1
    <3>3. w2 = [w EXCEPT ![k][e] = q]
      BY <2>1 DEF Write
    <3> HIDE DEF q
    <3> QED
      BY <3>1, <3>2, <3>3 DEF TypedWires
  <2> QED
    BY <1>3, <2>1
<1> QED
  BY <1>1, <1>2, <1>3, <1>4

LEMMA NothingWritten ==
  ASSUME NEW w, TypedWires(w), up \subseteq Socket, NEW k, NEW e \in End
  PROVE  Write(w, k, e, <<>>) = w
<1>1. <<>> \in Seq(Message)
  OBVIOUS
<1> DEFINE w2 == Write(w, k, e, <<>>)
<1>2. w2 = Write(w, k, e, <<>>)
  OBVIOUS
<1> HIDE DEF w2
<1>3. w2 = w
  BY <1>1, <1>2, WrittenView
<1> QED
  BY <1>3 DEF w2

ReadFrom(w, k, e) == [w EXCEPT ![k][e] = Tail(@)]

LEMMA ReadFromView ==
  ASSUME NEW w, TypedWires(w), NEW k \in Socket, NEW e \in End, w[k][e] # <<>>,
         NEW w2, w2 = ReadFrom(w, k, e)
  PROVE  /\ TypedWires(w2) /\ w[k][e] \in Seq(Message) /\ Head(w[k][e]) \in Message
         /\ w2[k][e] = Tail(w[k][e])
         /\ \A j \in Socket : \A f \in End : ~(j = k /\ f = e) => w2[j][f] = w[j][f]
<1>1. /\ TypedWires(w2) /\ w[k][e] \in Seq(Message) /\ Head(w[k][e]) \in Message
  BY TailView DEF ReadFrom
<1>2. \A j \in Socket : \A f \in End : w2[j][f] = IF j = k /\ f = e THEN Tail(w[j][f]) ELSE w[j][f]
  <2> DEFINE x == [w EXCEPT ![k][e] = Tail(@)]
  <2>2. w2 = x /\ x = [w EXCEPT ![k][e] = Tail(@)]
    BY DEF ReadFrom
  <2> HIDE DEF x
  <2>1. \A j \in Socket : \A f \in End : x[j][f] = IF j = k /\ f = e THEN Tail(w[j][f]) ELSE w[j][f]
    BY <2>2, TailView
  <2> QED
    BY <2>1, <2>2
<1> QED
  BY <1>1, <1>2

LEMMA CalmReadFrom ==
  ASSUME NEW u, NEW so, NEW w, TypedWires(w), NEW k \in Socket, NEW e \in End,
         w[k][e] # <<>>, Head(w[k][e]).type # "Regular", NEW w2, w2 = ReadFrom(w, k, e)
  PROVE  Calm(w, w2, u, so) /\ TypedWires(w2)
BY CalmRead DEF ReadFrom

\* An end sends an acknowledgement.
LEMMA GapAck ==
  ASSUME ChannelInv, GapInv, NEW e \in End, SendAckTimeout(e)
  PROVE  GapInv'
<1> DEFINE r == SendAck(endpoint[e])
<1>1. TypedWires(wire) /\ up \subseteq Socket /\ endpoint \in [End -> Endpoint] /\ Peer[e] \in End
  BY WiresAreTyped, EndsAreTyped, Peers
<1>2. /\ endpoint' = [endpoint EXCEPT ![e] = r.endpoint]
      /\ wire' = Write(wire, socketOf[e], Peer[e], r.writes)
      /\ UNCHANGED <<socketOf, up, handshake>>
  BY DEF SendAckTimeout, serverVars
<1>3. /\ r.writes \in Seq(Message) /\ NoneOf(r.writes, "Regular") /\ NoneOf(r.writes, "ReplayRequest")
      /\ SameNumbers(endpoint[e], r.endpoint)
  BY EndFacts, AckFits DEF SameNumbers
<1>4. NoRegular(r.writes) /\ NoReplay(r.writes)
  BY <1>3 DEF NoRegular, NoReplay
<1> HIDE DEF r
<1>5. Calm(wire, wire', up', socketOf')
  BY <1>1, <1>2, <1>3, <1>4, CalmWrite
<1>6. ASSUME NEW f \in End
      PROVE  SameNumbers(endpoint[f], endpoint'[f])
  BY <1>1, <1>2, <1>3 DEF SameNumbers
<1> QED
  BY <1>2, <1>5, <1>6, GapKept

\* An end sends a message: written only if the peer is told so in order.
LEMMA GapSend ==
  ASSUME ChannelInv, JoinInv, GapInv, NEW e \in End, SendMessage(e)
  PROVE  GapInv'
<1> DEFINE k == socketOf[e]
           f == Peer[e]
           d == ToSend[e][Len(sent[e]) + 1]
           r == Send(endpoint[e], d)
           ms == r.writes
           a == endpoint[e].outgoingMsgId
<1>1. /\ TypedWires(wire) /\ up \subseteq Socket /\ endpoint \in [End -> Endpoint]
      /\ f \in End /\ Peer[f] = e /\ f # e /\ \A g \in End : g = e \/ g = f
  BY WiresAreTyped, EndsAreTyped, Peers, TwoEnds
<1>2. /\ endpoint' = [endpoint EXCEPT ![e] = r.endpoint]
      /\ wire' = Write(wire, k, f, ms)
      /\ UNCHANGED <<socketOf, up, handshake>>
  BY DEF SendMessage, serverVars
<1>0. d \in Data
  BY NextToSend
<1> HIDE DEF d
<1>3. /\ ms \in Seq(Message) /\ NoneOf(ms, "ReplayRequest")
      /\ r.endpoint.outgoingMsgId = a + 1
      /\ r.endpoint.incomingMsgId = endpoint[e].incomingMsgId
      /\ r.endpoint.isReconnecting = endpoint[e].isReconnecting
      /\ endpoint[e].isReconnecting => ms = <<>>
      /\ ~endpoint[e].isReconnecting => Gapless(ms, a) /\ Complete(ms, a, a + 1)
  <2>1. EndInv(endpoint[e], sent[e], received[e])
    BY EndFacts
  <2> QED
    BY <1>0, <2>1, SendFits
<1>4. a \in Nat /\ a + 1 \in Nat /\ endpoint[f].incomingMsgId \in Nat
  BY <1>1, Numbers
<1> HIDE DEF r, ms
<1>5. /\ endpoint'[f] = endpoint[f]
      /\ endpoint'[e].outgoingMsgId = a + 1
      /\ endpoint'[e].incomingMsgId = endpoint[e].incomingMsgId
      /\ endpoint'[e].isReconnecting = endpoint[e].isReconnecting
  BY <1>1, <1>2, <1>3
<1> HIDE DEF a, f, k
<1>6. /\ \A j \in Socket : \A g \in End : ~(j = k /\ g = f /\ k \in up) => wire'[j][g] = wire[j][g]
      /\ k \in up => Appended(wire[k][f], ms, wire'[k][f])
      /\ ms = <<>> => wire' = wire
  BY <1>1, <1>2, <1>3, WrittenView
<1>7. ASSUME NEW j \in Socket
      PROVE  GapAt(j, e)'
  <2>1. GapAt(j, e) /\ wire'[j][e] = wire[j][e]
    BY <1>1, <1>6 DEF GapInv
  <2>2. Calmer(wire[j][e], wire'[j][e]) /\ AsFull(wire[j][e], wire'[j][e])
    BY <2>1, CalmStays
  <2>3. Peer[e] = f /\ Peer'[e] = f
    BY DEF f, Peer
  <2>4. Facing(j, e)' => Facing(j, e)
    BY <1>2, <1>5, <2>3 DEF Facing
  <2>5. Handshaking(j, e)' => Handshaking(j, e)
    BY <1>2 DEF Handshaking
  <2> QED
    BY <1>2, <1>5, <2>1, <2>2, <2>3, <2>4, <2>5, Numbers, GapStays
<1>8. ASSUME NEW j \in Socket, ~(j = k /\ k \in up /\ ~endpoint[e].isReconnecting)
      PROVE  GapAt(j, f)'
  <2>1. GapAt(j, f) /\ wire'[j][f] = wire[j][f]
    BY <1>1, <1>3, <1>6, <1>8 DEF GapInv
  <2>2. Calmer(wire[j][f], wire'[j][f])
    BY <2>1, CalmStays
  <2>3. ~Facing(j, f)'
    BY <1>1, <1>2, <1>5, <1>8 DEF Facing, k
  <2>4. Handshaking(j, f)' => Handshaking(j, f)
    BY <1>2 DEF Handshaking
  <2> QED
    BY <1>1, <1>2, <1>5, <2>1, <2>2, <2>3, <2>4, Numbers, GapStays
<1>9. ASSUME NEW j \in Socket, j = k, j \in up, ~endpoint[e].isReconnecting
      PROVE  GapAt(j, f)'
  <2> DEFINE q == wire[j][f]
             n == endpoint[f].incomingMsgId
  <2>1. GapAt(j, f) /\ q \in Seq(Message) /\ n \in Nat
    BY <1>1, <1>4, <1>9 DEF GapInv, TypedWires
  <2>2. wire'[j][f] = q \o ms
    BY <1>6, <1>9 DEF Appended
  <2>3. NoReplay(q)
    BY <2>1 DEF GapAt
  <2>4. NoReplay(wire'[j][f])
    BY <1>3, <2>1, <2>2, <2>3, BehindOf DEF NoReplay
  <2>5. ~Handshaking(j, f)'
    <3>1. handshake[j] # "none" => socketOf["server"] # j
      BY <2>1, Known DEF RestOK
    <3>2. f = "server" => e = "client"
      BY <1>1, TwoEnds
    <3>3. ~endpoint["client"].isReconnecting => socketOf["server"] = j
      BY <1>9, <2>1 DEF JoinInv, JoinAt
    <3>4. ~(f = "server" /\ handshake[j] # "none")
      BY <1>9, <3>1, <3>2, <3>3
    <3>5. handshake' = handshake
      BY <1>2
    <3> QED
      BY <3>4, <3>5 DEF Handshaking
  <2>6. ASSUME socketOf[f] = j
        PROVE  Gapless(wire'[j][f], n) /\ Complete(wire'[j][f], n, a + 1)
    <3>1. Facing(j, f)
      BY <1>1, <1>9, <2>6 DEF Facing, k
    <3>2. Gapless(q, n) /\ Complete(q, n, a)
      BY <1>1, <2>1, <2>6, <3>1 DEF GapAt, a
    <3> HIDE DEF q, n
    <3> QED
      BY <1>3, <1>4, <1>9, <2>1, <2>2, <3>2, GapExtend
  <2>7. Facing(j, f)' => socketOf[f] = j
    BY <1>2 DEF Facing
  <2> QED
    BY <1>1, <1>2, <1>5, <2>4, <2>5, <2>6, <2>7 DEF GapAt
<1>10. \A j \in Socket : \A g \in End : GapAt(j, g)'
  BY <1>1, <1>7, <1>8, <1>9
<1>11. ~endpoint'["server"].isReconnecting
  BY <1>1, <1>5, TwoEnds DEF GapInv
<1> QED
  BY <1>10, <1>11 DEF GapInv

\* The oldest message of a socket that an end reads does not leave a gap, so
\* that it is not answered.
LEMMA GapReceive ==
  ASSUME ChannelInv, GapInv, NEW e \in End, ReceiveMessage(e)
  PROVE  GapInv'
<1> DEFINE k == socketOf[e]
           q == wire[k][e]
           m == Oldest(e)
           p == endpoint[e]
           n == p.incomingMsgId
           r == Receive(p, m)
           w == Consumed(e)
<1>1. /\ TypedWires(wire) /\ up \subseteq Socket /\ endpoint \in [End -> Endpoint] /\ Peer[e] \in End
  BY WiresAreTyped, EndsAreTyped, Peers
<1>2. /\ Waiting(e) /\ endpoint' = [endpoint EXCEPT ![e] = r.endpoint]
      /\ wire' = Write(w, k, Peer[e], r.writes)
      /\ UNCHANGED <<socketOf, up, handshake>>
  BY DEF ReceiveMessage, serverVars
<1>3. /\ k \in Socket /\ q # <<>> /\ q \in Seq(Message) /\ w = ReadFrom(wire, k, e)
      /\ m = Head(q) /\ m \in Message /\ m.ack <= Len(sent[e])
  BY <1>2, OldestFits DEF ReadFrom
<1>4. GapAt(k, e) /\ n \in Nat
  BY <1>3, Numbers DEF GapInv
<1>5. Gapless(q, n) /\ NoneOf(q, "ReplayRequest")
  BY <1>4 DEF GapAt, NoReplay
<1> HIDE DEF q, m
<1>6. m.type # "ReplayRequest" /\ NoneOf(Tail(q), "ReplayRequest")
      /\ (NoneOf(q, "Regular") => NoneOf(Tail(q), "Regular"))
  BY <1>3, <1>5, RestOf
<1>7. /\ ~IsGap(p, m)
      /\ Gapless(Tail(q), IF IsNext(p, m) THEN n + 1 ELSE n)
      /\ \A top \in Nat : Complete(q, n, top) => Complete(Tail(q), IF IsNext(p, m) THEN n + 1 ELSE n, top)
  BY <1>3, <1>4, <1>5, GapRead DEF IsGap, IsNext
<1>8. /\ r.writes = <<>>
      /\ r.endpoint.outgoingMsgId = p.outgoingMsgId
      /\ r.endpoint.isReconnecting = p.isReconnecting
      /\ r.endpoint.incomingMsgId = IF IsNext(p, m) THEN n + 1 ELSE n
  <2>1. EndInv(p, sent[e], received[e])
    BY EndFacts
  <2> HIDE DEF p
  <2> QED
    BY <1>3, <1>6, <1>7, <2>1, ReadFits
<1> DEFINE n2 == IF IsNext(p, m) THEN n + 1 ELSE n
<1>9. /\ r.endpoint.incomingMsgId = n2 /\ Gapless(Tail(q), n2)
      /\ \A top \in Nat : Complete(q, n, top) => Complete(Tail(q), n2, top)
  BY <1>7, <1>8
<1> HIDE DEF n2, r, w
<1>10. /\ wire' = w /\ TypedWires(w)
       /\ w[k][e] = Tail(q)
       /\ \A j \in Socket : \A g \in End : ~(j = k /\ g = e) => w[j][g] = wire[j][g]
  <2>1. /\ TypedWires(w) /\ w[k][e] = Tail(wire[k][e])
        /\ \A j \in Socket : \A g \in End : ~(j = k /\ g = e) => w[j][g] = wire[j][g]
    BY <1>1, <1>3, ReadFromView DEF q
  <2>2. wire' = w
    <3>1. wire' = Write(w, k, Peer[e], <<>>)
      BY <1>2, <1>8
    <3>2. TypedWires(w)
      BY <2>1
    <3> QED
      BY <1>1, <3>1, <3>2, NothingWritten
  <2> QED
    BY <2>1, <2>2 DEF q
<1>11. \A g \in End : /\ endpoint'[g].outgoingMsgId = endpoint[g].outgoingMsgId
                      /\ endpoint'[g].isReconnecting = endpoint[g].isReconnecting
                      /\ g # e => endpoint'[g].incomingMsgId = endpoint[g].incomingMsgId
  BY <1>1, <1>2, <1>8
<1>12. endpoint'[e].incomingMsgId = n2
  BY <1>1, <1>2, <1>9
<1> HIDE DEF k, p
<1>13. \A j \in Socket : \A g \in End : (Facing(j, g)' => Facing(j, g)) /\ (Handshaking(j, g)' => Handshaking(j, g))
  <2>1. ASSUME NEW j \in Socket, NEW g \in End
        PROVE  (Facing(j, g)' => Facing(j, g)) /\ (Handshaking(j, g)' => Handshaking(j, g))
    <3>1. endpoint'[Peer[g]].isReconnecting = endpoint[Peer[g]].isReconnecting
      BY <1>11, Peers
    <3> QED
      BY <1>2, <3>1 DEF Facing, Handshaking, Peer
  <2> QED
    BY <2>1
<1>14. ASSUME NEW j \in Socket, NEW g \in End, ~(j = k /\ g = e)
       PROVE  GapAt(j, g)'
  <2>1. GapAt(j, g) /\ wire'[j][g] = wire[j][g]
    BY <1>10, <1>14 DEF GapInv
  <2>2. Calmer(wire[j][g], wire'[j][g]) /\ AsFull(wire[j][g], wire'[j][g])
    BY <2>1, CalmStays
  <2>3. socketOf'[g] = j => socketOf[g] = j /\ endpoint'[g].incomingMsgId = endpoint[g].incomingMsgId
    BY <1>2, <1>11, <1>14 DEF k
  <2>4. endpoint'[Peer[g]].outgoingMsgId = endpoint[Peer[g]].outgoingMsgId
    BY <1>11, Peers
  <2> QED
    BY <1>13, <2>1, <2>2, <2>3, <2>4, Numbers, GapStays
<1>15. ASSUME NEW j \in Socket, j = k
       PROVE  GapAt(j, e)'
  <2>1. wire'[j][e] = Tail(q) /\ wire[j][e] = q
    BY <1>10, <1>15 DEF q
  <2>2. NoReplay(wire'[j][e])
    BY <1>6, <2>1 DEF NoReplay
  <2>3. Handshaking(j, e)' => NoRegular(wire'[j][e])
    BY <1>4, <1>6, <1>13, <1>15, <2>1 DEF GapAt, NoRegular
  <2>4. Gapless(wire'[j][e], endpoint'[e].incomingMsgId)
    BY <1>9, <1>12, <2>1
  <2>5. Facing(j, e)' => Complete(wire'[j][e], endpoint'[e].incomingMsgId, endpoint'[Peer[e]].outgoingMsgId)
    <3>1. Facing(j, e)' => Complete(q, n, endpoint[Peer[e]].outgoingMsgId)
      BY <1>4, <1>13, <1>15, <2>1 DEF GapAt, p
    <3>2. endpoint'[Peer[e]].outgoingMsgId = endpoint[Peer[e]].outgoingMsgId
          /\ endpoint[Peer[e]].outgoingMsgId \in Nat
      BY <1>1, <1>11, Numbers
    <3> QED
      BY <1>9, <1>12, <2>1, <3>1, <3>2
  <2> QED
    BY <2>2, <2>3, <2>4, <2>5 DEF GapAt
<1>16. ~endpoint'["server"].isReconnecting
  BY <1>11, TwoEnds DEF GapInv
<1> QED
  BY <1>14, <1>15, <1>16 DEF GapInv

\* What the handshakes read and write, other than at their ends.
LEMMA GapHandshakes ==
  ASSUME ChannelInv, JoinInv, GapInv,
         \/ BufferControlMessage \/ SignArrives
         \/ \E k \in Socket : ServerReceivesAuth(k) \/ ServerDiscards(k) \/ ServerRejectsReconnection(k)
  PROVE  GapInv'
<1>1. /\ TypedWires(wire) /\ up \subseteq Socket
      /\ handshake \in [Socket -> {"none", "waitingForAuth", "waitingForConnectionType"}]
      /\ {"auth", "sign", "connectionType", "error"} \subseteq ControlData
  BY WiresAreTyped, Known DEF RestOK, ControlData
<1>2. UNCHANGED endpoint
  BY DEF BufferControlMessage, SignArrives, ServerReceivesAuth, ServerDiscards, ServerRejectsReconnection
<1>3. \A e \in End : SameNumbers(endpoint[e], endpoint'[e])
  BY <1>2 DEF SameNumbers
<1>4. ASSUME NEW d, Control(d).type = "Regular"
      PROVE  FALSE
  BY <1>4 DEF Control
<1>5. CASE BufferControlMessage
  <2> DEFINE k == socketOf["client"]
  <2>1. /\ Waiting("client") /\ Oldest("client").type = "Control"
        /\ wire' = Consumed("client") /\ UNCHANGED <<socketOf, up, handshake>>
    BY <1>5 DEF BufferControlMessage, ControlArrives, serverVars
  <2>2. /\ k \in Socket /\ wire[k]["client"] # <<>> /\ wire' = ReadFrom(wire, k, "client")
        /\ Head(wire[k]["client"]).type # "Regular"
    BY <2>1, OldestFits, TwoEnds DEF ReadFrom
  <2>3. Calm(wire, wire', up', socketOf')
    BY <1>1, <2>2, CalmReadFrom, TwoEnds
  <2> QED
    BY <1>3, <2>1, <2>3, GapKept
<1>6. CASE SignArrives
  <2> DEFINE k == socketOf["client"]
             w == WithoutControl
  <2>1. /\ ControlMessage # NoData
        /\ wire' = Write(w, k, "server", <<Control("connectionType")>>)
        /\ UNCHANGED <<socketOf, up, handshake>>
    BY <1>6, ControlAssumption DEF SignArrives, serverVars, ControlData
  <2>2. /\ k \in Socket /\ wire[k]["client"] # <<>> /\ w = ReadFrom(wire, k, "client")
        /\ Head(wire[k]["client"]).type # "Regular"
    BY <2>1, AnswerIs DEF ReadFrom
  <2> HIDE DEF w
  <2>3. Calm(wire, w, up', socketOf') /\ TypedWires(w)
    BY <1>1, <2>2, CalmReadFrom, TwoEnds
  <2>4. Calm(w, wire', up', socketOf')
    BY <1>1, <2>1, <2>3, CalmWrite, QuietMessages, TwoEnds
  <2>5. Calm(wire, wire', up', socketOf')
    BY <2>3, <2>4, StillCalm
  <2> QED
    BY <1>3, <2>1, <2>5, GapKept
<1>7. ASSUME NEW k \in Socket, ServerReceivesAuth(k)
      PROVE  GapInv'
  <2> DEFINE w == ReadFrom(wire, k, "server")
  <2>1. /\ HandshakeMessage(k, "waitingForAuth", "auth")
        /\ wire' = Write(w, k, "client", <<Control("sign")>>)
        /\ UNCHANGED <<socketOf, up>> /\ handshake' = [handshake EXCEPT ![k] = "waitingForConnectionType"]
    BY <1>7 DEF ServerReceivesAuth, ReadFrom
  <2>2. wire[k]["server"] # <<>> /\ Head(wire[k]["server"]).type # "Regular" /\ handshake[k] # "none"
    BY <1>4, <2>1 DEF HandshakeMessage
  <2>6. w = ReadFrom(wire, k, "server")
    OBVIOUS
  <2> HIDE DEF w
  <2>3. Calm(wire, w, up', socketOf') /\ TypedWires(w)
    BY <1>1, <2>2, <2>6, CalmReadFrom, TwoEnds
  <2>4. Calm(w, wire', up', socketOf')
    BY <1>1, <2>1, <2>3, CalmWrite, QuietMessages, TwoEnds
  <2>5. Calm(wire, wire', up', socketOf')
    BY <2>3, <2>4, StillCalm
  <2>7. \A j \in Socket : handshake'[j] # "none" => handshake[j] # "none"
    BY <1>1, <2>1, <2>2
  <2> QED
    BY <1>3, <2>1, <2>5, <2>7, GapKept
<1>8. ASSUME NEW k \in Socket, ServerDiscards(k)
      PROVE  GapInv'
  <2>1. /\ handshake[k] # "none" /\ wire[k]["server"] # <<>>
        /\ wire' = ReadFrom(wire, k, "server") /\ UNCHANGED <<socketOf, up, handshake>>
    BY <1>8 DEF ServerDiscards, ReadFrom, serverVars
  <2>2. NoneOf(wire[k]["server"], "Regular")
    <3>1. GapAt(k, "server") /\ Handshaking(k, "server")
      BY <2>1, TwoEnds DEF GapInv, Handshaking
    <3> QED
      BY <3>1 DEF GapAt, NoRegular
  <2>3. Head(wire[k]["server"]).type # "Regular"
    <3> DEFINE q == wire[k]["server"]
    <3>1. q \in Seq(Message) /\ q # <<>> /\ NoneOf(q, "Regular")
      BY <1>1, <2>1, <2>2, TwoEnds DEF TypedWires
    <3> HIDE DEF q
    <3>2. Head(q).type # "Regular"
      BY <3>1, RestOf
    <3> QED
      BY <3>2 DEF q
  <2>4. Calm(wire, wire', up', socketOf')
    BY <1>1, <2>1, <2>3, CalmReadFrom, TwoEnds
  <2> QED
    BY <1>3, <2>1, <2>4, GapKept
<1>9. ASSUME NEW k \in Socket, ServerRejectsReconnection(k)
      PROVE  GapInv'
  <2> DEFINE w == Write(wire, k, "client", <<Control("error")>>)
  <2>1. /\ wire' = Unread(w, k, "server") /\ up' = up \ {k} /\ UNCHANGED socketOf
        /\ handshake' = [handshake EXCEPT ![k] = "none"]
    BY <1>9 DEF ServerRejectsReconnection
  <2>2. Calm(wire, w, up', socketOf') /\ TypedWires(w)
    BY <1>1, CalmWrite, QuietMessages, TwoEnds
  <2> HIDE DEF w
  <2>3. Calm(w, wire', up', socketOf')
    BY <2>1, <2>2, CalmUnread, TwoEnds
  <2>4. Calm(wire, wire', up', socketOf')
    BY <2>2, <2>3, StillCalm
  <2>5. \A j \in Socket : handshake'[j] # "none" => handshake[j] # "none"
    BY <1>1, <2>1
  <2> QED
    BY <1>3, <2>1, <2>4, <2>5, GapKept
<1> QED
  BY <1>5, <1>6, <1>7, <1>8, <1>9

LEMMA GapConnect ==
  ASSUME ChannelInv, JoinInv, JoinInv', GapInv, NEW k \in Socket, Connect(k)
  PROVE  GapInv'
<1> DEFINE old == socketOf["client"]
           w == Unread(wire, old, "client")
<1>1. /\ TypedWires(wire) /\ up \subseteq Socket /\ socketOf \in [End -> Socket \cup {NoSocket}]
      /\ handshake \in [Socket -> {"none", "waitingForAuth", "waitingForConnectionType"}]
      /\ endpoint \in [End -> Endpoint] /\ "auth" \in ControlData
  BY WiresAreTyped, EndsAreTyped, Known DEF RestOK, ControlData
<1>2. /\ k \notin up /\ old # k /\ socketOf["server"] # k
      /\ endpoint' = [endpoint EXCEPT !["client"] = BeginAcceptReconnection(endpoint["client"])]
      /\ socketOf' = [socketOf EXCEPT !["client"] = k]
      /\ wire' = [w EXCEPT ![k]["server"] = <<Control("auth")>>]
      /\ handshake' = [handshake EXCEPT ![k] = "waitingForAuth"]
  BY TwoEnds DEF Connect, Free
<1>3. socketOf'["client"] = k /\ socketOf'["server"] = socketOf["server"]
      /\ endpoint'["server"] = endpoint["server"]
  BY <1>1, <1>2, TwoEnds
<1>4. ASSUME NEW j \in Socket
      PROVE  wire'[j]["client"] = <<>>
  <2>1. TypedWires(w) /\ w[j]["client"] = IF j = old THEN <<>> ELSE wire[j]["client"]
    BY <1>1, UnreadView, TwoEnds
  <2>2. j # old => wire[j]["client"] = <<>>
    BY DEF JoinInv, JoinAt
  <2> HIDE DEF w, old
  <2>3. wire'[j]["client"] = w[j]["client"]
    BY <1>2, <2>1 DEF TypedWires, End
  <2> QED
    BY <2>1, <2>2, <2>3
<1>5. /\ wire'[k]["server"] = <<Control("auth")>>
      /\ \A j \in Socket : j # k => wire'[j]["server"] = wire[j]["server"]
  <2>1. TypedWires(w) /\ \A j \in Socket : \A f \in End : w[j][f] = IF j = old /\ f = "client" THEN <<>> ELSE wire[j][f]
    BY <1>1, UnreadView, TwoEnds
  <2> HIDE DEF w
  <2>2. \A j \in Socket : w[j]["server"] = wire[j]["server"]
    BY <2>1, TwoEnds
  <2>3. /\ wire'[k]["server"] = <<Control("auth")>>
        /\ \A j \in Socket : j # k => wire'[j]["server"] = w[j]["server"]
    BY <1>2, <2>1 DEF TypedWires, End
  <2> QED
    BY <2>2, <2>3
<1>6. ASSUME NEW j \in Socket, NEW e \in End
      PROVE  ~Facing(j, e)'
  <2>1. Facing(j, e)' => socketOf'["client"] = j /\ socketOf'["server"] = j
    <3>1. Facing(j, e)' => socketOf'[e] = j /\ socketOf'[Peer[e]] = j
      BY DEF Facing, Peer
    <3> QED
      BY <3>1, TwoEnds
  <2> QED
    BY <1>2, <1>3, <2>1
<1>7. ASSUME NEW j \in Socket
      PROVE  GapAt(j, "client")'
  <2>1. NoReplay(wire'[j]["client"]) /\ Gapless(wire'[j]["client"], endpoint'["client"].incomingMsgId)
    BY <1>4 DEF NoReplay, NoneOf, Gapless
  <2>2. ~Handshaking(j, "client")'
    BY DEF Handshaking
  <2> QED
    BY <1>6, <2>1, <2>2, TwoEnds DEF GapAt
<1>8. ASSUME NEW j \in Socket, j # k
      PROVE  GapAt(j, "server")'
  <2>1. GapAt(j, "server") /\ wire'[j]["server"] = wire[j]["server"]
    BY <1>5, <1>8, TwoEnds DEF GapInv
  <2>2. Calmer(wire[j]["server"], wire'[j]["server"])
    BY <2>1, CalmStays
  <2>3. Handshaking(j, "server")' => Handshaking(j, "server")
    BY <1>1, <1>2, <1>8 DEF Handshaking
  <2> QED
    BY <1>3, <1>6, <2>1, <2>2, <2>3, Numbers, TwoEnds, GapStays
<1>9. GapAt(k, "server")'
  <2>1. NoRegular(wire'[k]["server"]) /\ NoReplay(wire'[k]["server"])
    BY <1>1, <1>5, QuietMessages
  <2> QED
    BY <1>2, <1>3, <1>6, <2>1, TwoEnds DEF GapAt
<1>10. ~endpoint'["server"].isReconnecting
  BY <1>3 DEF GapInv
<1> QED
  BY <1>7, <1>8, <1>9, <1>10, TwoEnds DEF GapInv

\* What is sent again starts with what the peer may have missed.
LEMMA GapAgain ==
  ASSUME ChannelInv, NEW e \in End, NEW q \in Seq(Message), NEW h \in Seq(Message), NoneOf(h, "Regular"),
         NoneOf(h, "ReplayRequest"), NEW p, EndInv(p, sent[e], received[e]),
         p.outgoingAckId = endpoint[e].outgoingAckId,
         NEW ms, ms = h \o EndAcceptReconnection(p).writes
  PROVE  LET n == endpoint[Peer[e]].incomingMsgId IN
         /\ ms \in Seq(Message) /\ NoReplay(ms)
         /\ NoReplay(q) => NoReplay(q \o ms)
         /\ Gapless(q, n) => Gapless(q \o ms, n) /\ Complete(q \o ms, n, p.outgoingMsgId)
<1> DEFINE n == endpoint[Peer[e]].incomingMsgId
           a == p.outgoingAckId
           top == p.outgoingMsgId
           x == EndAcceptReconnection(p).writes
<1>1. n \in Nat /\ a \in Nat /\ a <= n /\ top \in Nat
  <2>1. p.outgoingMsgId \in Nat
    BY DEF EndInv, Endpoint
  <2> QED
    BY <2>1, EndFacts, Peers
<1>2. /\ x \in Seq(Message) /\ NoneOf(x, "ReplayRequest")
      /\ Gapless(x, a) /\ Complete(x, a, top)
  BY FinishFits
<1>3. ms = h \o x
  OBVIOUS
<1> HIDE DEF n, a, top, x
<1>4. Gapless(h, a) /\ Complete(h, a, a)
  BY <1>1 DEF Gapless, Complete, NoneOf
<1>5. ms \in Seq(Message) /\ NoneOf(ms, "ReplayRequest")
  BY <1>2, <1>3, Behind, BehindOf
<1>6. Gapless(ms, a) /\ Complete(ms, a, top)
  BY <1>1, <1>2, <1>3, <1>4, GapExtend
<1>7. Gapless(q, n) => Gapless(q \o ms, n) /\ Complete(q \o ms, n, top)
  BY <1>1, <1>5, <1>6, GapReplay
<1>8. NoneOf(q, "ReplayRequest") => NoneOf(q \o ms, "ReplayRequest")
  BY <1>5, BehindOf
<1> QED
  BY <1>5, <1>7, <1>8 DEF NoReplay, n, top

\* The client's part of a handshake is over: the server reads the socket
\* already with the connection's own protocol.
LEMMA GapFinish ==
  ASSUME ChannelInv, JoinInv, GapInv, HandshakeFinishes
  PROVE  GapInv'
<1> DEFINE k == socketOf["client"]
           p == endpoint["client"]
           r == EndAcceptReconnection(p)
           w == WithoutControl
           ms == <<>> \o r.writes
<1>1. TypedWires(wire) /\ up \subseteq Socket /\ endpoint \in [End -> Endpoint]
  BY WiresAreTyped, EndsAreTyped
<1>2. /\ ControlMessage # NoData /\ phase = "connectionType" /\ ControlMessage # "error"
      /\ endpoint' = [endpoint EXCEPT !["client"] = r.endpoint]
      /\ wire' = Write(w, k, "server", r.writes)
      /\ UNCHANGED <<socketOf, up, handshake>>
  BY DEF HandshakeFinishes, serverVars
<1>3. /\ k \in Socket /\ wire[k]["client"] # <<>> /\ w = ReadFrom(wire, k, "client")
      /\ Head(wire[k]["client"]).type # "Regular"
      /\ k \in up => socketOf["server"] = k
  BY <1>2, AnswerIs DEF ReadFrom
<1> DEFINE n == endpoint["server"].incomingMsgId
           top == p.outgoingMsgId
<1>4. /\ ms = r.writes /\ ms \in Seq(Message)
      /\ \A q \in Seq(Message) :
           /\ NoReplay(q) => NoReplay(q \o ms)
           /\ Gapless(q, n) => Gapless(q \o ms, n) /\ Complete(q \o ms, n, top)
  <2>1. EndInv(p, sent["client"], received["client"])
    BY EndFacts, TwoEnds
  <2>2. r.writes \in Seq(Message)
    BY <2>1, FinishFits
  <2>3. ms = r.writes
    BY <2>2
  <2>4. <<>> \in Seq(Message) /\ NoneOf(<<>>, "Regular") /\ NoneOf(<<>>, "ReplayRequest")
    BY QuietMessages DEF NoRegular, NoReplay
  <2>5. p.outgoingAckId = endpoint["client"].outgoingAckId /\ ms = <<>> \o EndAcceptReconnection(p).writes
    OBVIOUS
  <2> HIDE DEF ms, p
  <2>6. ASSUME NEW q \in Seq(Message)
        PROVE  /\ NoReplay(q) => NoReplay(q \o ms)
               /\ Gapless(q, n) => Gapless(q \o ms, n) /\ Complete(q \o ms, n, top)
    BY <2>1, <2>4, <2>5, GapAgain, TwoEnds
  <2> QED
    BY <2>2, <2>3, <2>6
<1>5. /\ endpoint'["server"] = endpoint["server"] /\ endpoint'["client"].outgoingMsgId = top
      /\ endpoint'["client"].incomingMsgId = endpoint["client"].incomingMsgId
  BY <1>1, <1>2, TwoEnds, ReconnectionFits
<1> HIDE DEF w, ms, r, n, top, p, k
<1>6. /\ Calm(wire, w, up, socketOf) /\ TypedWires(w)
      /\ \A j \in Socket : w[j]["server"] = wire[j]["server"]
  <2>1. Calm(wire, w, up, socketOf)
    BY <1>1, <1>3, CalmReadFrom, TwoEnds DEF k
  <2>2. TypedWires(w) /\ \A j \in Socket : \A f \in End : ~(j = k /\ f = "client") => w[j][f] = wire[j][f]
    BY <1>1, <1>3, ReadFromView, TwoEnds DEF k
  <2> QED
    BY <2>1, <2>2, TwoEnds
<1>7. /\ \A j \in Socket : wire'[j]["client"] = w[j]["client"]
      /\ \A j \in Socket : ~(j = k /\ k \in up) => wire'[j]["server"] = w[j]["server"]
      /\ k \in up => Appended(w[k]["server"], ms, wire'[k]["server"])
  <2>1. wire' = Write(w, k, "server", ms)
    BY <1>2, <1>4
  <2>2. /\ \A j \in Socket : \A f \in End : ~(j = k /\ f = "server" /\ k \in up) => wire'[j][f] = w[j][f]
        /\ k \in up => Appended(w[k]["server"], ms, wire'[k]["server"])
    BY <1>1, <1>4, <1>6, <2>1, TwoEnds, WrittenView
  <2> QED
    BY <2>2, TwoEnds
<1>8. ASSUME NEW j \in Socket
      PROVE  GapAt(j, "client")'
  <2>1. GapAt(j, "client") /\ Calmer(wire[j]["client"], wire'[j]["client"])
        /\ (j \in up /\ socketOf["client"] = j => AsFull(wire[j]["client"], wire'[j]["client"]))
    BY <1>6, <1>7, TwoEnds DEF GapInv, Calm
  <2>2. Facing(j, "client")' => Facing(j, "client") /\ j \in up /\ socketOf["client"] = j
    BY <1>2, <1>5, TwoEnds DEF Facing, Peer
  <2>3. ~Handshaking(j, "client")'
    BY DEF Handshaking
  <2>4. endpoint'[Peer["client"]].outgoingMsgId = endpoint[Peer["client"]].outgoingMsgId
    BY <1>5, TwoEnds
  <2> QED
    BY <1>2, <1>5, <2>1, <2>2, <2>3, <2>4, Numbers, TwoEnds, GapStays
<1>9. ASSUME NEW j \in Socket, ~(j = k /\ k \in up)
      PROVE  GapAt(j, "server")'
  <2>1. GapAt(j, "server") /\ wire'[j]["server"] = wire[j]["server"]
    BY <1>6, <1>7, <1>9, TwoEnds DEF GapInv
  <2>2. Calmer(wire[j]["server"], wire'[j]["server"])
    BY <2>1, CalmStays
  <2>3. ~Facing(j, "server")'
    BY <1>2, <1>9, TwoEnds DEF Facing, Peer, k
  <2>4. Handshaking(j, "server")' => Handshaking(j, "server")
    BY <1>2 DEF Handshaking
  <2> QED
    BY <1>2, <1>5, <2>1, <2>2, <2>3, <2>4, Numbers, TwoEnds, GapStays
<1>10. ASSUME NEW j \in Socket, j = k, j \in up
       PROVE  GapAt(j, "server")'
  <2> DEFINE q == wire[j]["server"]
             q2 == wire'[j]["server"]
  <2>1. GapAt(j, "server") /\ q \in Seq(Message)
    BY <1>1, TwoEnds DEF GapInv, TypedWires
  <2>2. q2 = q \o ms
    BY <1>6, <1>7, <1>10 DEF Appended
  <2>3. NoReplay(q) /\ Gapless(q, n)
    BY <1>3, <1>10, <2>1 DEF GapAt, n
  <2>4. NoReplay(q2) /\ Gapless(q2, n) /\ Complete(q2, n, top)
    <3> HIDE DEF q, q2
    <3> QED
      BY <1>4, <2>1, <2>2, <2>3
  <2>5. ~Handshaking(j, "server")'
    <3>1. handshake[j] = "none"
      BY <1>3, <1>10, Known DEF RestOK
    <3> QED
      BY <1>2, <3>1 DEF Handshaking
  <2>6. endpoint'["server"].incomingMsgId = n /\ endpoint'[Peer["server"]].outgoingMsgId = top
    BY <1>5, TwoEnds DEF n
  <2> QED
    BY <2>4, <2>5, <2>6 DEF GapAt
<1>11. ~endpoint'["server"].isReconnecting
  BY <1>5 DEF GapInv
<1> QED
  BY <1>8, <1>9, <1>10, <1>11, TwoEnds DEF GapInv

\* The server takes the connection up on a new socket.
LEMMA GapAccept ==
  ASSUME ChannelInv, JoinInv, GapInv, NEW k \in Socket, ServerAcceptsReconnection(k)
  PROVE  GapInv'
<1> DEFINE old == socketOf["server"]
           p == BeginAcceptReconnection(endpoint["server"])
           r == EndAcceptReconnection(p)
           v == Unread(wire, old, "server")
           w == Popped(v, k)
           ms == <<Control("ok")>> \o r.writes
           n == endpoint["client"].incomingMsgId
           top == endpoint["server"].outgoingMsgId
<1>1. /\ TypedWires(wire) /\ up \subseteq Socket /\ socketOf \in [End -> Socket \cup {NoSocket}]
      /\ handshake \in [Socket -> {"none", "waitingForAuth", "waitingForConnectionType"}]
      /\ endpoint \in [End -> Endpoint]
      /\ "connectionType" \in ControlData /\ "ok" \in ControlData
  BY WiresAreTyped, EndsAreTyped, Known DEF RestOK, ControlData
<1>2. /\ HandshakeMessage(k, "waitingForConnectionType", "connectionType")
      /\ endpoint' = [endpoint EXCEPT !["server"] = r.endpoint]
      /\ socketOf' = [socketOf EXCEPT !["server"] = k] /\ up' = up \ {old}
      /\ wire' = Write(w, k, "client", ms)
      /\ handshake' = [handshake EXCEPT ![k] = "none"]
  BY DEF ServerAcceptsReconnection, Popped
<1>3. handshake[k] = "waitingForConnectionType" /\ wire[k]["server"] # <<>>
  BY <1>1, <1>2, HandshakeReadsOne
<1>4. old # k
  BY <1>3, Known DEF RestOK
<1>5. /\ ms \in Seq(Message)
      /\ \A q \in Seq(Message) :
           /\ NoReplay(q) => NoReplay(q \o ms)
           /\ Gapless(q, n) => Gapless(q \o ms, n) /\ Complete(q \o ms, n, top)
  <2>1. EndInv(p, sent["server"], received["server"]) /\ p.outgoingMsgId = top
        /\ p.outgoingAckId = endpoint["server"].outgoingAckId
    BY <1>1, TwoEnds, EndFacts, AcknowledgeInv, ReconnectionFits
  <2> DEFINE h == <<Control("ok")>>
  <2>2. h \in Seq(Message) /\ NoneOf(h, "Regular") /\ NoneOf(h, "ReplayRequest")
    BY <1>1, QuietMessages DEF NoRegular, NoReplay
  <2>3. ms = h \o EndAcceptReconnection(p).writes
    OBVIOUS
  <2> HIDE DEF ms, p, h
  <2>4. ASSUME NEW q \in Seq(Message)
        PROVE  /\ NoReplay(q) => NoReplay(q \o ms)
               /\ Gapless(q, n) => Gapless(q \o ms, n) /\ Complete(q \o ms, n, top)
    BY <2>1, <2>2, <2>3, GapAgain, TwoEnds
  <2>5. ms \in Seq(Message)
    <3>1. EndAcceptReconnection(p).writes \in Seq(Message)
      BY <2>1, FinishFits
    <3> QED
      BY <2>2, <2>3, <3>1, Behind
  <2> QED
    BY <2>4, <2>5
<1>6. /\ socketOf'["client"] = socketOf["client"] /\ socketOf'["server"] = k
      /\ endpoint'["client"] = endpoint["client"]
      /\ endpoint'["server"].outgoingMsgId = top /\ ~endpoint'["server"].isReconnecting
  <2>1. r.endpoint.outgoingMsgId = top /\ ~r.endpoint.isReconnecting
    BY <1>1, TwoEnds, ReconnectionFits
  <2> HIDE DEF r
  <2> QED
    BY <1>1, <1>2, <2>1, TwoEnds
<1> HIDE DEF ms, n, top
<1>7. TypedWires(v) /\ \A j \in Socket : \A f \in End : v[j][f] = IF j = old /\ f = "server" THEN <<>> ELSE wire[j][f]
  BY <1>1, UnreadView, TwoEnds
<1>8. w = Popped(v, k)
  OBVIOUS
<1> HIDE DEF v, w, r, p
<1>9. /\ \A j \in Socket : v[j]["client"] = wire[j]["client"]
      /\ \A j \in Socket : v[j]["server"] = IF j = old THEN <<>> ELSE wire[j]["server"]
  BY <1>7, TwoEnds
<1>10. v[k]["server"] # <<>> /\ v[k]["server"] = wire[k]["server"]
  BY <1>3, <1>4, <1>9
<1>11. /\ TypedWires(w)
       /\ \A j \in Socket : w[j]["client"] = v[j]["client"]
       /\ \A j \in Socket : j # k => w[j]["server"] = v[j]["server"]
       /\ w[k]["server"] = Tail(v[k]["server"])
  BY <1>7, <1>8, <1>10, PoppedView
<1>12. /\ \A j \in Socket : wire'[j]["server"] = w[j]["server"]
       /\ \A j \in Socket : j # k \/ k \notin up => wire'[j]["client"] = w[j]["client"]
       /\ k \in up => Appended(w[k]["client"], ms, wire'[k]["client"])
  BY <1>1, <1>2, <1>5, <1>11, AnswerView
<1>13. ASSUME NEW j \in Socket, j # k
       PROVE  GapAt(j, "server")'
  <2>1. GapAt(j, "server") /\ wire'[j]["server"] = IF j = old THEN <<>> ELSE wire[j]["server"]
    BY <1>9, <1>11, <1>12, <1>13, TwoEnds DEF GapInv
  <2>2. wire[j]["server"] \in Seq(Message)
    BY <1>1, TwoEnds DEF TypedWires
  <2>3. Calmer(wire[j]["server"], wire'[j]["server"])
    BY <2>1, <2>2, CalmQueue, CalmStays
  <2>4. ~Facing(j, "server")' /\ socketOf'["server"] # j
    BY <1>6, <1>13 DEF Facing
  <2>5. Handshaking(j, "server")' => Handshaking(j, "server")
    BY <1>1, <1>2, <1>13 DEF Handshaking
  <2> QED
    BY <2>1, <2>3, <2>4, <2>5, Numbers, TwoEnds, GapStays
<1>14. GapAt(k, "server")'
  <2> DEFINE q == wire[k]["server"]
             q2 == wire'[k]["server"]
  <2>1. NoneOf(q, "Regular") /\ NoneOf(q, "ReplayRequest")
    <3>1. GapAt(k, "server") /\ Handshaking(k, "server")
      BY <1>3, TwoEnds DEF GapInv, Handshaking
    <3> QED
      BY <3>1 DEF GapAt, NoRegular, NoReplay
  <2>2. q \in Seq(Message) /\ q # <<>> /\ q2 = Tail(q)
    BY <1>1, <1>3, <1>10, <1>11, <1>12, TwoEnds DEF TypedWires
  <2> HIDE DEF q, q2
  <2>3. NoneOf(q2, "Regular") /\ NoneOf(q2, "ReplayRequest")
    BY <2>1, <2>2, RestOf
  <2>4. NoReplay(q2) /\ Gapless(q2, endpoint'["server"].incomingMsgId)
    BY <2>3 DEF NoReplay, NoneOf, Gapless
  <2>5. ~Facing(k, "server")'
    <3>1. k \in up => endpoint["client"].isReconnecting
      BY <1>4 DEF JoinInv, JoinAt
    <3> QED
      BY <1>2, <1>6, <3>1, TwoEnds DEF Facing, Peer
  <2>6. ~Handshaking(k, "server")'
    BY <1>1, <1>2 DEF Handshaking
  <2> QED
    BY <2>4, <2>5, <2>6 DEF GapAt, q2
<1>15. ASSUME NEW j \in Socket, ~(j = k /\ k \in up)
       PROVE  GapAt(j, "client")'
  <2>1. GapAt(j, "client") /\ wire'[j]["client"] = wire[j]["client"]
    BY <1>9, <1>11, <1>12, <1>15, TwoEnds DEF GapInv
  <2>2. Calmer(wire[j]["client"], wire'[j]["client"])
    BY <2>1, CalmStays
  <2>3. ~Facing(j, "client")'
    BY <1>2, <1>6, <1>15, TwoEnds DEF Facing, Peer
  <2>4. ~Handshaking(j, "client")'
    BY DEF Handshaking
  <2> QED
    BY <1>6, <2>1, <2>2, <2>3, <2>4, Numbers, TwoEnds, GapStays
<1>16. ASSUME k \in up
       PROVE  GapAt(k, "client")'
  <2> DEFINE q == wire[k]["client"]
             q2 == wire'[k]["client"]
  <2>1. GapAt(k, "client") /\ q \in Seq(Message)
    BY <1>1, TwoEnds DEF GapInv, TypedWires
  <2>2. q2 = q \o ms
    BY <1>9, <1>11, <1>12, <1>16 DEF Appended
  <2>3. NoReplay(q) /\ (socketOf["client"] = k => Gapless(q, n))
    BY <2>1 DEF GapAt, n
  <2>4. NoReplay(q2) /\ (socketOf["client"] = k => Gapless(q2, n) /\ Complete(q2, n, top))
    <3> HIDE DEF q, q2
    <3> QED
      BY <1>5, <2>1, <2>2, <2>3
  <2>5. ~Handshaking(k, "client")'
    BY DEF Handshaking
  <2>6. Facing(k, "client")' => socketOf["client"] = k
    BY <1>6 DEF Facing
  <2>7. endpoint'["client"].incomingMsgId = n /\ endpoint'[Peer["client"]].outgoingMsgId = top
    BY <1>6, TwoEnds DEF n
  <2> QED
    BY <1>6, <2>4, <2>5, <2>6, <2>7 DEF GapAt
<1> QED
  BY <1>6, <1>13, <1>14, <1>15, <1>16, TwoEnds DEF GapInv

LEMMA GapInit == Init => GapInv
<1> SUFFICES ASSUME Init
             PROVE  GapInv
  OBVIOUS
<1>1. /\ endpoint = [e \in End |-> NewEndpoint]
      /\ wire = [k \in Socket |-> [e \in End |-> <<>>]]
      /\ handshake = [k \in Socket |-> "none"]
  BY DEF Init
<1>2. ASSUME NEW k \in Socket, NEW e \in End
      PROVE  GapAt(k, e)
  <2>1. wire[k][e] = <<>> /\ handshake[k] = "none"
    BY <1>1
  <2>2. endpoint[e].incomingMsgId = 0 /\ endpoint[Peer[e]].outgoingMsgId = 0
    BY <1>1, Peers DEF NewEndpoint
  <2>3. NoReplay(<<>>) /\ Gapless(<<>>, 0) /\ Complete(<<>>, 0, 0)
    BY DEF NoReplay, NoneOf, Gapless, Complete
  <2> QED
    BY <2>1, <2>2, <2>3 DEF GapAt, Handshaking
<1>3. ~endpoint["server"].isReconnecting
  BY <1>1, TwoEnds DEF NewEndpoint
<1> QED
  BY <1>2, <1>3 DEF GapInv

LEMMA GapNext ==
  ASSUME ChannelInv, JoinInv, JoinInv', GapInv, [Next]_vars
  PROVE  GapInv'
<1>1. CASE ClientReads
  <2>1. CASE ReceiveMessage("client")
    BY <2>1, GapReceive, TwoEnds
  <2> QED
    BY <1>1, <2>1, GapHandshakes, GapFinish, GapEnds DEF ClientReads
<1>2. CASE ServerReads
  BY <1>2, GapReceive, GapEnds, TwoEnds DEF ServerReads
<1>3. ASSUME NEW e \in End, SendMessage(e) \/ SendAckTimeout(e)
      PROVE  GapInv'
  BY <1>3, GapSend, GapAck
<1>4. ASSUME NEW k \in Socket, LinkFails(k) \/ Connect(k) \/ HandshakeReads(k)
      PROVE  GapInv'
  BY <1>4, GapSockets, GapConnect, GapHandshakes, GapAccept DEF HandshakeReads
<1>5. CASE ClientSocketCloses \/ ClientSocketTimesOut \/ AttemptTimesOut \/ ClientGivesUp \/ WindowCloses
  BY <1>5, GapSockets, GapEnds
<1>6. CASE ServerSocketCloses \/ OtherClientConnects \/ GraceTimeExpires \/ UNCHANGED vars
  BY <1>6, GapSockets, GapEnds
<1> QED
  BY <1>1, <1>2, <1>3, <1>4, <1>5, <1>6 DEF Next

\* No message is ever read before the one sent just before it has been, so
\* that an end has no reason to ask for messages again: what a reconnection
\* sends again starts no later than what the peer is missing, and nothing is
\* written for a peer whose protocol does not read the socket yet.
THEOREM NothingIsSkipped == Spec => []NoGap
<1>1. ChannelInv /\ JoinInv /\ JoinInv' /\ GapInv /\ [Next]_vars => GapInv'
  BY GapNext
<1>2. Spec => []GapInv
  BY <1>1, GapInit, JoinInvariant, ChannelInvariant, PTL DEF Spec
<1>3. ASSUME ChannelInv, GapInv
      PROVE  NoGap
  <2> SUFFICES ASSUME NEW e \in End, Waiting(e)
               PROVE  ~IsGap(endpoint[e], Oldest(e))
    BY DEF NoGap
  <2> DEFINE k == socketOf[e]
             q == wire[k][e]
             n == endpoint[e].incomingMsgId
  <2>1. k \in Socket /\ q # <<>> /\ q \in Seq(Message) /\ Oldest(e) = Head(q) /\ n \in Nat
    BY <1>3, OldestFits, Numbers
  <2>2. Gapless(q, n)
    BY <1>3, <2>1 DEF GapInv, GapAt
  <2> HIDE DEF q
  <2> QED
    BY <2>1, <2>2, GapRead DEF IsGap
<1> QED
  BY <1>2, <1>3, ChannelInvariant, PTL
=============================================================================
