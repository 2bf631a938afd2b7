-------------------------- MODULE WriteAheadProofs --------------------------
(***************************************************************************)
(* Proofs about what a window shows ahead of the server, for any number of *)
(* clients, handlers, sessions and turns, with one handler of sessions on  *)
(* a connection: an echo settles the action it echoes, what a window shows *)
(* is its copy of the session with its pending actions on top, no request  *)
(* ends before its turn is in that copy, and no action is shown twice.     *)
(***************************************************************************)
EXTENDS SessionSyncProofs

USE ClientOfAssumption, ServesAssumption, RootAssumption, BreakableAssumption, NoTurnAssumption

\* Replaying the pending actions is a fold to the left.
INSTANCE LeftFolds WITH Op <- Replay

----------------------------------------------------------------------------
(* The writes a window makes ahead of the server.                          *)

\* One handler of sessions on a connection, beside the holder of the root.
OneSessionHandler ==
  \A g, h \in Handler :
    ClientOf[g] = ClientOf[h] /\ Root \notin Serves[g] \cup Serves[h] => g = h

Has(q, x) == \E i \in DOMAIN q : q[i] = x

(* A pending action belongs to its session, and was numbered by its        *)
(* handler.  Only the handler of a session over a connection that was open *)
(* writes, or waits for a turn.                                            *)
Waits(h, s) == pending[h][s] # <<>> \/ running[h][s] # NoTurn

PendingInv ==
  \A h \in Handler, s \in Session :
    /\ Waits(h, s) => s \in Serves[h] /\ ~Handshaking(ClientOf[h])
    /\ \A i \in DOMAIN pending[h][s] :
         /\ pending[h][s][i].action.resource = s
         /\ pending[h][s][i].action.type \in {"turnStarted", "turnCancelled"}
         /\ pending[h][s][i].clientSeq < nextClientSeq[h]
    /\ \A i, j \in DOMAIN pending[h][s] :
         pending[h][s][i].clientSeq = pending[h][s][j].clientSeq => i = j

(* What is on its way under number n of handler h is what h wrote under    *)
(* that number, if that is still pending.                                  *)
Fits(h, a, n) ==
  /\ n < nextClientSeq[h]
  /\ \A s \in Session : \A i \in DOMAIN pending[h][s] :
       pending[h][s][i].clientSeq = n => pending[h][s][i].action = a

IsWrite(m) == m.kind = "dispatchAction"
IsWriteOf(m, a) == IsWrite(m) /\ m.action = a
IsEcho(m, c) ==
  m.kind = "action" /\ m.envelope.origin # NoOrigin /\ m.envelope.origin.client = c

OwnInv ==
  \A h \in Handler : Root \notin Serves[h] =>
    /\ \A m \in ToServer : Has(c2s[ClientOf[h]], m) /\ IsWrite(m) => Fits(h, m.action, m.clientSeq)
    /\ \A m \in ToClient : Has(s2c[ClientOf[h]], m) /\ IsEcho(m, ClientOf[h]) =>
         Fits(h, m.envelope.action, m.envelope.origin.clientSeq)

(* A session for which the connection gets no snapshot any more.           *)
Past(c, s) ==
  \/ link[c] # "open"
  \/ /\ phase[s] # "none" /\ ~HasSnapshot(s2c[c], s)
     /\ phase[s] # "live" \/ Disposed(c2s[c], s)

PastInv ==
  /\ \A h \in Handler, s \in Session :
       Waits(h, s) \/ view[h][s] = "open" =>
         s \in subscribedSessions[h] \/ Past(ClientOf[h], s)
  /\ \A c \in Client, s \in Session : \A m \in ToClient :
       Has(s2c[c], m) /\ m.kind = "notFound" /\ m.resource = s => phase[s] = "removed"

(* A chat request waits for a turn that its handler is about to start, or  *)
(* that the server has started.                                            *)
Started(st, s, t) == \E i \in DOMAIN st.entries : st.entries[i].action = ActionOf("turnStarted", s, t)
Starts(pend, s, t) ==
  pend # <<>> /\ pend[Len(pend)].action = ActionOf("turnStarted", s, t)

RunInv ==
  \A h \in Handler, s \in Session :
    s \in subscribedSessions[h] /\ running[h][s] # NoTurn =>
      Started(confirmed[h][s], s, running[h][s]) \/ Starts(pending[h][s], s, running[h][s])

RebaseInv == optimistic \in [Handler -> [Resource -> State]] /\ OptimisticIsRebased
----------------------------------------------------------------------------
(* Queues and pending actions                                              *)

LEMMA HasTail ==
  ASSUME NEW S, NEW q \in Seq(S), q # <<>>
  PROVE  /\ Has(q, Head(q)) /\ \A x : Has(Tail(q), x) => Has(q, x)
         /\ \A x : Has(q, x) => x = Head(q) \/ Has(Tail(q), x)
<1> DEFINE t == Tail(q)
<1>1. /\ Len(q) \in Nat /\ DOMAIN q = 1 .. Len(q) /\ DOMAIN t = 1 .. Len(q) - 1
      /\ Head(q) = q[1] /\ 1 \in DOMAIN q
      /\ \A i \in DOMAIN t : i + 1 \in DOMAIN q /\ t[i] = q[i + 1]
  BY TailIs
<1> HIDE DEF t
<1>2. \A x : Has(t, x) => Has(q, x)
  BY <1>1 DEF Has
<1>3. ASSUME NEW i \in DOMAIN q, i # 1
      PROVE  Has(t, q[i])
  <2>1. i - 1 \in DOMAIN t /\ i - 1 + 1 = i
    BY <1>1, <1>3
  <2>2. t[i - 1] = q[i]
    BY <1>1, <2>1
  <2> QED
    BY <2>1, <2>2 DEF Has
<1>4. \A x : Has(q, x) => x = Head(q) \/ Has(t, x)
  BY <1>1, <1>3 DEF Has
<1> QED
  BY <1>1, <1>2, <1>4 DEF Has, t

LEMMA HasAppend ==
  ASSUME NEW S, NEW q \in Seq(S), NEW m \in S
  PROVE  \A x : Has(Append(q, m), x) <=> Has(q, x) \/ x = m
<1> DEFINE a == Append(q, m)
<1>1. /\ DOMAIN q = 1 .. Len(q) /\ DOMAIN a = 1 .. Len(q) + 1 /\ Len(q) \in Nat
      /\ \A i \in DOMAIN q : a[i] = q[i]
      /\ a[Len(q) + 1] = m
  BY AppendIs
<1>2. Len(q) + 1 \in DOMAIN a /\ \A i \in DOMAIN a : i \in DOMAIN q \/ i = Len(q) + 1
  BY <1>1
<1> HIDE DEF a
<1>3. \A x : Has(a, x) <=> Has(q, x) \/ x = m
  BY <1>1, <1>2 DEF Has
<1> QED
  BY <1>3 DEF a

\* Dropping number n takes out one action of that number, if there is one.
LEMMA DropIs ==
  ASSUME NEW pend \in Seq(PendingAction), NEW n
  PROVE  \/ DropPending(pend, n) = pend /\ \A i \in DOMAIN pend : pend[i].clientSeq # n
         \/ \E i \in DOMAIN pend :
              /\ pend[i].clientSeq = n
              /\ DropPending(pend, n) \in Seq(PendingAction)
              /\ Len(DropPending(pend, n)) = Len(pend) - 1
              /\ \A j \in 1 .. Len(pend) - 1 :
                   DropPending(pend, n)[j] = IF j < i THEN pend[j] ELSE pend[j + 1]
<1>1. CASE \E i \in DOMAIN pend : pend[i].clientSeq = n
  <2> DEFINE k == CHOOSE i \in DOMAIN pend : pend[i].clientSeq = n
  <2>1. k \in DOMAIN pend /\ pend[k].clientSeq = n
    BY <1>1
  <2>2. DropPending(pend, n) = SubSeq(pend, 1, k - 1) \o SubSeq(pend, k + 1, Len(pend))
    BY <1>1 DEF DropPending, RemoveAt
  <2> HIDE DEF k
  <2>3. k \in 1 .. Len(pend) /\ Len(pend) \in Nat
    BY <2>1
  <2> DEFINE a == SubSeq(pend, 1, k - 1)
             b == SubSeq(pend, k + 1, Len(pend))
  <2>4. /\ a \in Seq(PendingAction) /\ Len(a) = k - 1 /\ \A j \in 1 .. k - 1 : a[j] = pend[j]
        /\ b \in Seq(PendingAction) /\ Len(b) = Len(pend) - k
        /\ \A j \in 1 .. Len(pend) - k : b[j] = pend[k + j]
    <3>1. Len(a) = k - 1 /\ \A j \in 1 .. k - 1 : a[j] = pend[j]
      BY <2>3, SubSeqProperties
    <3>2. Len(b) = Len(pend) - k /\ \A j \in 1 .. Len(pend) - k : b[j] = pend[k + j]
      BY <2>3, SubSeqProperties
    <3>3. a \in Seq(PendingAction) /\ b \in Seq(PendingAction)
      BY <2>3, SubSeqProperties
    <3> QED
      BY <3>1, <3>2, <3>3
  <2> HIDE DEF a, b
  <2>5. /\ a \o b \in Seq(PendingAction) /\ Len(a \o b) = Len(pend) - 1
        /\ \A j \in 1 .. Len(pend) - 1 : (a \o b)[j] = IF j < k THEN pend[j] ELSE pend[j + 1]
    <3>1. a \o b \in Seq(PendingAction) /\ Len(a \o b) = Len(pend) - 1
      <4>1. a \in Seq(PendingAction) /\ b \in Seq(PendingAction)
        BY <2>4
      <4>2. a \o b \in Seq(PendingAction) /\ Len(a \o b) = Len(a) + Len(b)
        BY <4>1
      <4> QED
        BY <2>3, <2>4, <4>2
    <3>2. ASSUME NEW j \in 1 .. Len(pend) - 1
          PROVE  (a \o b)[j] = IF j < k THEN pend[j] ELSE pend[j + 1]
      <4>1. CASE j < k
        BY <2>3, <2>4, <4>1
      <4>2. CASE ~(j < k)
        <5>1. j - (k - 1) \in 1 .. Len(pend) - k /\ k + (j - (k - 1)) = j + 1
          BY <2>3, <4>2
        <5>2. (a \o b)[j] = b[j - (k - 1)]
          BY <2>3, <2>4, <4>2
        <5> QED
          BY <2>4, <4>2, <5>1, <5>2
      <4> QED
        BY <4>1, <4>2
    <3> QED
      BY <3>1, <3>2
  <2> QED
    BY <2>1, <2>2, <2>5 DEF a, b
<1>2. CASE ~\E i \in DOMAIN pend : pend[i].clientSeq = n
  BY <1>2 DEF DropPending
<1> QED
  BY <1>1, <1>2

\* What is left was there, in other places; what has another number is left.
Leaves(pend, n, d) ==
  /\ d \in Seq(PendingAction)
  /\ \A j \in DOMAIN d : \E k \in DOMAIN pend : d[j] = pend[k]
  /\ \A i, j \in DOMAIN d : i # j =>
       \E k, l \in DOMAIN pend : k # l /\ d[i] = pend[k] /\ d[j] = pend[l]
  /\ \A k \in DOMAIN pend : pend[k].clientSeq # n => Has(d, pend[k])
  /\ pend # <<>> /\ pend[Len(pend)].clientSeq # n => d # <<>> /\ d[Len(d)] = pend[Len(pend)]
  /\ (\A i, j \in DOMAIN pend : pend[i].clientSeq = pend[j].clientSeq => i = j) =>
       \A j \in DOMAIN d : d[j].clientSeq # n

LEMMA DropKeeps ==
  ASSUME NEW pend \in Seq(PendingAction), NEW n, NEW d, d = DropPending(pend, n)
  PROVE  Leaves(pend, n, d)
<1>1. CASE d = pend /\ \A i \in DOMAIN pend : pend[i].clientSeq # n
  BY <1>1 DEF Has, Leaves
<1>2. ASSUME NEW p \in DOMAIN pend, pend[p].clientSeq = n, d \in Seq(PendingAction),
             Len(d) = Len(pend) - 1,
             \A j \in 1 .. Len(pend) - 1 : d[j] = IF j < p THEN pend[j] ELSE pend[j + 1]
      PROVE  /\ \A j \in DOMAIN d : \E k \in DOMAIN pend : d[j] = pend[k]
             /\ \A i, j \in DOMAIN d : i # j =>
                  \E k, l \in DOMAIN pend : k # l /\ d[i] = pend[k] /\ d[j] = pend[l]
             /\ \A k \in DOMAIN pend : pend[k].clientSeq # n => Has(d, pend[k])
             /\ pend # <<>> /\ pend[Len(pend)].clientSeq # n =>
                  d # <<>> /\ d[Len(d)] = pend[Len(pend)]
             /\ (\A i, j \in DOMAIN pend : pend[i].clientSeq = pend[j].clientSeq => i = j) =>
                  \A j \in DOMAIN d : d[j].clientSeq # n
  <2> DEFINE at == [j \in DOMAIN d |-> IF j < p THEN j ELSE j + 1]
  <2>1. /\ Len(pend) \in Nat /\ p \in 1 .. Len(pend) /\ DOMAIN pend = 1 .. Len(pend)
        /\ DOMAIN d = 1 .. Len(pend) - 1
    BY <1>2
  <2>2. \A j \in DOMAIN d : at[j] \in DOMAIN pend /\ at[j] # p /\ d[j] = pend[at[j]]
    BY <1>2, <2>1
  <2>3. \A i, j \in DOMAIN d : i # j => at[i] # at[j]
    BY <2>1
  <2>4. ASSUME NEW k \in DOMAIN pend, k # p
        PROVE  Has(d, pend[k])
    <3>1. CASE k < p
      <4>1. k \in DOMAIN d /\ d[k] = pend[k]
        BY <1>2, <2>1, <3>1
      <4> QED
        BY <4>1 DEF Has
    <3>2. CASE p < k
      <4>1. k - 1 \in DOMAIN d /\ ~(k - 1 < p) /\ k - 1 + 1 = k
        BY <2>1, <3>2
      <4>2. d[k - 1] = pend[k]
        BY <1>2, <2>1, <4>1
      <4> QED
        BY <4>1, <4>2 DEF Has
    <3> QED
      BY <2>1, <2>4, <3>1, <3>2
  <2>5. ASSUME pend[Len(pend)].clientSeq # n
        PROVE  d # <<>> /\ d[Len(d)] = pend[Len(pend)]
    <3>1. p # Len(pend)
      BY <1>2, <2>5
    <3>2. /\ Len(pend) - 1 \in 1 .. Len(pend) - 1 /\ ~(Len(pend) - 1 < p)
          /\ Len(pend) - 1 + 1 = Len(pend)
      BY <2>1, <3>1
    <3> QED
      BY <1>2, <2>1, <3>2
  <2> HIDE DEF at
  <2>6. /\ \A j \in DOMAIN d : \E k \in DOMAIN pend : d[j] = pend[k]
        /\ \A i, j \in DOMAIN d : i # j =>
             \E k, l \in DOMAIN pend : k # l /\ d[i] = pend[k] /\ d[j] = pend[l]
    BY <2>2, <2>3
  <2>7. \A k \in DOMAIN pend : pend[k].clientSeq # n => Has(d, pend[k])
    BY <1>2, <2>4
  <2>8. (\A i, j \in DOMAIN pend : pend[i].clientSeq = pend[j].clientSeq => i = j) =>
          \A j \in DOMAIN d : d[j].clientSeq # n
    BY <1>2, <2>2
  <2> QED
    BY <2>5, <2>6, <2>7, <2>8
<1>3. d \in Seq(PendingAction)
  BY DropIs
<1> QED
  BY <1>1, <1>2, <1>3, DropIs DEF Leaves

----------------------------------------------------------------------------
(* What a step does to the queues and to what the handlers have            *)

Quiet == UNCHANGED <<sync, running, usedTurns>>

\* A handler writes action a of session s ahead of the server.
Writes(h, s, a) ==
  /\ a \in SessionAction /\ a.resource = s
  /\ \/ a.type = "turnStarted" /\ StartTurn(h, s, a.turn)
     \/ a.type = "turnCancelled" /\ CancelTurn(h, s) /\ a.turn = running[h][s]

\* No write is added to the queue, and none is there twice that was not.
WritesOnce(q, a) == \A i, j \in DOMAIN q : IsWriteOf(q[i], a) /\ IsWriteOf(q[j], a) => i = j
NoNewWrite(q, p) ==
  /\ \A m : IsWrite(m) /\ Has(p, m) => Has(q, m)
  /\ \A a : WritesOnce(q, a) => WritesOnce(p, a)

\* A message that brings no action on a session; a copy made for a subscriber.
Aside(m) ==
  /\ m.kind = "action" => m.envelope.action.resource = Root /\ m.envelope.origin = NoOrigin
  /\ m.kind = "notFound" => ~Live(m.resource) /\ ~Unborn(m.resource)
  /\ m.kind # "snapshot"

EnvelopeMessage(env) == [kind |-> "action", envelope |-> env]
IsCopy(c, m) ==
  /\ HandleSubscribe(c) /\ Head(c2s[c]).resource = m.resource /\ Live(m.resource)
  /\ m.kind = "snapshot" /\ m.resource \in Resource
  /\ m.state = state[m.resource] /\ m.fromSeq = serverSeq

\* The step numbers no action on a session, or it numbers a.
Silence ==
  /\ \A c \in Client : \A m : Has(s2c'[c], m) => Has(s2c[c], m) \/ Aside(m) \/ IsCopy(c, m)
  /\ \A r \in Resource : \A e : Has(state'[r].entries, e) => Has(state[r].entries, e)
Emission(a, origin) ==
  \E env \in Envelope :
    /\ env.action = a /\ env.origin = origin /\ serverSeq < env.serverSeq
    /\ \A c \in Client : \A m : Has(s2c'[c], m) =>
         Has(s2c[c], m) \/ Aside(m) \/ m = EnvelopeMessage(env)
    /\ \A r \in Resource : \A e : Has(state'[r].entries, e) =>
         \/ Has(state[r].entries, e)
         \/ r = Root /\ e.action.resource = Root
         \/ r = env.action.resource /\ e = EnvelopeEntry(env)

LEMMA Written ==
  ASSUME TypeOK, NEW h \in Handler, NEW s \in Session,
         CancelTurn(h, s) \/ \E t \in Turn : StartTurn(h, s, t)
  PROVE  \E a \in SessionAction : Writes(h, s, a)
<1>1. CASE CancelTurn(h, s)
  <2>1. running[h][s] \in Turn
    BY <1>1 DEF CancelTurn, TypeOK
  <2>2. PICK a \in SessionAction : a = ActionOf("turnCancelled", s, running[h][s])
    BY <2>1, ActionTypes DEF TurnEnd
  <2> QED
    BY <1>1, <2>2 DEF Writes, ActionOf
<1>2. ASSUME NEW t \in Turn, StartTurn(h, s, t)
      PROVE  \E a \in SessionAction : Writes(h, s, a)
  <2>1. PICK a \in SessionAction : a = ActionOf("turnStarted", s, t)
    BY ActionTypes
  <2> QED
    BY <1>2, <2>1 DEF Writes, ActionOf
<1> QED
  BY <1>1, <1>2

LEMMA ClientStep ==
  ASSUME TypeOK, [Next]_vars
  PROVE  \/ Quiet
         \/ \E c \in Client : HandleSnapshot(c) \/ ReceiveEnvelope(c)
         \/ \E h \in Handler, s \in Session : CloseSession(h, s) \/ \E a : Writes(h, s, a)
<1>1. ASSUME NEW c \in Client, HandleMessage(c) \/ Connect(c) \/ Disconnect(c) \/ HandleClose(c)
      PROVE  Quiet
  BY <1>1 DEF Quiet, HandleMessage, HandleInitialize, HandleSubscribe, HandleUnsubscribe,
     HandleDispatchAction, HandleCreateSession, HandleDisposeSession, Connect, Disconnect,
     HandleClose, chat
<1>2. ASSUME NEW c \in Client,
             Initialized(c) \/ SessionCreateReturns(c) \/ SessionCreateThrows(c) \/ SubscribeFails(c)
      PROVE  Quiet
  BY <1>2 DEF Quiet, Initialized, SessionCreateReturns, SessionCreateThrows, SubscribeFails, chat
<1>3. ASSUME NEW p \in creating, SessionCreated(p) \/ SessionCreationFails(p)
      PROVE  Quiet
  BY <1>3 DEF Quiet, SessionCreated, SessionCreationFails, chat
<1>4. ASSUME NEW s \in Session, AgentIdle(s)
      PROVE  Quiet
  BY <1>4 DEF Quiet, AgentIdle, chat
<1>5. ASSUME NEW h \in Handler, NEW r \in Resource, OpenExisting(h, r)
      PROVE  Quiet
  BY <1>5 DEF Quiet, OpenExisting
<1>6. ASSUME NEW h \in Handler, NEW s \in Session, CreateSession(h, s)
      PROVE  Quiet
  BY <1>6 DEF Quiet, CreateSession
<1>7. ASSUME NEW h \in Handler, NEW s \in Session,
             CancelTurn(h, s) \/ \E t \in Turn : StartTurn(h, s, t)
      PROVE  \E a : Writes(h, s, a)
  BY <1>7, Written
<1>8. CASE UNCHANGED vars
  BY <1>8 DEF Quiet, vars, chat
<1> QED
  BY <1>1, <1>2, <1>3, <1>4, <1>5, <1>6, <1>7, <1>8 DEF Next, ReceiveMessage

\* What a write does: pending action p, sent in message m.
WritesAs(h, s, a, p, m) ==
  /\ a \in SessionAction /\ a.resource = s /\ a.turn \in Turn
  /\ a = ActionOf(a.type, s, a.turn) /\ a.type \in {"turnStarted", "turnCancelled"}
  /\ link[ClientOf[h]] = "open" /\ Dispatch(h, a)
  /\ UNCHANGED <<server, handler, s2c, link, subscribedSessions, confirmed,
                 lastSeenServerSeq, view>>
  /\ p.clientSeq = nextClientSeq[h] /\ p.action = a
  /\ \A g \in Handler, x \in Session :
       /\ pending'[g][x] = IF g = h /\ x = s THEN Append(pending[h][s], p) ELSE pending[g][x]
       /\ running'[g][x] = IF g = h /\ x = s
                           THEN IF a.type = "turnStarted" THEN a.turn ELSE NoTurn
                           ELSE running[g][x]
  /\ \A g \in Handler : nextClientSeq'[g] = IF g = h THEN nextClientSeq[h] + 1
                                            ELSE nextClientSeq[g]
  /\ m.kind = "dispatchAction" /\ m.clientSeq = nextClientSeq[h] /\ m.action = a
  /\ \A c \in Client : c2s'[c] = IF c = ClientOf[h] THEN Append(c2s[c], m) ELSE c2s[c]

LEMMA WritesAre ==
  ASSUME TypeOK, NEW h \in Handler, NEW s \in Session, NEW a, Writes(h, s, a)
  PROVE  \E p \in PendingAction, m \in ToServer : WritesAs(h, s, a, p, m)
<1>1. a \in SessionAction /\ a.resource = s
  BY DEF Writes
<1>2. a.turn \in Turn /\ a.type \in {"turnStarted", "turnCancelled"} /\ a.count = 0
  BY DEF Writes, SessionAction, TurnEnd
<1>3. a = ActionOf(a.type, s, a.turn)
  BY <1>1, <1>2 DEF SessionAction, ActionOf, TurnEnd
<1>4. /\ link[ClientOf[h]] = "open" /\ Dispatch(h, a)
      /\ running' = [running EXCEPT ![h][s] = IF a.type = "turnStarted" THEN a.turn ELSE NoTurn]
      /\ UNCHANGED <<server, handler, s2c, link, subscribedSessions, confirmed,
                     lastSeenServerSeq, view>>
  <2>1. CASE a.type = "turnStarted" /\ StartTurn(h, s, a.turn)
    BY <1>3, <2>1 DEF StartTurn
  <2>2. CASE a.type = "turnCancelled" /\ CancelTurn(h, s) /\ a.turn = running[h][s]
    BY <1>3, <2>2 DEF CancelTurn
  <2> QED
    BY <2>1, <2>2 DEF Writes
<1>5. PICK p \in PendingAction : p = [clientSeq |-> nextClientSeq[h], action |-> a]
  BY <1>1 DEF PendingAction, TypeOK
<1>6. PICK m \in ToServer :
        m = [kind |-> "dispatchAction", action |-> a, clientSeq |-> nextClientSeq[h]]
  BY <1>1 DEF ToServer, TypeOK
<1>7. \A g \in Handler, x \in Session :
        /\ pending'[g][x] = IF g = h /\ x = s THEN Append(pending[h][s], p) ELSE pending[g][x]
        /\ running'[g][x] = IF g = h /\ x = s
                            THEN IF a.type = "turnStarted" THEN a.turn ELSE NoTurn
                            ELSE running[g][x]
  BY <1>1, <1>4, <1>5 DEF Dispatch, TypeOK
<1>8. \A c \in Client : c2s'[c] = IF c = ClientOf[h] THEN Append(c2s[c], m) ELSE c2s[c]
  <2>1. \A c \in Client : c2s[c] \o <<m>> = Append(c2s[c], m)
    BY ConcatIs DEF TypeOK
  <2> QED
    BY <1>4, <1>6, <2>1 DEF Dispatch, Send, TypeOK
<1>9. \A g \in Handler : nextClientSeq'[g] = IF g = h THEN nextClientSeq[h] + 1 ELSE nextClientSeq[g]
  BY <1>4 DEF Dispatch, TypeOK
<1>10. WritesAs(h, s, a, p, m)
  BY <1>1, <1>2, <1>3, <1>4, <1>5, <1>6, <1>7, <1>8, <1>9 DEF WritesAs
<1> QED
  BY <1>10

LEMMA WriteTaken ==
  ASSUME NEW q \in Seq(ToServer), q # <<>>
  PROVE  NoNewWrite(q, Tail(q))
<1>1. \A m : Has(Tail(q), m) => Has(q, m)
  BY HasTail
<1>2. ASSUME NEW a, WritesOnce(q, a), NEW i \in DOMAIN Tail(q), NEW j \in DOMAIN Tail(q),
             IsWriteOf(Tail(q)[i], a), IsWriteOf(Tail(q)[j], a)
      PROVE  i = j
  <2>1. /\ i \in Nat /\ j \in Nat /\ i + 1 \in DOMAIN q /\ j + 1 \in DOMAIN q
        /\ Tail(q)[i] = q[i + 1] /\ Tail(q)[j] = q[j + 1]
    BY TailIs
  <2>2. i + 1 = j + 1
    BY <1>2, <2>1 DEF WritesOnce
  <2> QED
    BY <2>1, <2>2
<1> QED
  BY <1>1, <1>2 DEF NoNewWrite, WritesOnce

LEMMA OtherQueued ==
  ASSUME NEW q \in Seq(ToServer), NEW m \in ToServer, ~IsWrite(m)
  PROVE  NoNewWrite(q, Append(q, m))
<1> DEFINE p == Append(q, m)
<1>1. /\ DOMAIN q = 1 .. Len(q) /\ DOMAIN p = 1 .. Len(q) + 1 /\ Len(q) \in Nat
      /\ \A i \in DOMAIN q : p[i] = q[i]
      /\ p[Len(q) + 1] = m
  BY AppendIs
<1> HIDE DEF p
<1>2. \A i \in DOMAIN p : IsWrite(p[i]) => i \in DOMAIN q /\ p[i] = q[i]
  BY <1>1
<1>3. NoNewWrite(q, p)
  BY <1>2 DEF NoNewWrite, Has, WritesOnce, IsWriteOf
<1> QED
  BY <1>3 DEF p

\* What a step does to the queue of a client to the server, if nobody writes.
QueueMoves(c) ==
  \/ c2s'[c] = c2s[c]
  \/ HandleMessage(c) /\ c2s[c] # <<>> /\ c2s'[c] = Tail(c2s[c])
  \/ \E m \in ToServer : ~IsWrite(m) /\ c2s'[c] = Append(c2s[c], m)
  \/ \E a, b \in ToServer :
       ~IsWrite(a) /\ ~IsWrite(b) /\ c2s'[c] = Append(Append(c2s[c], a), b)
  \/ link[c] = "closed" /\ c2s'[c] = <<>>

LEMMA QueueStep ==
  ASSUME TypeOK, [Next]_vars
  PROVE  \/ \A c \in Client : QueueMoves(c)
         \/ \E h \in Handler, s \in Session, a \in SessionAction : Writes(h, s, a)
<1> DEFINE Moves == \A c \in Client : QueueMoves(c)
<1>1. c2s \in [Client -> Seq(ToServer)]
  BY DEF TypeOK
<1>2. ASSUME NEW c \in Client, NEW kind, Handling(c, kind), HandleMessage(c)
      PROVE  Moves
  <2>1. c2s[c] # <<>> /\ \A d \in Client : c2s'[d] = IF d = c THEN Tail(c2s[c]) ELSE c2s[d]
    BY <1>1, <1>2 DEF Handling
  <2> QED
    BY <1>2, <2>1 DEF QueueMoves
<1>3. ASSUME NEW c \in Client, NEW m \in ToServer, ~IsWrite(m), Send(c, <<m>>)
      PROVE  Moves
  <2>1. c2s[c] \o <<m>> = Append(c2s[c], m)
    BY <1>1, ConcatIs
  <2>2. \A d \in Client : c2s'[d] = IF d = c THEN Append(c2s[c], m) ELSE c2s[d]
    BY <1>1, <1>3, <2>1 DEF Send
  <2> QED
    BY <1>3, <2>2 DEF QueueMoves
<1>4. ASSUME UNCHANGED c2s
      PROVE  Moves
  BY <1>4 DEF QueueMoves
<1>5. ASSUME NEW c \in Client, HandleMessage(c)
      PROVE  Moves
  <2>1. \E kind : Handling(c, kind)
    BY <1>5 DEF HandleMessage, HandleInitialize, HandleSubscribe, HandleUnsubscribe,
       HandleDispatchAction, HandleCreateSession, HandleDisposeSession
  <2> QED
    BY <1>2, <1>5, <2>1
<1>6. ASSUME NEW c \in Client, Connect(c)
      PROVE  Moves
  <2>1. PICK m \in ToServer : m = [kind |-> "initialize"]
    BY DEF ToServer
  <2> QED
    BY <1>3, <1>6, <2>1 DEF Connect, IsWrite
<1>7. ASSUME NEW c \in Client, SessionCreateReturns(c)
      PROVE  Moves
  <2>1. Head(s2c[c]).resource \in Resource /\ Head(s2c[c]).handler \in Handler
    <3>1. Head(s2c[c]) \in ToClient /\ Head(s2c[c]).kind = "created"
      BY <1>7, HeadOfS2C DEF SessionCreateReturns, Receiving
    <3> QED
      BY <3>1 DEF ToClient, Resource
  <2>2. PICK m \in ToServer : m = [kind |-> "subscribe", resource |-> Head(s2c[c]).resource,
                                   handler |-> Head(s2c[c]).handler]
    BY <2>1 DEF ToServer
  <2> QED
    BY <1>3, <1>7, <2>2 DEF SessionCreateReturns, IsWrite
<1>8. ASSUME NEW c \in Client, HandleClose(c)
      PROVE  Moves
  <2>1. \A d \in Client : c2s'[d] = c2s[d] \/ (link[d] = "closed" /\ c2s'[d] = <<>>)
    BY <1>1, <1>8 DEF HandleClose
  <2> QED
    BY <2>1 DEF QueueMoves
<1>9. ASSUME NEW h \in Handler, NEW r \in Resource, OpenExisting(h, r)
      PROVE  Moves
  <2>1. PICK m \in ToServer : m = [kind |-> "subscribe", resource |-> r, handler |-> h]
    BY DEF ToServer
  <2> QED
    BY <1>3, <1>9, <2>1 DEF OpenExisting, IsWrite
<1>10. ASSUME NEW h \in Handler, NEW s \in Session, CreateSession(h, s)
       PROVE  Moves
  <2>1. PICK m \in ToServer : m = [kind |-> "createSession", resource |-> s, handler |-> h]
    BY DEF ToServer
  <2> QED
    BY <1>3, <1>10, <2>1 DEF CreateSession, IsWrite
<1>11. ASSUME NEW h \in Handler, NEW s \in Session, CloseSession(h, s)
       PROVE  Moves
  <2>1. PICK a \in ToServer, b \in ToServer : /\ a = [kind |-> "unsubscribe", resource |-> s]
                                              /\ b = [kind |-> "disposeSession", resource |-> s]
    BY DEF ToServer
  <2>2. PICK c \in Client : c = ClientOf[h]
    OBVIOUS
  <2>3. c2s[c] \o <<a, b>> = Append(Append(c2s[c], a), b)
    BY <1>1, ConcatIs
  <2>4. \A d \in Client : c2s'[d] = IF d = c THEN Append(Append(c2s[c], a), b) ELSE c2s[d]
    BY <1>1, <1>11, <2>1, <2>2, <2>3 DEF CloseSession, Send
  <2>5. ~IsWrite(a) /\ ~IsWrite(b)
    BY <2>1 DEF IsWrite
  <2> QED
    BY <2>4, <2>5 DEF QueueMoves
<1>12. ASSUME NEW c \in Client, Disconnect(c) \/ Initialized(c) \/ SessionCreateThrows(c)
                                \/ HandleSnapshot(c) \/ SubscribeFails(c) \/ ReceiveEnvelope(c)
       PROVE  Moves
  BY <1>4, <1>12 DEF Disconnect, Initialized, SessionCreateThrows, HandleSnapshot, SubscribeFails,
     ReceiveEnvelope
<1>13. ASSUME NEW p \in creating, SessionCreated(p) \/ SessionCreationFails(p)
       PROVE  Moves
  BY <1>4, <1>13 DEF SessionCreated, SessionCreationFails
<1>14. ASSUME NEW s \in Session, AgentIdle(s)
       PROVE  Moves
  BY <1>4, <1>14 DEF AgentIdle
<1>15. ASSUME NEW h \in Handler, NEW s \in Session,
              CancelTurn(h, s) \/ \E t \in Turn : StartTurn(h, s, t)
       PROVE  \E a \in SessionAction : Writes(h, s, a)
  BY <1>15, Written
<1>16. CASE UNCHANGED vars
  BY <1>4, <1>16 DEF vars, net
<1> QED
  BY <1>5, <1>6, <1>7, <1>8, <1>9, <1>10, <1>11, <1>12, <1>13, <1>14, <1>15, <1>16
     DEF Next, ReceiveMessage

LEMMA UpStep ==
  ASSUME TypeOK, [Next]_vars
  PROVE  \/ \A c \in Client : NoNewWrite(c2s[c], c2s'[c])
         \/ \E h \in Handler, s \in Session, a \in SessionAction : Writes(h, s, a)
<1>1. ASSUME NEW c \in Client, QueueMoves(c)
      PROVE  NoNewWrite(c2s[c], c2s'[c])
  <2>1. c2s[c] \in Seq(ToServer)
    BY DEF TypeOK
  <2>2. CASE c2s'[c] = c2s[c]
    BY <2>2 DEF NoNewWrite
  <2>3. CASE c2s[c] # <<>> /\ c2s'[c] = Tail(c2s[c])
    BY <2>1, <2>3, WriteTaken
  <2>4. ASSUME NEW m \in ToServer, ~IsWrite(m), c2s'[c] = Append(c2s[c], m)
        PROVE  NoNewWrite(c2s[c], c2s'[c])
    BY <2>1, <2>4, OtherQueued
  <2>5. ASSUME NEW a \in ToServer, NEW b \in ToServer, ~IsWrite(a), ~IsWrite(b),
               c2s'[c] = Append(Append(c2s[c], a), b)
        PROVE  NoNewWrite(c2s[c], c2s'[c])
    <3>1. Append(c2s[c], a) \in Seq(ToServer) /\ NoNewWrite(c2s[c], Append(c2s[c], a))
      BY <2>1, <2>5, AppendIs, OtherQueued
    <3>2. NoNewWrite(Append(c2s[c], a), Append(Append(c2s[c], a), b))
      BY <2>5, <3>1, OtherQueued
    <3> QED
      BY <2>5, <3>1, <3>2 DEF NoNewWrite
  <2>6. CASE c2s'[c] = <<>>
    BY <2>6 DEF NoNewWrite, Has, WritesOnce
  <2> QED
    BY <1>1, <2>2, <2>3, <2>4, <2>5, <2>6 DEF QueueMoves
<1> QED
  BY <1>1, QueueStep

\* A queue of messages that grows, or stays.
LEMMA GrowsHas ==
  ASSUME NEW q \in Seq(ToClient), NEW m \in ToClient, NEW p, p = q \/ p = Append(q, m)
  PROVE  \A x : Has(p, x) => Has(q, x) \/ x = m
<1>1. \A x : Has(Append(q, m), x) <=> Has(q, x) \/ x = m
  BY HasAppend
<1> QED
  BY <1>1

LEMMA EntriesHas ==
  ASSUME NEW q \in Seq(Entry), NEW e \in Entry
  PROVE  \A x : Has(Append(q, e), x) <=> Has(q, x) \/ x = e
BY HasAppend

\* An envelope is all that an emission adds.
Adds(q, st, env, q2, st2) ==
  /\ \A c \in Client : \A m : Has(q2[c], m) => Has(q[c], m) \/ m = EnvelopeMessage(env)
  /\ \A r \in Resource : \A e : Has(st2[r].entries, e) =>
       Has(st[r].entries, e) \/ (r = env.action.resource /\ e = EnvelopeEntry(env))

LEMMA EmitsHas ==
  ASSUME NEW q \in ClientQueues, NEW st \in [Resource -> State], NEW n, NEW env, NEW q2, NEW st2,
         Emits(q, st, n, env, q2, st2)
  PROVE  Adds(q, st, env, q2, st2)
<1>1. env \in Envelope /\ q2 = Deliver(q, env)
  BY DEF Emits
<1>2. PICK m \in ToClient : m = EnvelopeMessage(env)
  BY <1>1 DEF EnvelopeMessage, ToClient
<1>3. \A c \in Client : q[c] \in Seq(ToClient) /\ (q2[c] = q[c] \/ q2[c] = Append(q[c], m))
  BY <1>1, <1>2, DeliverIs DEF EnvelopeMessage, ClientQueues
<1>4. \A c \in Client : \A x : Has(q2[c], x) => Has(q[c], x) \/ x = m
  <2> TAKE c \in Client
  <2>1. q[c] \in Seq(ToClient) /\ (q2[c] = q[c] \/ q2[c] = Append(q[c], m))
    BY <1>3
  <2> QED
    BY <2>1, GrowsHas
<1>5. EnvelopeEntry(env) \in Entry /\ \A r \in Resource : st[r].entries \in Seq(Entry)
  <2>1. EnvelopeEntry(env) \in Entry
    BY <1>1 DEF EnvelopeEntry, Envelope, Entry
  <2> QED
    BY <2>1 DEF State
<1>6. \A r \in Resource : \/ st2[r].entries = st[r].entries
                          \/ /\ r = env.action.resource
                             /\ st2[r].entries = Append(st[r].entries, EnvelopeEntry(env))
  BY DEF Emits
<1>7. \A r \in Resource : \A e : Has(st2[r].entries, e) =>
        Has(st[r].entries, e) \/ (r = env.action.resource /\ e = EnvelopeEntry(env))
  <2> TAKE r \in Resource
  <2>1. \A e : Has(Append(st[r].entries, EnvelopeEntry(env)), e) <=>
          Has(st[r].entries, e) \/ e = EnvelopeEntry(env)
    BY <1>5, EntriesHas
  <2> QED
    BY <1>6, <2>1
<1> QED
  BY <1>2, <1>4, <1>7 DEF Adds

LEMMA EmitHas ==
  ASSUME TypeOK, NEW a \in SessionAction, NEW origin \in Origin, Emit(s2c, a, origin)
  PROVE  Emission(a, origin)
<1>1. s2c \in ClientQueues /\ state \in [Resource -> State] /\ serverSeq \in Nat
  BY DEF TypeOK, ClientQueues
<1>2. ASSUME NEW env \in Envelope, env.action = a, env.origin = origin,
             Emits(s2c, state, serverSeq, env, s2c', state')
      PROVE  Emission(a, origin)
  <2>1. Adds(s2c, state, env, s2c', state')
    BY <1>1, <1>2, EmitsHas
  <2>2. serverSeq < env.serverSeq
    BY <1>1, <1>2 DEF Emits
  <2> QED
    BY <1>2, <2>1, <2>2 DEF Emission, Adds
<1>3. ASSUME NEW rootEnv \in Envelope, NEW env \in Envelope, NEW q \in ClientQueues,
             NEW st \in [Resource -> State], env.action = a, env.origin = origin,
             rootEnv.action.resource = Root, rootEnv.origin = NoOrigin,
             Emits(s2c, state, serverSeq, rootEnv, q, st),
             Emits(q, st, serverSeq + 1, env, s2c', state')
      PROVE  Emission(a, origin)
  <2>1. Adds(s2c, state, rootEnv, q, st) /\ Adds(q, st, env, s2c', state')
    BY <1>1, <1>3, EmitsHas
  <2>2. Aside(EnvelopeMessage(rootEnv)) /\ EnvelopeEntry(rootEnv).action.resource = Root
    BY <1>3 DEF Aside, EnvelopeMessage, EnvelopeEntry
  <2>3. serverSeq < env.serverSeq
    BY <1>1, <1>3 DEF Emits
  <2>4. \A c \in Client : \A m : Has(s2c'[c], m) =>
          Has(s2c[c], m) \/ Aside(m) \/ m = EnvelopeMessage(env)
    BY <2>1, <2>2 DEF Adds
  <2>5. ASSUME NEW r \in Resource, NEW e, Has(state'[r].entries, e)
        PROVE  \/ Has(state[r].entries, e)
               \/ r = Root /\ e.action.resource = Root
               \/ r = env.action.resource /\ e = EnvelopeEntry(env)
    <3>1. Has(st[r].entries, e) \/ (r = env.action.resource /\ e = EnvelopeEntry(env))
      BY <2>1, <2>5 DEF Adds
    <3>2. Has(st[r].entries, e) =>
            Has(state[r].entries, e) \/ (r = Root /\ e = EnvelopeEntry(rootEnv))
      BY <1>3, <2>1 DEF Adds
    <3> QED
      BY <2>2, <3>1, <3>2
  <2> QED
    BY <1>3, <2>3, <2>4, <2>5 DEF Emission
<1> QED
  BY <1>2, <1>3, EmitIs

\* A message that is no envelope is added, or one is taken.
LEMMA SilentReply ==
  ASSUME TypeOK, NEW c \in Client, NEW m \in ToClient, Aside(m) \/ IsCopy(c, m), UNCHANGED state,
         s2c' = s2c \/ s2c' = [s2c EXCEPT ![c] = Append(@, m)]
  PROVE  Silence
<1>1. \A d \in Client : s2c[d] \in Seq(ToClient) /\ (s2c'[d] = s2c[d] \/ s2c'[d] = Append(s2c[d], m))
  BY DEF TypeOK
<1>2. \A x : Has(s2c'[c], x) => Has(s2c[c], x) \/ x = m
  BY <1>1, GrowsHas
<1>3. \A d \in Client : d # c => s2c'[d] = s2c[d]
  BY DEF TypeOK
<1> QED
  BY <1>2, <1>3 DEF Silence

LEMMA SilentReceipt ==
  ASSUME TypeOK, NEW c \in Client, NEW kind, Receiving(c, kind), UNCHANGED state
  PROVE  Silence
<1>1. /\ s2c[c] # <<>> /\ \A d \in Client : s2c[d] \in Seq(ToClient)
      /\ \A d \in Client : s2c'[d] = IF d = c THEN Tail(s2c[c]) ELSE s2c[d]
  BY DEF TypeOK, Receiving
<1>2. \A d \in Client : \A x : Has(s2c'[d], x) => Has(s2c[d], x)
  BY <1>1, HasTail
<1> QED
  BY <1>2 DEF Silence

LEMMA CreationHas ==
  ASSUME TypeOK, NEW p \in creating, SessionCreated(p)
  PROVE  Emission(ActionOf("ready", p.resource, NoTurn), NoOrigin)
<1>1. PICK env \in Envelope, q \in ClientQueues, st \in [Resource -> State], m \in ToClient :
        /\ env.action = ActionOf("ready", p.resource, NoTurn) /\ env.origin = NoOrigin
        /\ st = [state EXCEPT ![p.resource] = InitialState]
        /\ Emits(s2c, st, serverSeq, env, q, state')
        /\ m = [kind |-> "created", resource |-> p.resource, handler |-> p.handler]
        /\ s2c' = IF link[p.client] = "closed" THEN q
                  ELSE [q EXCEPT ![p.client] = Append(@, m)]
  BY CreationEmits
<1>2. s2c \in ClientQueues /\ state \in [Resource -> State] /\ serverSeq \in Nat
  BY DEF TypeOK, ClientQueues
<1>3. Adds(s2c, st, env, q, state')
  BY <1>1, <1>2, EmitsHas
<1>4. \A c \in Client : q[c] \in Seq(ToClient) /\ (s2c'[c] = q[c] \/ s2c'[c] = Append(q[c], m))
  BY <1>1 DEF ClientQueues
<1>5. \A c \in Client : \A x : Has(s2c'[c], x) => Has(q[c], x) \/ x = m
  BY <1>4, GrowsHas
<1>6. Aside(m)
  BY <1>1 DEF Aside
<1>7. \A r \in Resource : \A e : Has(st[r].entries, e) => Has(state[r].entries, e)
  BY <1>1, <1>2 DEF InitialState, Has
<1>8. env.serverSeq = serverSeq + 1 /\ serverSeq < serverSeq + 1
  BY <1>1, <1>2 DEF Emits
<1>9. \A c \in Client : \A x : Has(s2c'[c], x) =>
        Has(s2c[c], x) \/ Aside(x) \/ x = EnvelopeMessage(env)
  BY <1>3, <1>5, <1>6 DEF Adds
<1>10. \A r \in Resource : \A e : Has(state'[r].entries, e) =>
         \/ Has(state[r].entries, e)
         \/ r = Root /\ e.action.resource = Root
         \/ r = env.action.resource /\ e = EnvelopeEntry(env)
  BY <1>3, <1>7 DEF Adds
<1> QED
  BY <1>1, <1>8, <1>9, <1>10 DEF Emission

LEMMA DownStep ==
  ASSUME LifeInv, [Next]_vars
  PROVE  \/ Silence
         \/ \E c \in Client :
              /\ HandleDispatchAction(c)
              /\ Emission(Head(c2s[c]).action, [client |-> c, clientSeq |-> Head(c2s[c]).clientSeq])
         \/ \E s \in Session :
              /\ AgentIdle(s) /\ state[s].activeTurn \in Turn
              /\ Emission(ActionOf("turnComplete", s, state[s].activeTurn), NoOrigin)
         \/ \E p \in creating :
              /\ SessionCreated(p) /\ p.resource \in Session
              /\ Emission(ActionOf("ready", p.resource, NoTurn), NoOrigin)
<1>0. TypeOK
  BY DEF LifeInv
<1>1. ASSUME UNCHANGED <<s2c, state>>
      PROVE  Silence
  BY <1>1 DEF Silence
<1>2. ASSUME NEW c \in Client, HandleDispatchAction(c)
      PROVE  Emission(Head(c2s[c]).action, [client |-> c, clientSeq |-> Head(c2s[c]).clientSeq])
  <2>1. Head(c2s[c]).action \in SessionAction /\ Head(c2s[c]).clientSeq \in Nat
    <3>1. Head(c2s[c]) \in ToServer /\ Head(c2s[c]).kind = "dispatchAction"
      BY <1>0, <1>2, HeadOfC2S DEF HandleDispatchAction, Handling
    <3> QED
      BY <3>1 DEF ToServer
  <2>2. [client |-> c, clientSeq |-> Head(c2s[c]).clientSeq] \in Origin
    BY <2>1 DEF Origin
  <2> QED
    BY <1>0, <1>2, <2>1, <2>2, EmitHas DEF HandleDispatchAction
<1>3. ASSUME NEW s \in Session, AgentIdle(s)
      PROVE  /\ state[s].activeTurn \in Turn
             /\ Emission(ActionOf("turnComplete", s, state[s].activeTurn), NoOrigin)
  <2>1. state[s].activeTurn \in Turn
    BY <1>0, <1>3 DEF AgentIdle, TypeOK, State, Resource
  <2>2. ActionOf("turnComplete", s, state[s].activeTurn) \in SessionAction /\ NoOrigin \in Origin
    BY <2>1, ActionTypes DEF TurnEnd, Origin
  <2> QED
    BY <1>0, <1>3, <2>1, <2>2, EmitHas DEF AgentIdle
<1>4. ASSUME NEW c \in Client, HandleInitialize(c)
      PROVE  Silence
  <2>1. PICK m \in ToClient : m = [kind |-> "initialized"]
    BY DEF ToClient
  <2>2. Aside(m)
    BY <2>1 DEF Aside
  <2> QED
    BY <1>0, <1>4, <2>1, <2>2, SilentReply DEF HandleInitialize, Reply, server
<1>5. ASSUME NEW c \in Client, HandleSubscribe(c)
      PROVE  Silence
  <2>1. PICK h \in Handler, r \in Resource : h = Head(c2s[c]).handler /\ r = Head(c2s[c]).resource
    <3>1. Head(c2s[c]) \in ToServer /\ Head(c2s[c]).kind = "subscribe"
      BY <1>0, <1>5, HeadOfC2S DEF HandleSubscribe, Handling
    <3> QED
      BY <3>1 DEF ToServer
  <2>2. IF Live(r)
        THEN Reply(c, [kind |-> "snapshot", resource |-> r, handler |-> h,
                       state |-> state[r], fromSeq |-> serverSeq])
        ELSE Reply(c, [kind |-> "notFound", resource |-> r, handler |-> h])
    BY <1>5, <2>1 DEF HandleSubscribe
  <2>3. PICK m \in ToClient : /\ Aside(m) \/ IsCopy(c, m)
                              /\ s2c' = s2c \/ s2c' = [s2c EXCEPT ![c] = Append(@, m)]
    <3>1. CASE Live(r)
      <4>1. PICK m \in ToClient : m = [kind |-> "snapshot", resource |-> r, handler |-> h,
                                       state |-> state[r], fromSeq |-> serverSeq]
        BY <1>0 DEF ToClient, TypeOK
      <4>2. IsCopy(c, m)
        BY <1>5, <2>1, <3>1, <4>1 DEF IsCopy
      <4> QED
        BY <2>2, <3>1, <4>1, <4>2 DEF Reply
    <3>2. CASE ~Live(r)
      <4>1. PICK m \in ToClient : m = [kind |-> "notFound", resource |-> r, handler |-> h]
        BY DEF ToClient
      <4>3. ~Unborn(r)
        BY <1>5, <2>1, Handled DEF HandleSubscribe, UpOK
      <4>2. Aside(m)
        BY <3>2, <4>1, <4>3 DEF Aside
      <4> QED
        BY <2>2, <3>2, <4>1, <4>2 DEF Reply
    <3> QED
      BY <3>1, <3>2
  <2> QED
    BY <1>0, <1>5, <2>3, SilentReply DEF HandleSubscribe, server
<1>6. ASSUME NEW c \in Client, HandleDisposeSession(c)
      PROVE  Silence
  <2>1. s2c' = s2c /\ \A r \in Resource : state'[r] = state[r] \/ state'[r] = InitialState
    BY <1>0, <1>6 DEF HandleDisposeSession, TypeOK
  <2>2. \A e : ~Has(InitialState.entries, e)
    BY DEF InitialState, Has
  <2> QED
    BY <2>1, <2>2 DEF Silence
<1>7. ASSUME NEW p \in creating, SessionCreated(p)
      PROVE  p.resource \in Session /\ Emission(ActionOf("ready", p.resource, NoTurn), NoOrigin)
  BY <1>0, <1>7, CreationHas DEF TypeOK
<1>8. ASSUME NEW p \in creating, SessionCreationFails(p)
      PROVE  Silence
  <2>1. PICK c \in Client : c = p.client /\ p.resource \in Session /\ p.handler \in Handler
    BY <1>0 DEF TypeOK
  <2>2. PICK m \in ToClient :
          m = [kind |-> "createFailed", resource |-> p.resource, handler |-> p.handler]
    BY <2>1 DEF ToClient
  <2>3. Aside(m)
    BY <2>2 DEF Aside
  <2> QED
    BY <1>0, <1>8, <2>1, <2>2, <2>3, SilentReply DEF SessionCreationFails, Answer, server
<1>9. ASSUME NEW c \in Client, Disconnect(c)
      PROVE  Silence
  <2>1. UNCHANGED state /\ \A d \in Client : s2c'[d] = s2c[d] \/ s2c'[d] = <<>>
    BY <1>0, <1>9 DEF Disconnect, server, TypeOK
  <2>2. \A m : ~Has(<<>>, m)
    BY DEF Has
  <2> QED
    BY <2>1, <2>2 DEF Silence
<1>10. ASSUME NEW c \in Client, ReceiveMessage(c)
       PROVE  Silence
  <2>1. UNCHANGED state /\ \E kind : Receiving(c, kind)
    BY <1>10 DEF ReceiveMessage, Initialized, SessionCreateReturns, SessionCreateThrows,
       HandleSnapshot, SubscribeFails, ReceiveEnvelope, server
  <2> QED
    BY <1>0, <2>1, SilentReceipt
<1>11. ASSUME NEW c \in Client,
              HandleUnsubscribe(c) \/ HandleCreateSession(c) \/ Connect(c) \/ HandleClose(c)
       PROVE  Silence
  BY <1>1, <1>11 DEF HandleUnsubscribe, HandleCreateSession, Connect, HandleClose, server
<1>12. ASSUME NEW h \in Handler, NEW r \in Resource, OpenExisting(h, r)
       PROVE  Silence
  BY <1>1, <1>12 DEF OpenExisting, server
<1>13. ASSUME NEW h \in Handler, NEW s \in Session,
              CreateSession(h, s) \/ CloseSession(h, s) \/ CancelTurn(h, s)
       PROVE  Silence
  BY <1>1, <1>13 DEF CreateSession, CloseSession, CancelTurn, server
<1>14. ASSUME NEW h \in Handler, NEW s \in Session, NEW t \in Turn, StartTurn(h, s, t)
       PROVE  Silence
  BY <1>1, <1>14 DEF StartTurn, server
<1>15. CASE UNCHANGED vars
  BY <1>1, <1>15 DEF vars, server, net
<1> QED
  BY <1>2, <1>3, <1>4, <1>5, <1>6, <1>7, <1>8, <1>9, <1>10, <1>11, <1>12, <1>13, <1>14, <1>15
     DEF Next, HandleMessage

\* What a connection does with an envelope.
Takes(c, m) ==
  /\ m = Head(s2c[c]) /\ m.kind = "action" /\ Has(s2c[c], m) /\ m.envelope \in Envelope
  /\ UNCHANGED <<server, handler, c2s, link, subscribedSessions, nextClientSeq, view, usedTurns>>
  /\ \A d \in Client : \A x : Has(s2c'[d], x) => Has(s2c[d], x)
  /\ \A h \in Handler : ClientOf[h] # c =>
       /\ pending'[h] = pending[h] /\ running'[h] = running[h]
       /\ confirmed'[h] = confirmed[h] /\ optimistic'[h] = optimistic[h]
       /\ lastSeenServerSeq'[h] = lastSeenServerSeq[h]
  /\ \A h \in Handler : ClientOf[h] = c =>
       /\ pending'[h] = PendingAfter(h, m.envelope)
       /\ running'[h] = RunningAfter(h, m.envelope)
       /\ confirmed'[h] = ConfirmedAfter(h, m.envelope)
       /\ optimistic'[h] = OptimisticAfter(h, m.envelope)
       /\ lastSeenServerSeq'[h] = IF Listens(h, m.envelope)
                                  THEN Max({lastSeenServerSeq[h], m.envelope.serverSeq})
                                  ELSE lastSeenServerSeq[h]

LEMMA EnvelopeIs ==
  ASSUME TypeOK, NEW c \in Client, ReceiveEnvelope(c)
  PROVE  \E m \in ToClient : Takes(c, m)
<1>1. PICK m \in ToClient : m = Head(s2c[c]) /\ m.kind = "action"
  BY HeadOfS2C DEF ReceiveEnvelope, Receiving
<1>2. /\ s2c[c] # <<>> /\ \A d \in Client : s2c[d] \in Seq(ToClient)
      /\ \A d \in Client : s2c'[d] = IF d = c THEN Tail(s2c[c]) ELSE s2c[d]
  BY DEF TypeOK, Receiving, ReceiveEnvelope
<1>3. Has(s2c[c], m) /\ \A d \in Client : \A x : Has(s2c'[d], x) => Has(s2c[d], x)
  BY <1>1, <1>2, HasTail
<1>4. m.envelope \in Envelope
  BY <1>1 DEF ToClient
<1>5. Takes(c, m)
  BY <1>1, <1>3, <1>4 DEF ReceiveEnvelope, Takes
<1> QED
  BY <1>5

----------------------------------------------------------------------------
(* How connections and sessions age                                        *)

LEMMA LinkStep ==
  ASSUME LinkInv, TypeOK, [Next]_vars, NEW c \in Client
  PROVE  /\ ~Handshaking(c) => ~Handshaking(c)'
         /\ link[c] = "closed" => link'[c] = "closed"
<1>1. ASSUME NEW d \in Client, Connect(d)
      PROVE  link[d] = "none" /\ \A x \in Client : x # d => link'[x] = link[x]
  BY <1>1 DEF Connect, TypeOK
<1>2. ASSUME NEW d \in Client, Initialized(d)
      PROVE  /\ link[d] # "closed" /\ link'[d] = "open"
             /\ \A x \in Client : x # d => link'[x] = link[x]
  BY <1>2 DEF Initialized, Receiving, LinkInv, TypeOK
<1>3. ASSUME NEW d \in Client, Disconnect(d)
      PROVE  link'[d] = "closed" /\ \A x \in Client : x # d => link'[x] = link[x]
  BY <1>3 DEF Disconnect, TypeOK
<1>4. ASSUME NEW d \in Client, HandleMessage(d) \/ HandleClose(d)
      PROVE  UNCHANGED link
  BY <1>4 DEF HandleMessage, HandleInitialize, HandleSubscribe, HandleUnsubscribe,
     HandleDispatchAction, HandleCreateSession, HandleDisposeSession, HandleClose
<1>5. ASSUME NEW d \in Client,
             SessionCreateReturns(d) \/ SessionCreateThrows(d) \/ HandleSnapshot(d)
             \/ SubscribeFails(d) \/ ReceiveEnvelope(d)
      PROVE  UNCHANGED link
  BY <1>5 DEF SessionCreateReturns, SessionCreateThrows, HandleSnapshot, SubscribeFails,
     ReceiveEnvelope
<1>6. ASSUME NEW p \in creating, SessionCreated(p) \/ SessionCreationFails(p)
      PROVE  UNCHANGED link
  BY <1>6 DEF SessionCreated, SessionCreationFails
<1>7. ASSUME NEW s \in Session, AgentIdle(s)
      PROVE  UNCHANGED link
  BY <1>7 DEF AgentIdle
<1>8. ASSUME NEW h \in Handler, NEW r \in Resource, OpenExisting(h, r)
      PROVE  UNCHANGED link
  BY <1>8 DEF OpenExisting
<1>9. ASSUME NEW h \in Handler, NEW s \in Session,
             CreateSession(h, s) \/ CloseSession(h, s) \/ CancelTurn(h, s)
      PROVE  UNCHANGED link
  BY <1>9 DEF CreateSession, CloseSession, CancelTurn
<1>10. ASSUME NEW h \in Handler, NEW s \in Session, NEW t \in Turn, StartTurn(h, s, t)
       PROVE  UNCHANGED link
  BY <1>10 DEF StartTurn
<1>11. UNCHANGED vars => UNCHANGED link
  BY DEF vars, net
<1>12. \/ UNCHANGED link
       \/ \E d \in Client : Connect(d) \/ Initialized(d) \/ Disconnect(d)
  BY <1>4, <1>5, <1>6, <1>7, <1>8, <1>9, <1>10, <1>11 DEF Next, ReceiveMessage
<1> QED
  BY <1>1, <1>2, <1>3, <1>12 DEF Handshaking

LEMMA PhaseStep ==
  ASSUME LifeInv, [Next]_vars, NEW s \in Session
  PROVE  /\ phase[s] # "none" => phase'[s] # "none"
         /\ phase[s] = "removed" => phase'[s] = "removed"
         /\ phase[s] = "live" => phase'[s] \in {"live", "removed"}
<1>1. ASSUME NEW c \in Client, HandleDisposeSession(c)
      PROVE  phase'[s] \in {phase[s], "removed"}
  BY <1>1 DEF HandleDisposeSession, LifeInv, TypeOK
<1>2. ASSUME NEW p \in creating, SessionCreated(p)
      PROVE  phase[s] # "none" => phase'[s] = phase[s]
  <2>1. Unborn(p.resource)
    BY DEF LifeInv, MessagesInv
  <2>2. phase' = [phase EXCEPT ![p.resource] = "live"]
    BY <1>2 DEF SessionCreated
  <2> QED
    BY <2>1, <2>2 DEF Unborn, LifeInv, TypeOK
<1>3. ASSUME NEW c \in Client, HandleInitialize(c) \/ HandleSubscribe(c) \/ HandleUnsubscribe(c)
                               \/ HandleDispatchAction(c) \/ HandleCreateSession(c) \/ HandleClose(c)
      PROVE  UNCHANGED phase
  BY <1>3 DEF HandleInitialize, HandleSubscribe, HandleUnsubscribe,
     HandleDispatchAction, HandleCreateSession, HandleClose, server
<1>4. ASSUME NEW c \in Client, ReceiveMessage(c) \/ Connect(c) \/ Disconnect(c)
      PROVE  UNCHANGED phase
  BY <1>4 DEF ReceiveMessage, Initialized, SessionCreateReturns, SessionCreateThrows,
     HandleSnapshot, SubscribeFails, ReceiveEnvelope, Connect, Disconnect, server
<1>5. ASSUME NEW p \in creating, SessionCreationFails(p)
      PROVE  UNCHANGED phase
  BY <1>5 DEF SessionCreationFails, server
<1>6. ASSUME NEW x \in Session, AgentIdle(x)
      PROVE  UNCHANGED phase
  BY <1>6 DEF AgentIdle
<1>7. ASSUME NEW h \in Handler, NEW r \in Resource, OpenExisting(h, r)
      PROVE  UNCHANGED phase
  BY <1>7 DEF OpenExisting, server
<1>8. ASSUME NEW h \in Handler, NEW x \in Session,
             CreateSession(h, x) \/ CloseSession(h, x) \/ CancelTurn(h, x)
      PROVE  UNCHANGED phase
  BY <1>8 DEF CreateSession, CloseSession, CancelTurn, server
<1>9. ASSUME NEW h \in Handler, NEW x \in Session, NEW t \in Turn, StartTurn(h, x, t)
      PROVE  UNCHANGED phase
  BY <1>9 DEF StartTurn, server
<1>10. UNCHANGED vars => UNCHANGED phase
  BY DEF vars, server
<1>11. \/ UNCHANGED phase
       \/ \E c \in Client : HandleDisposeSession(c)
       \/ \E p \in creating : SessionCreated(p)
  BY <1>3, <1>4, <1>5, <1>6, <1>7, <1>8, <1>9, <1>10 DEF Next, HandleMessage
<1> QED
  BY <1>1, <1>2, <1>11

\* A disposal under way is read by the server, unless the connection breaks.
LEMMA DisposalStep ==
  ASSUME LifeInv, [Next]_vars, NEW c \in Client, NEW s \in Session,
         Disposed(c2s[c], s), link[c] # "closed"
  PROVE  Disposed(c2s'[c], s) \/ phase'[s] # "live"
<1> DEFINE q == c2s[c]
<1>1. TypeOK /\ q \in Seq(ToServer)
  BY DEF LifeInv, TypeOK
<1>2. ASSUME NEW p \in Seq(ToServer), NEW m \in ToServer, Disposed(p, s)
      PROVE  Disposed(Append(p, m), s)
  BY <1>2, AppendIs DEF Disposed
<1>3. ASSUME QueueMoves(c)
      PROVE  Disposed(c2s'[c], s) \/ phase'[s] # "live"
  <2>1. CASE HandleMessage(c) /\ q # <<>> /\ c2s'[c] = Tail(q)
    <3>1. CASE ~Disposes(Head(q), s)
      <4>1. PICK i \in DOMAIN q : Disposes(q[i], s)
        BY DEF Disposed
      <4>2. i # 1
        BY <1>1, <2>1, <3>1, <4>1, TailIs
      <4>3. i - 1 \in DOMAIN Tail(q) /\ Tail(q)[i - 1] = q[i]
        BY <1>1, <2>1, <4>2, TailIs
      <4> QED
        BY <2>1, <4>1, <4>3 DEF Disposed
    <3>2. CASE Disposes(Head(q), s)
      <4>1. Head(q).kind = "disposeSession" /\ Head(q).resource = s
        BY <3>2 DEF Disposes
      <4>2. HandleDisposeSession(c)
        BY <2>1, <4>1 DEF HandleMessage, HandleInitialize, HandleSubscribe, HandleUnsubscribe,
           HandleDispatchAction, HandleCreateSession, Handling
      <4> QED
        BY <1>1, <4>1, <4>2 DEF HandleDisposeSession, TypeOK
    <3> QED
      BY <3>1, <3>2
  <2>2. ASSUME NEW m \in ToServer, c2s'[c] = Append(q, m)
        PROVE  Disposed(c2s'[c], s)
    BY <1>1, <1>2, <2>2
  <2>3. ASSUME NEW a \in ToServer, NEW b \in ToServer, c2s'[c] = Append(Append(q, a), b)
        PROVE  Disposed(c2s'[c], s)
    <3>1. Append(q, a) \in Seq(ToServer) /\ Disposed(Append(q, a), s)
      BY <1>1, <1>2, AppendIs
    <3>2. PICK p \in Seq(ToServer) : p = Append(q, a)
      BY <3>1
    <3>3. Disposed(Append(p, b), s)
      BY <1>2, <3>1, <3>2
    <3> QED
      BY <2>3, <3>2, <3>3
  <2> QED
    BY <1>3, <2>1, <2>2, <2>3 DEF QueueMoves
<1>4. ASSUME NEW h \in Handler, NEW x \in Session, NEW a, Writes(h, x, a)
      PROVE  Disposed(c2s'[c], s)
  <2>0. PICK p \in PendingAction, m \in ToServer : WritesAs(h, x, a, p, m)
    BY <1>1, <1>4, WritesAre
  <2>1. \A d \in Client : c2s'[d] = IF d = ClientOf[h] THEN Append(c2s[d], m) ELSE c2s[d]
    BY <2>0 DEF WritesAs
  <2> QED
    BY <1>1, <1>2, <2>1
<1> QED
  BY <1>1, <1>3, <1>4, QueueStep

----------------------------------------------------------------------------
(* Snapshots, disposals and envelopes at a handler                         *)

AheadInv == HoldersInv /\ PendingInv /\ OwnInv /\ PastInv /\ RebaseInv /\ RunInv

LEMMA AheadIs ==
  ASSUME AheadInv
  PROVE  LifeInv /\ TypeOK /\ LinkInv
BY DEF AheadInv, HoldersInv, LifeInv

\* The one handler a snapshot of a resource can be for, over a connection.
LEMMA AnswerIsFor ==
  ASSUME LifeInv, NEW h \in Handler, NEW r \in Resource, r \in Serves[h],
         NEW i \in DOMAIN s2c[ClientOf[h]], IsAnswer(s2c[ClientOf[h]][i]),
         s2c[ClientOf[h]][i].resource = r
  PROVE  /\ About(s2c[ClientOf[h]][i], h, r) /\ Answered(s2c[ClientOf[h]], h, r)
         /\ view[h][r] \in {"creating", "subscribing"}
<1> DEFINE m == s2c[ClientOf[h]][i]
<1>1. m \in ToClient /\ Addressed(ClientOf[h], m)
  <2>1. DownOK(ClientOf[h], m)
    BY DEF LifeInv, MessagesInv
  <2>2. m \in ToClient
    BY Queues
  <2> QED
    BY <2>1, <2>2 DEF DownOK
<1>2. m.handler \in Handler
  BY <1>1 DEF ToClient, IsAnswer
<1>3. m.handler = h
  BY <1>1, <1>2 DEF Addressed
<1>4. Answered(s2c[ClientOf[h]], h, r)
  BY <1>3 DEF Answered, About
<1> QED
  BY <1>3, <1>4 DEF About, LifeInv, ExchangeInv, OneExchange

\* What a connection does with a snapshot.
Opens(c, m, h, r) ==
  /\ m = Head(s2c[c]) /\ m.kind = "snapshot" /\ Has(s2c[c], m)
  /\ ClientOf[h] = c /\ m.handler = h /\ m.resource = r /\ link[c] = "open"
  /\ r \in Session => ~Waits(h, r)
  /\ UNCHANGED <<server, handler, c2s, link, pending, nextClientSeq, usedTurns>>
  /\ UNCHANGED running
  /\ \A d \in Client : \A x : Has(s2c'[d], x) => Has(s2c[d], x)
  /\ optimistic' = [optimistic EXCEPT ![h][r] = m.state]
  /\ \A g \in Handler, x \in Resource :
       /\ confirmed'[g][x] = IF g = h /\ x = r THEN m.state ELSE confirmed[g][x]
       /\ view'[g][x] = IF g = h /\ x = r THEN "open" ELSE view[g][x]
  /\ \A g \in Handler :
       /\ subscribedSessions'[g] = IF g = h THEN subscribedSessions[g] \cup {r}
                                   ELSE subscribedSessions[g]
       /\ lastSeenServerSeq'[g] = IF g = h THEN Max({lastSeenServerSeq[g], m.fromSeq})
                                  ELSE lastSeenServerSeq[g]

LEMMA SnapshotIs ==
  ASSUME AheadInv, NEW c \in Client, HandleSnapshot(c)
  PROVE  \E m \in ToClient, h \in Handler, r \in Resource : Opens(c, m, h, r)
<1>1. LifeInv /\ TypeOK /\ LinkInv
  BY AheadIs
<1>2. Receiving(c, "snapshot")
  BY DEF HandleSnapshot
<1>3. PICK m \in ToClient, h \in Handler, r \in Resource :
        /\ m = Head(s2c[c]) /\ m.kind = "snapshot" /\ DownOK(c, m)
        /\ m.handler = h /\ m.resource = r /\ s2c[c] # <<>>
  <2>1. /\ Head(s2c[c]) \in ToClient /\ Head(s2c[c]).kind = "snapshot" /\ DownOK(c, Head(s2c[c]))
        /\ s2c[c] # <<>>
    BY <1>1, <1>2, Received
  <2>2. Head(s2c[c]).handler \in Handler /\ Head(s2c[c]).resource \in Resource
    BY <2>1 DEF ToClient
  <2> QED
    BY <2>1, <2>2
<1>4. ClientOf[h] = c /\ r \in Serves[h]
  BY <1>3 DEF DownOK, IsAnswer, Addressed
<1>5. link[c] = "open"
  <2>1. link[c] # "closed"
    BY <1>1, <1>3, ReceiverIsLinked
  <2>2. ~Handshaking(c)
    BY <1>3 DEF DownOK
  <2> QED
    BY <1>1, <2>1, <2>2 DEF Handshaking, TypeOK
<1>6. s2c[c] \in Seq(ToClient) /\ 1 \in DOMAIN s2c[c] /\ s2c[c][1] = m
  BY <1>1, <1>3, TailIs DEF TypeOK
<1>7. view[h][r] \in {"creating", "subscribing"}
  BY <1>1, <1>3, <1>4, <1>6, AnswerIsFor DEF IsAnswer
<1>8. HasSnapshot(s2c[c], r)
  BY <1>3, <1>6 DEF HasSnapshot
<1>9. r \in Session => ~Waits(h, r)
  <2>1. r \notin subscribedSessions[h]
    BY <1>1, <1>7 DEF LifeInv, ViewInv
  <2>2. ~Past(c, r)
    BY <1>5, <1>8 DEF Past
  <2> QED
    BY <1>4, <2>1, <2>2 DEF AheadInv, PastInv
<1>10. /\ Has(s2c[c], m)
       /\ \A d \in Client : \A x : Has(s2c'[d], x) => Has(s2c[d], x)
  <2>1. \A d \in Client : s2c'[d] = IF d = c THEN Tail(s2c[c]) ELSE s2c[d]
    BY <1>1, <1>2 DEF Receiving, TypeOK
  <2> QED
    BY <1>3, <1>6, <2>1, HasTail
<1>11. /\ lastSeenServerSeq' = [lastSeenServerSeq EXCEPT ![h] = Max({@, m.fromSeq})]
       /\ subscribedSessions' = [subscribedSessions EXCEPT ![h] = @ \cup {r}]
       /\ confirmed' = [confirmed EXCEPT ![h][r] = m.state]
       /\ view' = [view EXCEPT ![h][r] = "open"]
       /\ UNCHANGED <<server, handler, c2s, link, pending, nextClientSeq, usedTurns>>
  BY <1>3 DEF HandleSnapshot, SetView
<1>12. /\ \A g \in Handler, x \in Resource :
            /\ confirmed'[g][x] = IF g = h /\ x = r THEN m.state ELSE confirmed[g][x]
            /\ view'[g][x] = IF g = h /\ x = r THEN "open" ELSE view[g][x]
       /\ \A g \in Handler :
            /\ subscribedSessions'[g] = IF g = h THEN subscribedSessions[g] \cup {r}
                                        ELSE subscribedSessions[g]
            /\ lastSeenServerSeq'[g] = IF g = h THEN Max({lastSeenServerSeq[g], m.fromSeq})
                                       ELSE lastSeenServerSeq[g]
  BY <1>1, <1>11 DEF TypeOK
<1>13. optimistic' = [optimistic EXCEPT ![h][r] = m.state]
  <2>1. CASE r = Root
    BY <1>3, <2>1 DEF HandleSnapshot
  <2>2. CASE r # Root
    <3>1. pending[h][r] = <<>>
      BY <1>9, <2>2 DEF Waits, Resource
    <3>2. Rebase(m.state, pending[h][r]) = m.state
      BY <3>1, FoldEmpty DEF Rebase
    <3> QED
      BY <1>3, <2>2, <3>2 DEF HandleSnapshot
  <2> QED
    BY <2>1, <2>2
<1>14. UNCHANGED running
  <2>1. CASE r = Root
    BY <1>3, <2>1 DEF HandleSnapshot
  <2>2. CASE r # Root
    <3>1. running[h][r] = NoTurn
      BY <1>9, <2>2 DEF Waits, Resource
    <3>2. running' = [running EXCEPT ![h][r] = Awaited(h, r, optimistic'[h][r])]
      BY <1>3, <2>2 DEF HandleSnapshot
    <3>3. Awaited(h, r, optimistic'[h][r]) = NoTurn
      BY <3>1 DEF Awaited
    <3> QED
      BY <1>1, <2>2, <3>1, <3>2, <3>3 DEF TypeOK, Resource
  <2> QED
    BY <2>1, <2>2
<1>15. Opens(c, m, h, r)
  BY <1>3, <1>4, <1>5, <1>9, <1>10, <1>11, <1>12, <1>13, <1>14 DEF Opens
<1> QED
  BY <1>15

\* What closing a session does.
Closes(h, s) ==
  /\ link[ClientOf[h]] = "open" /\ view[h][s] = "open"
  /\ UNCHANGED <<server, handler, s2c, link, nextClientSeq, lastSeenServerSeq, running,
                 usedTurns>>
  /\ optimistic' = [optimistic EXCEPT ![h][s] = InitialState]
  /\ \A g \in Handler, x \in Resource :
       /\ confirmed'[g][x] = IF g = h /\ x = s THEN InitialState ELSE confirmed[g][x]
       /\ view'[g][x] = IF g = h /\ x = s THEN "none" ELSE view[g][x]
  /\ \A g \in Handler, x \in Session :
       pending'[g][x] = IF g = h /\ x = s THEN <<>> ELSE pending[g][x]
  /\ \A g \in Handler :
       subscribedSessions'[g] = IF g = h THEN subscribedSessions[g] \ {s}
                                ELSE subscribedSessions[g]
  /\ Disposed(c2s'[ClientOf[h]], s)

LEMMA CloseIs ==
  ASSUME TypeOK, NEW h \in Handler, NEW s \in Session, CloseSession(h, s)
  PROVE  Closes(h, s)
<1>1. /\ link[ClientOf[h]] = "open" /\ view[h][s] = "open"
      /\ view' = [view EXCEPT ![h][s] = "none"]
      /\ subscribedSessions' = [subscribedSessions EXCEPT ![h] = @ \ {s}]
      /\ confirmed' = [confirmed EXCEPT ![h][s] = InitialState]
      /\ optimistic' = [optimistic EXCEPT ![h][s] = InitialState]
      /\ pending' = [pending EXCEPT ![h][s] = <<>>]
      /\ UNCHANGED <<server, handler, s2c, link, nextClientSeq, lastSeenServerSeq,
                     running, usedTurns>>
      /\ Send(ClientOf[h], <<[kind |-> "unsubscribe", resource |-> s],
                             [kind |-> "disposeSession", resource |-> s]>>)
  BY DEF CloseSession, SetView
<1>2. s \in Resource
  BY DEF Resource
<1>3. /\ \A g \in Handler, x \in Resource :
           /\ confirmed'[g][x] = IF g = h /\ x = s THEN InitialState ELSE confirmed[g][x]
           /\ view'[g][x] = IF g = h /\ x = s THEN "none" ELSE view[g][x]
      /\ \A g \in Handler, x \in Session :
           pending'[g][x] = IF g = h /\ x = s THEN <<>> ELSE pending[g][x]
      /\ \A g \in Handler :
           subscribedSessions'[g] = IF g = h THEN subscribedSessions[g] \ {s}
                                    ELSE subscribedSessions[g]
  BY <1>1, <1>2 DEF TypeOK
<1>4. Disposed(c2s'[ClientOf[h]], s)
  <2>1. PICK a \in ToServer, b \in ToServer : /\ a = [kind |-> "unsubscribe", resource |-> s]
                                              /\ b = [kind |-> "disposeSession", resource |-> s]
    BY DEF ToServer
  <2>2. PICK q \in Seq(ToServer) : q = c2s[ClientOf[h]]
    BY DEF TypeOK
  <2>3. q \o <<a, b>> = Append(Append(q, a), b)
    BY ConcatIs
  <2>4. c2s'[ClientOf[h]] = Append(Append(q, a), b)
    BY <1>1, <2>1, <2>2, <2>3 DEF Send, TypeOK
  <2>5. Append(q, a) \in Seq(ToServer)
    BY AppendIs
  <2>6. PICK p \in Seq(ToServer) : p = Append(q, a)
    BY <2>5
  <2>7. Has(Append(p, b), b)
    BY HasAppend
  <2>8. Disposes(b, s)
    BY <2>1 DEF Disposes
  <2> QED
    BY <2>4, <2>6, <2>7, <2>8 DEF Disposed, Has
<1> QED
  BY <1>1, <1>3, <1>4 DEF Closes

\* What an envelope does to the actions a handler has pending.
LEMMA SettlesIs ==
  ASSUME AheadInv, NEW c \in Client, ReceiveEnvelope(c), NEW h \in Handler, NEW s \in Session
  PROVE  \/ pending'[h][s] = pending[h][s]
         \/ \E n \in Nat :
              /\ pending'[h][s] = DropPending(pending[h][s], n) /\ ClientOf[h] = c
              /\ \E i \in DOMAIN pending[h][s] : pending[h][s][i].clientSeq = n
              /\ Head(s2c[c]).envelope.action.resource = s
              /\ Root \notin Serves[h] /\ Listens(h, Head(s2c[c]).envelope)
              /\ Has(s2c[c], Head(s2c[c])) /\ IsEcho(Head(s2c[c]), c)
              /\ Head(s2c[c]).envelope.origin.clientSeq = n
              /\ \A i \in DOMAIN pending[h][s] : pending[h][s][i].clientSeq = n =>
                   pending[h][s][i].action = Head(s2c[c]).envelope.action
<1>1. LifeInv /\ TypeOK /\ PendingInv /\ OwnInv
  BY AheadIs DEF AheadInv
<1>6. PICK m \in ToClient : Takes(c, m)
  BY <1>1, EnvelopeIs
<1>2. /\ m = Head(s2c[c]) /\ m.kind = "action" /\ Has(s2c[c], m) /\ m.envelope \in Envelope
      /\ \A g \in Handler : ClientOf[g] # c => pending'[g] = pending[g]
      /\ \A g \in Handler : ClientOf[g] = c => pending'[g] = PendingAfter(g, m.envelope)
  BY <1>6 DEF Takes
<1>3. pending[h][s] \in Seq(PendingAction)
  BY <1>1 DEF TypeOK
<1>4. CASE ClientOf[h] = c /\ Listens(h, m.envelope) /\ IsEcho(m, c)
  <2>1. PICK n \in Nat : n = m.envelope.origin.clientSeq
    BY <1>2, <1>4 DEF Envelope, Origin, IsEcho
  <2>2. pending'[h][s] = DropPending(pending[h][s], n)
    BY <1>2, <1>4, <2>1 DEF PendingAfter, IsEcho
  <2>3. CASE ~\E i \in DOMAIN pending[h][s] : pending[h][s][i].clientSeq = n
    BY <2>2, <2>3 DEF DropPending
  <2>4. ASSUME NEW i \in DOMAIN pending[h][s], pending[h][s][i].clientSeq = n
        PROVE  /\ Head(s2c[c]).envelope.action.resource = s
               /\ Root \notin Serves[h]
               /\ \A j \in DOMAIN pending[h][s] : pending[h][s][j].clientSeq = n =>
                    pending[h][s][j].action = Head(s2c[c]).envelope.action
    <3>1. pending[h][s] # <<>>
      BY <2>4
    <3>2. s \in Serves[h] /\ pending[h][s][i].action.resource = s
      BY <1>1, <2>4, <3>1 DEF PendingInv, Waits
    <3>3. Root \notin Serves[h]
      BY <3>2
    <3>4. Fits(h, m.envelope.action, n)
      BY <1>1, <1>2, <1>4, <2>1, <3>3 DEF OwnInv
    <3> QED
      BY <1>2, <2>4, <3>2, <3>3, <3>4 DEF Fits
  <2> QED
    BY <1>2, <1>4, <2>1, <2>2, <2>3, <2>4
<1>5. CASE ~(ClientOf[h] = c /\ Listens(h, m.envelope) /\ IsEcho(m, c))
  BY <1>1, <1>2, <1>5 DEF PendingAfter, IsEcho
<1> QED
  BY <1>4, <1>5

----------------------------------------------------------------------------
(* Every step keeps what is written ahead in order                         *)

\* Who writes shows the session.
LEMMA WriterServes ==
  ASSUME AheadInv, NEW h \in Handler, NEW s \in Session, NEW a, Writes(h, s, a)
  PROVE  /\ s \in Serves[h] /\ Root \notin Serves[h] /\ ~Handshaking(ClientOf[h])
         /\ Waits(h, s) \/ view[h][s] = "open"
         /\ a.type = "turnStarted" => a.turn \notin usedTurns /\ usedTurns' = usedTurns \cup {a.turn}
         /\ a.type = "turnCancelled" =>
              a.turn = running[h][s] /\ running[h][s] # NoTurn /\ usedTurns' = usedTurns
<1>1. CASE a.type = "turnStarted" /\ StartTurn(h, s, a.turn)
  <2>1. /\ view[h][s] = "open" /\ a.turn \notin usedTurns
        /\ usedTurns' = usedTurns \cup {a.turn} /\ s \in Resource
    BY <1>1 DEF StartTurn, Resource
  <2>2. s \in Serves[h] /\ ~Handshaking(ClientOf[h])
    BY <2>1, AheadIs DEF LifeInv, ViewInv
  <2> QED
    BY <1>1, <2>1, <2>2
<1>2. CASE a.type = "turnCancelled" /\ CancelTurn(h, s) /\ a.turn = running[h][s]
  <2>1. running[h][s] # NoTurn /\ usedTurns' = usedTurns /\ Waits(h, s)
    BY <1>2 DEF CancelTurn, Waits
  <2>2. s \in Serves[h] /\ ~Handshaking(ClientOf[h])
    BY <2>1 DEF AheadInv, PendingInv
  <2> QED
    BY <1>2, <2>1, <2>2
<1> QED
  BY <1>1, <1>2 DEF Writes

\* A handler that waits after a step that is no write of its own waited before.
LEMMA WaitsKept ==
  ASSUME AheadInv, [Next]_vars, NEW h \in Handler, NEW s \in Session,
         ~\E a : Writes(h, s, a)
  PROVE  /\ Waits(h, s)' => Waits(h, s)
         /\ running'[h][s] # NoTurn => running'[h][s] = running[h][s]
         /\ \A i \in DOMAIN pending'[h][s] : \E k \in DOMAIN pending[h][s] :
              pending'[h][s][i] = pending[h][s][k]
         /\ \A i, j \in DOMAIN pending'[h][s] : i # j =>
              \E k, l \in DOMAIN pending[h][s] :
                k # l /\ pending'[h][s][i] = pending[h][s][k] /\ pending'[h][s][j] = pending[h][s][l]
<1>1. TypeOK
  BY AheadIs
<1> DEFINE Same == running'[h][s] = running[h][s] /\ pending'[h][s] = pending[h][s]
<1>2. Same \/ (running'[h][s] = running[h][s] /\ pending'[h][s] = <<>>)
      \/ \E c \in Client : ReceiveEnvelope(c)
  <2>1. CASE Quiet
    BY <2>1 DEF Quiet, sync
  <2>2. ASSUME NEW c \in Client, HandleSnapshot(c)
        PROVE  Same
    <3>1. PICK m \in ToClient, g \in Handler, r \in Resource : Opens(c, m, g, r)
      BY <2>2, SnapshotIs
    <3> QED
      BY <3>1 DEF Opens
  <2>3. ASSUME NEW g \in Handler, NEW x \in Session, CloseSession(g, x)
        PROVE  Same \/ (running'[h][s] = running[h][s] /\ pending'[h][s] = <<>>)
    BY <1>1, <2>3, CloseIs DEF Closes
  <2>4. ASSUME NEW g \in Handler, NEW x \in Session, NEW a, Writes(g, x, a)
        PROVE  Same
    <3>1. g # h \/ x # s
      BY <2>4
    <3>2. PICK p \in PendingAction, m \in ToServer : WritesAs(g, x, a, p, m)
      BY <1>1, <2>4, WritesAre
    <3>3. /\ running'[h][s] = running[h][s]
          /\ pending'[h][s] = pending[h][s]
      BY <3>1, <3>2 DEF WritesAs
    <3> QED
      BY <3>3
  <2> QED
    BY <1>1, <2>1, <2>2, <2>3, <2>4, ClientStep
<1>3. CASE Same
  BY <1>3 DEF Waits
<1>4. CASE running'[h][s] = running[h][s] /\ pending'[h][s] = <<>>
  BY <1>4 DEF Waits
<1>5. ASSUME NEW c \in Client, ReceiveEnvelope(c)
      PROVE  /\ running'[h][s] # NoTurn => running'[h][s] = running[h][s]
             /\ \/ pending'[h][s] = pending[h][s]
                \/ \E n \in Nat : pending'[h][s] = DropPending(pending[h][s], n)
  <2>1. PICK m \in ToClient : Takes(c, m)
    BY <1>1, <1>5, EnvelopeIs
  <2>2. running'[h] = running[h] \/ running'[h] = RunningAfter(h, m.envelope)
    BY <2>1 DEF Takes
  <2>3. running'[h][s] # NoTurn => running'[h][s] = running[h][s]
    BY <2>2 DEF RunningAfter, Awaited
  <2> QED
    BY <1>5, <2>3, SettlesIs
<1>6. ASSUME \E c \in Client : ReceiveEnvelope(c),
             running'[h][s] # NoTurn => running'[h][s] = running[h][s],
             NEW n \in Nat, pending'[h][s] = DropPending(pending[h][s], n)
      PROVE  /\ Waits(h, s)' => Waits(h, s)
             /\ \A i \in DOMAIN pending'[h][s] : \E k \in DOMAIN pending[h][s] :
                  pending'[h][s][i] = pending[h][s][k]
             /\ \A i, j \in DOMAIN pending'[h][s] : i # j =>
                  \E k, l \in DOMAIN pending[h][s] :
                    k # l /\ pending'[h][s][i] = pending[h][s][k] /\ pending'[h][s][j] = pending[h][s][l]
  <2>1. pending[h][s] \in Seq(PendingAction)
    BY <1>1 DEF TypeOK
  <2>2. PICK d : d = pending'[h][s]
    OBVIOUS
  <2>6. Leaves(pending[h][s], n, d)
    <3>1. d = DropPending(pending[h][s], n)
      BY <1>6, <2>2
    <3> QED
      BY <2>1, <3>1, DropKeeps
  <2>3. /\ d \in Seq(PendingAction)
        /\ \A j \in DOMAIN d : \E k \in DOMAIN pending[h][s] : d[j] = pending[h][s][k]
        /\ \A i, j \in DOMAIN d : i # j =>
             \E k, l \in DOMAIN pending[h][s] :
               k # l /\ d[i] = pending[h][s][k] /\ d[j] = pending[h][s][l]
    BY <2>6 DEF Leaves
  <2>4. d # <<>> => pending[h][s] # <<>>
    <3>1. d # <<>> => 1 \in DOMAIN d
      BY <2>3
    <3> QED
      BY <2>3, <3>1
  <2>5. Waits(h, s)' => Waits(h, s)
    BY <1>6, <2>2, <2>4 DEF Waits
  <2> QED
    BY <2>2, <2>3, <2>5
<1> QED
  BY <1>2, <1>3, <1>4, <1>5, <1>6 DEF Waits

LEMMA PendingTypes ==
  ASSUME NEW pend \in Seq(PendingAction)
  PROVE  /\ DOMAIN pend = 1 .. Len(pend) /\ Len(pend) \in Nat
         /\ \A i \in DOMAIN pend : /\ pend[i] \in PendingAction /\ pend[i].clientSeq \in Nat
                                  /\ pend[i].action \in SessionAction
<1>1. \A i \in DOMAIN pend : pend[i] \in PendingAction
  OBVIOUS
<1>2. \A p \in PendingAction : p.clientSeq \in Nat /\ p.action \in SessionAction
  BY DEF PendingAction
<1> QED
  BY <1>1, <1>2

LEMMA NumbersGrow ==
  ASSUME AheadInv, [Next]_vars, NEW h \in Handler
  PROVE  /\ nextClientSeq[h] \in Nat /\ nextClientSeq'[h] \in Nat
         /\ nextClientSeq[h] <= nextClientSeq'[h]
<1>1. TypeOK /\ nextClientSeq[h] \in Nat
  BY AheadIs DEF TypeOK
<1>2. nextClientSeq'[h] = nextClientSeq[h] \/ nextClientSeq'[h] = nextClientSeq[h] + 1
  <2>1. ASSUME NEW g \in Handler, NEW x \in Session, NEW a, Writes(g, x, a)
        PROVE  nextClientSeq'[h] = IF h = g THEN nextClientSeq[g] + 1 ELSE nextClientSeq[h]
    BY <1>1, <2>1, WritesAre DEF WritesAs
  <2>2. ASSUME NEW c \in Client, HandleSnapshot(c) \/ ReceiveEnvelope(c)
        PROVE  UNCHANGED nextClientSeq
    BY <2>2 DEF HandleSnapshot, ReceiveEnvelope
  <2>3. ASSUME NEW g \in Handler, NEW x \in Session, CloseSession(g, x)
        PROVE  UNCHANGED nextClientSeq
    BY <2>3 DEF CloseSession
  <2>4. Quiet => UNCHANGED nextClientSeq
    BY DEF Quiet, sync
  <2> QED
    BY <1>1, <2>1, <2>2, <2>3, <2>4, ClientStep
<1> QED
  BY <1>1, <1>2

LEMMA PendingStep ==
  ASSUME AheadInv, [Next]_vars
  PROVE  PendingInv'
<1> SUFFICES ASSUME NEW h \in Handler, NEW s \in Session
             PROVE  /\ Waits(h, s)' => s \in Serves[h] /\ ~Handshaking(ClientOf[h])'
                    /\ \A i \in DOMAIN pending'[h][s] :
                         /\ pending'[h][s][i].action.resource = s
                         /\ pending'[h][s][i].action.type \in {"turnStarted", "turnCancelled"}
                         /\ pending'[h][s][i].clientSeq < nextClientSeq'[h]
                    /\ \A i, j \in DOMAIN pending'[h][s] :
                         pending'[h][s][i].clientSeq = pending'[h][s][j].clientSeq => i = j
  BY DEF PendingInv
<1>1. TypeOK /\ LinkInv /\ PendingInv /\ pending[h][s] \in Seq(PendingAction)
  BY AheadIs DEF AheadInv, TypeOK
<1>2. ~Handshaking(ClientOf[h]) => ~Handshaking(ClientOf[h])'
  BY <1>1, LinkStep
<1>3. /\ nextClientSeq[h] \in Nat /\ nextClientSeq'[h] \in Nat
      /\ nextClientSeq[h] <= nextClientSeq'[h]
  BY NumbersGrow
<1>4. /\ \A i \in DOMAIN pending[h][s] :
           /\ pending[h][s][i].action.resource = s
           /\ pending[h][s][i].action.type \in {"turnStarted", "turnCancelled"}
           /\ pending[h][s][i].clientSeq \in Nat
           /\ pending[h][s][i].clientSeq < nextClientSeq[h]
      /\ \A i, j \in DOMAIN pending[h][s] :
           pending[h][s][i].clientSeq = pending[h][s][j].clientSeq => i = j
      /\ Waits(h, s) => s \in Serves[h] /\ ~Handshaking(ClientOf[h])
  <2>1. \A i \in DOMAIN pending[h][s] : pending[h][s][i].clientSeq \in Nat
    BY <1>1, PendingTypes
  <2> QED
    BY <1>1, <2>1 DEF PendingInv
<1>5. ASSUME NEW a, Writes(h, s, a)
      PROVE  /\ s \in Serves[h] /\ ~Handshaking(ClientOf[h])'
             /\ \A i \in DOMAIN pending'[h][s] :
                  /\ pending'[h][s][i].action.resource = s
                  /\ pending'[h][s][i].action.type \in {"turnStarted", "turnCancelled"}
                  /\ pending'[h][s][i].clientSeq < nextClientSeq'[h]
             /\ \A i, j \in DOMAIN pending'[h][s] :
                  pending'[h][s][i].clientSeq = pending'[h][s][j].clientSeq => i = j
  <2>1. s \in Serves[h] /\ ~Handshaking(ClientOf[h])
    BY <1>5, WriterServes
  <2>2. PICK p \in PendingAction, m \in ToServer : WritesAs(h, s, a, p, m)
    BY <1>1, <1>5, WritesAre
  <2>3. /\ p.clientSeq = nextClientSeq[h] /\ p.action = a
        /\ pending'[h][s] = Append(pending[h][s], p)
        /\ a.resource = s /\ a.type \in {"turnStarted", "turnCancelled"}
        /\ nextClientSeq'[h] = nextClientSeq[h] + 1
    BY <2>2 DEF WritesAs
  <2>4. PICK d : d = Append(pending[h][s], p)
    OBVIOUS
  <2>5. /\ DOMAIN pending[h][s] = 1 .. Len(pending[h][s]) /\ Len(pending[h][s]) \in Nat
        /\ DOMAIN d = 1 .. Len(pending[h][s]) + 1 /\ d[Len(pending[h][s]) + 1] = p
        /\ \A i \in DOMAIN pending[h][s] : d[i] = pending[h][s][i]
    BY <1>1, <2>4, AppendIs
  <2>6. \A i \in DOMAIN d :
          \/ i \in DOMAIN pending[h][s] /\ d[i] = pending[h][s][i]
          \/ i = Len(pending[h][s]) + 1 /\ d[i] = p
    BY <2>5
  <2>7. \A i \in DOMAIN d :
          /\ d[i].action.resource = s
          /\ d[i].action.type \in {"turnStarted", "turnCancelled"}
          /\ d[i].clientSeq < nextClientSeq[h] + 1
    BY <1>3, <1>4, <2>3, <2>6
  <2>8. \A i, j \in DOMAIN d : d[i].clientSeq = d[j].clientSeq => i = j
    BY <1>3, <1>4, <2>3, <2>6
  <2> QED
    BY <1>2, <2>1, <2>3, <2>4, <2>7, <2>8
<1>6. ASSUME ~\E a : Writes(h, s, a)
      PROVE  /\ Waits(h, s)' => s \in Serves[h] /\ ~Handshaking(ClientOf[h])'
             /\ \A i \in DOMAIN pending'[h][s] :
                  /\ pending'[h][s][i].action.resource = s
                  /\ pending'[h][s][i].action.type \in {"turnStarted", "turnCancelled"}
                  /\ pending'[h][s][i].clientSeq < nextClientSeq'[h]
             /\ \A i, j \in DOMAIN pending'[h][s] :
                  pending'[h][s][i].clientSeq = pending'[h][s][j].clientSeq => i = j
  <2>1. /\ Waits(h, s)' => Waits(h, s)
        /\ \A i \in DOMAIN pending'[h][s] : \E k \in DOMAIN pending[h][s] :
             pending'[h][s][i] = pending[h][s][k]
        /\ \A i, j \in DOMAIN pending'[h][s] : i # j =>
             \E k, l \in DOMAIN pending[h][s] :
               k # l /\ pending'[h][s][i] = pending[h][s][k] /\ pending'[h][s][j] = pending[h][s][l]
    BY <1>6, WaitsKept
  <2>2. \A i \in DOMAIN pending'[h][s] :
          /\ pending'[h][s][i].action.resource = s
          /\ pending'[h][s][i].action.type \in {"turnStarted", "turnCancelled"}
          /\ pending'[h][s][i].clientSeq < nextClientSeq'[h]
    BY <1>3, <1>4, <2>1
  <2>3. \A i, j \in DOMAIN pending'[h][s] :
          pending'[h][s][i].clientSeq = pending'[h][s][j].clientSeq => i = j
    BY <1>4, <2>1
  <2> QED
    BY <1>2, <1>4, <2>1, <2>2, <2>3
<1> QED
  BY <1>5, <1>6

LEMMA FitsKept ==
  ASSUME AheadInv, [Next]_vars, NEW h \in Handler, NEW a, NEW n \in Nat, Fits(h, a, n)
  PROVE  Fits(h, a, n)'
<1>1. TypeOK /\ nextClientSeq[h] \in Nat /\ nextClientSeq'[h] \in Nat
      /\ nextClientSeq[h] <= nextClientSeq'[h]
  BY AheadIs, NumbersGrow
<1>2. n < nextClientSeq[h] /\ n < nextClientSeq'[h]
  BY <1>1 DEF Fits
<1>3. ASSUME NEW s \in Session, NEW i \in DOMAIN pending'[h][s], pending'[h][s][i].clientSeq = n
      PROVE  pending'[h][s][i].action = a
  <2>1. CASE \E k \in DOMAIN pending[h][s] : pending'[h][s][i] = pending[h][s][k]
    BY <1>3, <2>1 DEF Fits
  <2>2. ASSUME NEW b, Writes(h, s, b)
        PROVE  \E k \in DOMAIN pending[h][s] : pending'[h][s][i] = pending[h][s][k]
    <3>0. PICK p \in PendingAction, m \in ToServer : WritesAs(h, s, b, p, m)
      BY <1>1, <2>2, WritesAre
    <3>1. p.clientSeq = nextClientSeq[h] /\ pending'[h][s] = Append(pending[h][s], p)
      BY <3>0 DEF WritesAs
    <3>2. Has(Append(pending[h][s], p), pending'[h][s][i])
      BY <1>3, <3>1 DEF Has
    <3>3. pending[h][s] \in Seq(PendingAction)
      BY <1>1 DEF TypeOK
    <3>4. Has(pending[h][s], pending'[h][s][i]) \/ pending'[h][s][i] = p
      BY <3>2, <3>3, HasAppend
    <3> QED
      BY <1>2, <1>1, <1>3, <3>1, <3>4 DEF Has
  <2>3. CASE ~\E b : Writes(h, s, b)
    <3>1. \E k \in DOMAIN pending[h][s] : pending'[h][s][i] = pending[h][s][k]
      BY <2>3, WaitsKept
    <3> QED
      BY <2>1, <3>1
  <2> QED
    BY <2>1, <2>2, <2>3
<1> QED
  BY <1>2, <1>3 DEF Fits

\* A message on its way was on its way, or a handler or the server adds it.
LEMMA WritesQueued ==
  ASSUME TypeOK, NEW g \in Handler, NEW x \in Session, NEW a, NEW p \in PendingAction,
         NEW m \in ToServer, WritesAs(g, x, a, p, m)
  PROVE  \A c \in Client : \A y : Has(c2s'[c], y) <=>
           Has(c2s[c], y) \/ (c = ClientOf[g] /\ y = m)
<1> TAKE c \in Client
<1>1. c2s[c] \in Seq(ToServer)
  BY DEF TypeOK
<1>2. c2s'[c] = IF c = ClientOf[g] THEN Append(c2s[c], m) ELSE c2s[c]
  BY DEF WritesAs
<1>3. \A y : Has(Append(c2s[c], m), y) <=> Has(c2s[c], y) \/ y = m
  BY <1>1, HasAppend
<1> QED
  BY <1>2, <1>3

LEMMA OwnStep ==
  ASSUME OneSessionHandler, AheadInv, [Next]_vars
  PROVE  OwnInv'
<1>1. TypeOK /\ LifeInv /\ OwnInv
  BY AheadIs DEF AheadInv
<1>2. ASSUME NEW h \in Handler, Root \notin Serves[h], NEW m \in ToServer,
             Has(c2s'[ClientOf[h]], m), IsWrite(m)
      PROVE  Fits(h, m.action, m.clientSeq)'
  <2>1. m.clientSeq \in Nat
    BY <1>2 DEF ToServer, IsWrite
  <2>2. CASE Has(c2s[ClientOf[h]], m)
    BY <1>1, <1>2, <2>1, <2>2, FitsKept DEF OwnInv
  <2>3. ASSUME NEW g \in Handler, NEW x \in Session, NEW a \in SessionAction, Writes(g, x, a),
               ~Has(c2s[ClientOf[h]], m)
        PROVE  Fits(h, m.action, m.clientSeq)'
    <3>1. PICK p \in PendingAction, w \in ToServer : WritesAs(g, x, a, p, w)
      BY <1>1, <2>3, WritesAre
    <3>2. m = w /\ ClientOf[h] = ClientOf[g]
      <4>1. \A c \in Client : \A y : Has(c2s'[c], y) <=>
              Has(c2s[c], y) \/ (c = ClientOf[g] /\ y = w)
        BY <1>1, <3>1, WritesQueued
      <4> QED
        BY <1>2, <2>3, <4>1
    <3>3. g = h
      BY <1>2, <2>3, <3>2, WriterServes DEF OneSessionHandler
    <3>4. m.action = a /\ m.clientSeq = nextClientSeq[h] /\ nextClientSeq'[h] = nextClientSeq[h] + 1
      BY <3>1, <3>2, <3>3 DEF WritesAs
    <3>5. nextClientSeq[h] \in Nat
      BY NumbersGrow
    <3>6. ASSUME NEW s \in Session, NEW i \in DOMAIN pending'[h][s],
                 pending'[h][s][i].clientSeq = nextClientSeq[h]
          PROVE  pending'[h][s][i].action = a
      <4>1. pending[h][s] \in Seq(PendingAction)
        BY <1>1 DEF TypeOK
      <4>2. \A k \in DOMAIN pending[h][s] :
              /\ pending[h][s][k].clientSeq \in Nat
              /\ pending[h][s][k].clientSeq < nextClientSeq[h]
        BY <4>1, PendingTypes DEF AheadInv, PendingInv
      <4>3. ~Has(pending[h][s], pending'[h][s][i])
        BY <3>5, <3>6, <4>2 DEF Has
      <4>4. pending'[h][s] = pending[h][s]
            \/ (pending'[h][s] = Append(pending[h][s], p) /\ p.action = a)
        BY <3>1, <3>3 DEF WritesAs
      <4>5. Has(pending'[h][s], pending'[h][s][i])
        BY DEF Has
      <4>6. \A y : Has(Append(pending[h][s], p), y) <=> Has(pending[h][s], y) \/ y = p
        BY <4>1, HasAppend
      <4> QED
        BY <4>3, <4>4, <4>5, <4>6
    <3> QED
      BY <3>4, <3>5, <3>6 DEF Fits
  <2>4. (\A c \in Client : NoNewWrite(c2s[c], c2s'[c])) => Has(c2s[ClientOf[h]], m)
    BY <1>2 DEF NoNewWrite
  <2> QED
    BY <1>1, <2>2, <2>3, <2>4, UpStep
<1>3. ASSUME NEW h \in Handler, Root \notin Serves[h], NEW m \in ToClient,
             Has(s2c'[ClientOf[h]], m), IsEcho(m, ClientOf[h])
      PROVE  Fits(h, m.envelope.action, m.envelope.origin.clientSeq)'
  <2>1. m.envelope.origin.clientSeq \in Nat
    BY <1>3 DEF ToClient, IsEcho, Envelope, Origin
  <2>2. CASE Has(s2c[ClientOf[h]], m)
    BY <1>1, <1>3, <2>1, <2>2, FitsKept DEF OwnInv
  <2>3. ~Aside(m) /\ \A c : ~IsCopy(c, m)
    BY <1>3 DEF IsEcho, Aside, IsCopy
  <2>4. Silence => Has(s2c[ClientOf[h]], m)
    BY <1>3, <2>3 DEF Silence
  <2>5. ASSUME NEW a, Emission(a, NoOrigin)
        PROVE  Has(s2c[ClientOf[h]], m)
    BY <1>3, <2>3, <2>5 DEF Emission, EnvelopeMessage, IsEcho
  <2>6. ASSUME NEW c \in Client, HandleDispatchAction(c),
               Emission(Head(c2s[c]).action, [client |-> c, clientSeq |-> Head(c2s[c]).clientSeq]),
               ~Has(s2c[ClientOf[h]], m)
        PROVE  Fits(h, m.envelope.action, m.envelope.origin.clientSeq)'
    <3>1. /\ m.envelope.action = Head(c2s[c]).action /\ c = ClientOf[h]
          /\ m.envelope.origin.clientSeq = Head(c2s[c]).clientSeq
      BY <1>3, <2>3, <2>6 DEF Emission, EnvelopeMessage, IsEcho
    <3>2. /\ Head(c2s[c]) \in ToServer /\ Has(c2s[c], Head(c2s[c])) /\ IsWrite(Head(c2s[c]))
      BY <1>1, <2>6, HeadOfC2S, HasTail DEF HandleDispatchAction, Handling, IsWrite, TypeOK
    <3>3. Fits(h, m.envelope.action, m.envelope.origin.clientSeq)
      BY <1>1, <1>3, <3>1, <3>2 DEF OwnInv
    <3> QED
      BY <2>1, <3>3, FitsKept
  <2> QED
    BY <1>1, <2>2, <2>4, <2>5, <2>6, DownStep
<1> QED
  BY <1>2, <1>3 DEF OwnInv

\* A session the connection gets no snapshot of any more stays so.
LEMMA PastKept ==
  ASSUME HoldersInv, [Next]_vars, NEW c \in Client, NEW s \in Session,
         ~Handshaking(c), Past(c, s)
  PROVE  Past(c, s)'
<1>1. LifeInv /\ TypeOK /\ LinkInv /\ LifeInv'
  BY LifeStep DEF HoldersInv, LifeInv
<1>2. CASE link[c] # "open"
  <2>1. link[c] = "closed"
    BY <1>1, <1>2 DEF Handshaking, TypeOK
  <2>2. link'[c] = "closed"
    BY <1>1, <2>1, LinkStep
  <2> QED
    BY <2>2 DEF Past
<1>3. CASE link[c] = "open"
  <2>1. /\ phase[s] # "none" /\ ~HasSnapshot(s2c[c], s)
        /\ phase[s] # "live" \/ Disposed(c2s[c], s)
    BY <1>3 DEF Past
  <2>2. phase'[s] # "none"
    BY <1>1, <2>1, PhaseStep
  <2>3. phase'[s] # "live" \/ Disposed(c2s'[c], s)
    <3>1. CASE phase[s] = "live"
      BY <1>1, <1>3, <2>1, <3>1, DisposalStep
    <3>2. CASE phase[s] # "live"
      <4>1. phase[s] = "removed"
        BY <1>1, <2>1, <3>2 DEF TypeOK
      <4> QED
        BY <1>1, <4>1, PhaseStep
    <3> QED
      BY <3>1, <3>2
  <2>4. ~HasSnapshot(s2c'[c], s)
    <3> SUFFICES ASSUME NEW m, Has(s2c'[c], m), m.kind = "snapshot", m.resource = s
                 PROVE  FALSE
      BY DEF HasSnapshot, Has
    <3>1. ~Has(s2c[c], m)
      BY <2>1 DEF HasSnapshot, Has
    <3>2. ~Aside(m)
      BY DEF Aside
    <3>3. ASSUME NEW a, NEW o, Emission(a, o)
          PROVE  FALSE
      BY <3>1, <3>2, <3>3 DEF Emission, EnvelopeMessage
    <3>4. ~IsCopy(c, m)
      <4> SUFFICES ASSUME IsCopy(c, m)
                   PROVE  FALSE
        OBVIOUS
      <4>1. /\ HandleSubscribe(c) /\ Head(c2s[c]).kind = "subscribe"
            /\ Head(c2s[c]).resource = s /\ Live(s)
            /\ c2s[c] \in Seq(ToServer) /\ c2s[c] # <<>>
        BY <1>1 DEF IsCopy, HandleSubscribe, Handling, TypeOK
      <4>2. Disposed(c2s[c], s)
        BY <2>1, <4>1 DEF Live
      <4>3. ~Disposed(Tail(c2s[c]), s)
        BY <4>1, OrderlyTaken DEF HoldersInv
      <4>4. PICK i \in DOMAIN c2s[c] : Disposes(c2s[c][i], s)
        BY <4>2 DEF Disposed
      <4>5. i # 1
        BY <4>1, <4>4, TailIs DEF Disposes
      <4>6. i - 1 \in DOMAIN Tail(c2s[c]) /\ Tail(c2s[c])[i - 1] = c2s[c][i]
        BY <4>1, <4>5, TailIs
      <4> QED
        BY <4>3, <4>4, <4>6 DEF Disposed
    <3>5. ~Silence
      BY <3>1, <3>2, <3>4 DEF Silence
    <3> QED
      BY <1>1, <3>3, <3>5, DownStep
  <2> QED
    BY <2>2, <2>3, <2>4 DEF Past
<1> QED
  BY <1>2, <1>3

LEMMA NotFoundStep ==
  ASSUME HoldersInv, [Next]_vars, PastInv
  PROVE  \A c \in Client, s \in Session : \A m \in ToClient :
           Has(s2c'[c], m) /\ m.kind = "notFound" /\ m.resource = s => phase'[s] = "removed"
<1> SUFFICES ASSUME NEW c \in Client, NEW s \in Session, NEW m \in ToClient,
                    Has(s2c'[c], m), m.kind = "notFound", m.resource = s
             PROVE  phase'[s] = "removed"
  OBVIOUS
<1>1. LifeInv /\ TypeOK /\ LifeInv'
  BY LifeStep DEF HoldersInv, LifeInv
<1>2. CASE Has(s2c[c], m)
  BY <1>1, <1>2, PhaseStep DEF PastInv
<1>3. CASE ~Has(s2c[c], m)
  <2>1. \A d : ~IsCopy(d, m)
    BY DEF IsCopy
  <2>2. Aside(m)
    <3>1. Silence => Aside(m)
      BY <1>3, <2>1 DEF Silence
    <3>2. ASSUME NEW a, NEW o, Emission(a, o)
          PROVE  Aside(m)
      BY <1>3, <3>2 DEF Emission, EnvelopeMessage
    <3> QED
      BY <1>1, <3>1, <3>2, DownStep
  <2>3. phase[s] # "live"
    BY <2>2 DEF Aside, Live
  <2>4. phase[s] # "none"
    BY <2>2 DEF Aside, Unborn
  <2>5. phase[s] = "removed"
    BY <1>1, <2>3, <2>4 DEF TypeOK
  <2> QED
    BY <1>1, <2>5, PhaseStep
<1> QED
  BY <1>2, <1>3

\* Who opens a session has its snapshot, or is told that it is gone.
LEMMA ViewOpens ==
  ASSUME TypeOK, [Next]_vars, NEW h \in Handler, NEW s \in Session,
         view'[h][s] = "open", view[h][s] # "open"
  PROVE  \E c \in Client :
           \/ HandleSnapshot(c)
           \/ /\ SubscribeFails(c)
              /\ Head(s2c[c]).handler = h /\ Head(s2c[c]).resource = s
<1>0. s \in Resource
  BY DEF Resource
<1> SUFFICES ASSUME ~\E c \in Client : HandleSnapshot(c)
             PROVE  \E c \in Client :
                      /\ SubscribeFails(c)
                      /\ Head(s2c[c]).handler = h /\ Head(s2c[c]).resource = s
  OBVIOUS
<1>1. ASSUME NEW g, NEW r, NEW v, SetView(g, r, v), v # "open"
      PROVE  FALSE
  BY <1>0, <1>1 DEF SetView, TypeOK
<1>2. view' # view
  OBVIOUS
<1>3. ASSUME NEW c \in Client, HandleMessage(c) \/ Connect(c) \/ Disconnect(c) \/ HandleClose(c)
                               \/ Initialized(c) \/ ReceiveEnvelope(c)
      PROVE  FALSE
  BY <1>2, <1>3 DEF HandleMessage, HandleInitialize, HandleSubscribe, HandleUnsubscribe,
     HandleDispatchAction, HandleCreateSession, HandleDisposeSession, Connect, Disconnect,
     HandleClose, Initialized, ReceiveEnvelope, chat
<1>4. ASSUME NEW c \in Client, SessionCreateReturns(c) \/ SessionCreateThrows(c)
      PROVE  FALSE
  BY <1>1, <1>4 DEF SessionCreateReturns, SessionCreateThrows
<1>5. ASSUME NEW c \in Client, SubscribeFails(c)
      PROVE  Head(s2c[c]).handler = h /\ Head(s2c[c]).resource = s
  BY <1>0, <1>5 DEF SubscribeFails, SetView, TypeOK
<1>6. ASSUME NEW p \in creating, SessionCreated(p) \/ SessionCreationFails(p)
      PROVE  FALSE
  BY <1>2, <1>6 DEF SessionCreated, SessionCreationFails, chat
<1>7. ASSUME NEW x \in Session, AgentIdle(x)
      PROVE  FALSE
  BY <1>2, <1>7 DEF AgentIdle, chat
<1>8. ASSUME NEW g \in Handler, NEW r \in Resource, OpenExisting(g, r)
      PROVE  FALSE
  BY <1>1, <1>8 DEF OpenExisting
<1>9. ASSUME NEW g \in Handler, NEW x \in Session, CreateSession(g, x) \/ CloseSession(g, x)
      PROVE  FALSE
  BY <1>1, <1>9 DEF CreateSession, CloseSession
<1>10. ASSUME NEW g \in Handler, NEW x \in Session,
              CancelTurn(g, x) \/ \E t \in Turn : StartTurn(g, x, t)
       PROVE  FALSE
  BY <1>2, <1>10 DEF CancelTurn, StartTurn
<1>11. UNCHANGED vars => FALSE
  BY <1>2 DEF vars, chat
<1> QED
  BY <1>3, <1>4, <1>5, <1>6, <1>7, <1>8, <1>9, <1>10, <1>11 DEF Next, ReceiveMessage

\* Who has a copy keeps it, or closes the session.
LEMMA CopyKept ==
  ASSUME AheadInv, [Next]_vars, NEW h \in Handler, NEW r \in Resource, r \in subscribedSessions[h]
  PROVE  r \in subscribedSessions'[h] \/ (r \in Session /\ CloseSession(h, r))
<1>1. TypeOK
  BY AheadIs
<1>2. ASSUME NEW c \in Client, HandleSnapshot(c)
      PROVE  r \in subscribedSessions'[h]
  <2>1. PICK m \in ToClient, g \in Handler, x \in Resource : Opens(c, m, g, x)
    BY <1>2, SnapshotIs
  <2> QED
    BY <2>1 DEF Opens
<1>3. ASSUME NEW g \in Handler, NEW x \in Session, CloseSession(g, x)
      PROVE  r \in subscribedSessions'[h] \/ (g = h /\ x = r)
  <2>1. Closes(g, x)
    BY <1>1, <1>3, CloseIs
  <2> QED
    BY <2>1 DEF Closes
<1>4. ASSUME NEW c \in Client, ReceiveEnvelope(c)
      PROVE  UNCHANGED subscribedSessions
  BY <1>4 DEF ReceiveEnvelope
<1>5. ASSUME NEW g \in Handler, NEW x \in Session, NEW a, Writes(g, x, a)
      PROVE  UNCHANGED subscribedSessions
  BY <1>5 DEF Writes, StartTurn, CancelTurn
<1>6. Quiet => UNCHANGED subscribedSessions
  BY DEF Quiet, sync
<1> QED
  BY <1>1, <1>2, <1>3, <1>4, <1>5, <1>6, ClientStep

LEMMA ClosedIsPast ==
  ASSUME HoldersInv, NEW h \in Handler, NEW s \in Session, CloseSession(h, s)
  PROVE  Past(ClientOf[h], s)'
<1>1. LifeInv /\ TypeOK /\ s \in Resource
  BY DEF HoldersInv, LifeInv, Resource
<1>2. /\ view[h][s] = "open" /\ UNCHANGED <<s2c, phase>> /\ Disposed(c2s'[ClientOf[h]], s)
  BY <1>1, CloseIs DEF Closes, server
<1>3. phase[s] # "none" /\ s \in Serves[h]
  BY <1>1, <1>2 DEF LifeInv, ViewInv, Unborn
<1>4. ~HasSnapshot(s2c[ClientOf[h]], s)
  BY <1>1, <1>2, <1>3, AnswerIsFor DEF HasSnapshot, IsAnswer
<1> QED
  BY <1>2, <1>3, <1>4 DEF Past

LEMMA RefusedIsPast ==
  ASSUME AheadInv, NEW c \in Client, SubscribeFails(c), NEW h \in Handler, NEW s \in Session,
         Head(s2c[c]).handler = h, Head(s2c[c]).resource = s
  PROVE  Past(ClientOf[h], s)'
<1>1. LifeInv /\ TypeOK /\ PastInv /\ s \in Resource
  BY AheadIs DEF AheadInv, Resource
<1>2. Receiving(c, "notFound") /\ UNCHANGED phase
  BY DEF SubscribeFails, server
<1>3. PICK m \in ToClient : /\ m = Head(s2c[c]) /\ m.kind = "notFound" /\ DownOK(c, m)
                            /\ s2c[c] \in Seq(ToClient) /\ s2c[c] # <<>>
                            /\ s2c'[c] = Tail(s2c[c])
  BY <1>1, <1>2, Received, Popped
<1>4. ClientOf[h] = c /\ s \in Serves[h]
  BY <1>3 DEF DownOK, IsAnswer, Addressed
<1>5. Has(s2c[c], m)
  BY <1>3, HasTail
<1>6. phase[s] = "removed"
  BY <1>1, <1>3, <1>5 DEF PastInv
<1>7. ~Answered(s2c'[c], h, s)
  BY <1>1, <1>2, <1>3, <1>4, Received DEF About, IsAnswer
<1>8. ~HasSnapshot(s2c'[c], s)
  <2> SUFFICES ASSUME NEW i \in DOMAIN s2c'[c], s2c'[c][i].kind = "snapshot",
                      s2c'[c][i].resource = s
               PROVE  FALSE
    BY DEF HasSnapshot
  <2>1. i + 1 \in DOMAIN s2c[c] /\ s2c'[c][i] = s2c[c][i + 1]
    BY <1>3, TailIs
  <2>2. About(s2c[c][i + 1], h, s)
    BY <1>1, <1>4, <2>1, AnswerIsFor DEF IsAnswer
  <2> QED
    BY <1>7, <2>1, <2>2 DEF Answered, IsAnswer
<1> QED
  BY <1>2, <1>4, <1>6, <1>8 DEF Past

LEMMA PastStep ==
  ASSUME AheadInv, [Next]_vars
  PROVE  PastInv'
<1>1. LifeInv /\ TypeOK /\ HoldersInv /\ PastInv /\ PendingInv
  BY AheadIs DEF AheadInv
<1>2. ASSUME NEW h \in Handler, NEW s \in Session, Waits(h, s)' \/ view'[h][s] = "open"
      PROVE  s \in subscribedSessions'[h] \/ Past(ClientOf[h], s)'
  <2>0. s \in Resource
    BY DEF Resource
  <2>1. CASE Waits(h, s) \/ view[h][s] = "open"
    <3>1. s \in subscribedSessions[h] \/ Past(ClientOf[h], s)
      BY <1>1, <2>1 DEF PastInv
    <3>2. ~Handshaking(ClientOf[h])
      BY <1>1, <2>0, <2>1 DEF PendingInv, LifeInv, ViewInv
    <3>3. Past(ClientOf[h], s) => Past(ClientOf[h], s)'
      BY <1>1, <3>2, PastKept
    <3>4. s \in subscribedSessions[h] =>
            s \in subscribedSessions'[h] \/ Past(ClientOf[h], s)'
      BY <1>1, <2>0, CopyKept, ClosedIsPast
    <3> QED
      BY <3>1, <3>3, <3>4
  <2>2. CASE ~(Waits(h, s) \/ view[h][s] = "open")
    <3>1. ~\E a : Writes(h, s, a)
      BY <2>2, WriterServes
    <3>2. view'[h][s] = "open" /\ view[h][s] # "open"
      BY <1>2, <2>2, <3>1, WaitsKept
    <3>3. PICK c \in Client :
            \/ HandleSnapshot(c)
            \/ SubscribeFails(c) /\ Head(s2c[c]).handler = h /\ Head(s2c[c]).resource = s
      BY <1>1, <3>2, ViewOpens
    <3>4. ASSUME HandleSnapshot(c)
          PROVE  s \in subscribedSessions'[h]
      <4>1. PICK m \in ToClient, g \in Handler, r \in Resource : Opens(c, m, g, r)
        BY <3>4, SnapshotIs
      <4>2. g = h /\ r = s
        BY <2>0, <3>2, <4>1 DEF Opens
      <4> QED
        BY <4>1, <4>2 DEF Opens
    <3> QED
      BY <3>3, <3>4, RefusedIsPast
  <2> QED
    BY <2>1, <2>2
<1> QED
  BY <1>1, <1>2, NotFoundStep DEF PastInv
----------------------------------------------------------------------------
(* What a window shows                                                     *)

LEMMA RebaseIs ==
  ASSUME NEW st \in State, NEW pend \in Seq(PendingAction)
  PROVE  /\ Rebase(st, pend) \in State /\ Rebase(st, <<>>) = st
         /\ \A p \in PendingAction :
              Rebase(st, Append(pend, p)) = Reduce(Rebase(st, pend), p.action, 0)
<1>1. \A p \in PendingAction : p.action \in Action
  BY DEF PendingAction, Action
<1>2. \A x \in State : \A i \in 1 .. Len(pend) : Replay(x, pend[i]) \in State
  <2>1. \A i \in 1 .. Len(pend) : pend[i].action \in Action
    BY <1>1
  <2> QED
    BY <2>1, ReduceType DEF Replay
<1>3. Rebase(st, pend) \in State
  BY <1>2, FoldStays DEF Rebase
<1>4. \A q \in Seq(PendingAction) : \A p \in PendingAction :
        FoldLeft(Replay, st, Append(q, p)) = Replay(FoldLeft(Replay, st, q), p)
  BY FoldAppend
<1> QED
  BY <1>3, <1>4, FoldEmpty DEF Rebase, Replay

\* A turn that is started last is the active one.
LEMMA RebaseStarts ==
  ASSUME NEW st \in State, NEW pend \in Seq(PendingAction), NEW s, NEW t, Starts(pend, s, t)
  PROVE  Rebase(st, pend).activeTurn = t
<1>1. PICK u : Steps(st, pend, u) /\ FoldLeft(Replay, st, pend) = u[Len(pend)]
  BY FoldSteps
<1>2. /\ Len(pend) \in Nat /\ Len(pend) - 1 \in Nat /\ Len(pend) - 1 < Len(pend)
      /\ Len(pend) - 1 + 1 = Len(pend)
      /\ pend[Len(pend)].action = ActionOf("turnStarted", s, t)
  BY DEF Starts
<1>3. u[Len(pend)] = Replay(u[Len(pend) - 1], pend[Len(pend)])
  BY <1>1, <1>2 DEF Steps
<1>4. Rebase(st, pend) = u[Len(pend)]
  BY <1>1 DEF Rebase
<1>5. \A x, p : p.action = ActionOf("turnStarted", s, t) => Replay(x, p).activeTurn = t
  BY DEF Replay, Reduce, ActionOf
<1> QED
  BY <1>2, <1>3, <1>4, <1>5

\* What an envelope makes of the copies a handler has.
LEMMA ConfirmedIs ==
  ASSUME AheadInv, NEW c \in Client, NEW m \in ToClient, Takes(c, m),
         NEW h \in Handler, NEW r \in Resource
  PROVE  /\ confirmed'[h][r] = confirmed[h][r] \/
              /\ ClientOf[h] = c /\ r = m.envelope.action.resource /\ r \in subscribedSessions[h]
              /\ confirmed'[h][r].entries
                   = Append(confirmed[h][r].entries, EnvelopeEntry(m.envelope))
         /\ ClientOf[h] = c /\ r = m.envelope.action.resource /\ r \in subscribedSessions[h] =>
              confirmed'[h][r].entries
                = Append(confirmed[h][r].entries, EnvelopeEntry(m.envelope))
<1>1. LifeInv /\ TypeOK /\ m.envelope \in Envelope
  BY AheadIs DEF Takes
<1>2. /\ ClientOf[h] # c => confirmed'[h] = confirmed[h]
      /\ ClientOf[h] = c => confirmed'[h] = ConfirmedAfter(h, m.envelope)
  BY DEF Takes
<1>3. ClientOf[h] = c /\ r = m.envelope.action.resource /\ r \in subscribedSessions[h] =>
        confirmed'[h][r].entries = Append(confirmed[h][r].entries, EnvelopeEntry(m.envelope))
  <2>1. PICK env \in Envelope : env = m.envelope
    BY <1>1
  <2>2. env.action.resource \in subscribedSessions[h] =>
          ConfirmedAfter(h, env)[env.action.resource].entries
            = Append(confirmed[h][env.action.resource].entries, EnvelopeEntry(env))
    BY <1>1, HolderListens
  <2> QED
    BY <1>2, <2>1, <2>2
<1>4. r # m.envelope.action.resource \/ r \notin subscribedSessions[h] =>
        ConfirmedAfter(h, m.envelope)[r] = confirmed[h][r]
  BY <1>1 DEF ConfirmedAfter, TypeOK
<1> QED
  BY <1>2, <1>3, <1>4

LEMMA RebaseStep ==
  ASSUME AheadInv, [Next]_vars, TypeOK'
  PROVE  RebaseInv'
<1> DEFINE Sound(h, r) == r \in subscribedSessions'[h] =>
             optimistic'[h][r] = IF r = Root THEN confirmed'[h][r]
                                 ELSE Rebase(confirmed'[h][r], pending'[h][r])
           All == /\ optimistic' \in [Handler -> [Resource -> State]]
                  /\ \A h \in Handler, r \in Resource : Sound(h, r)
<1>1. LifeInv /\ TypeOK /\ optimistic \in [Handler -> [Resource -> State]]
  BY AheadIs DEF AheadInv, RebaseInv
<1>2. \A h \in Handler, r \in Resource : r \in subscribedSessions[h] =>
        optimistic[h][r] = IF r = Root THEN confirmed[h][r]
                           ELSE Rebase(confirmed[h][r], pending[h][r])
  BY DEF AheadInv, RebaseInv, OptimisticIsRebased
<1>3. Quiet => All
  BY <1>1, <1>2 DEF Quiet, sync
<1>4. ASSUME NEW c \in Client, HandleSnapshot(c)
      PROVE  All
  <2>1. PICK m \in ToClient, g \in Handler, x \in Resource : Opens(c, m, g, x)
    BY <1>4, SnapshotIs
  <2>2. m.state \in State
    BY <2>1 DEF Opens, ToClient
  <2>3. /\ optimistic' = [optimistic EXCEPT ![g][x] = m.state] /\ pending' = pending
        /\ \A h \in Handler, r \in Resource :
             confirmed'[h][r] = IF h = g /\ r = x THEN m.state ELSE confirmed[h][r]
        /\ \A h \in Handler :
             subscribedSessions'[h] = IF h = g THEN subscribedSessions[g] \cup {x}
                                      ELSE subscribedSessions[h]
        /\ x \in Session => pending[g][x] = <<>>
    BY <2>1 DEF Opens, Waits
  <2>4. x \in Session => Rebase(m.state, pending[g][x]) = m.state
    <3>1. <<>> \in Seq(PendingAction)
      OBVIOUS
    <3> QED
      BY <2>2, <2>3, <3>1, RebaseIs
  <2>5. Sound(g, x)
    BY <1>1, <2>3, <2>4 DEF Resource
  <2>6. \A h \in Handler, r \in Resource : h # g \/ r # x => Sound(h, r)
    BY <1>1, <1>2, <2>3
  <2>7. optimistic' \in [Handler -> [Resource -> State]]
    BY <1>1, <2>2, <2>3
  <2> QED
    BY <2>5, <2>6, <2>7
<1>5. ASSUME NEW g \in Handler, NEW x \in Session, CloseSession(g, x)
      PROVE  All
  <2>1. /\ optimistic' = [optimistic EXCEPT ![g][x] = InitialState]
        /\ \A h \in Handler, r \in Resource :
             confirmed'[h][r] = IF h = g /\ r = x THEN InitialState ELSE confirmed[h][r]
        /\ \A h \in Handler, s \in Session :
             pending'[h][s] = IF h = g /\ s = x THEN <<>> ELSE pending[h][s]
        /\ \A h \in Handler :
             subscribedSessions'[h] = IF h = g THEN subscribedSessions[g] \ {x}
                                      ELSE subscribedSessions[h]
    <3>1. Closes(g, x)
      BY <1>1, <1>5, CloseIs
    <3> QED
      BY <3>1 DEF Closes
  <2>2. \A h \in Handler, r \in Resource : Sound(h, r)
    BY <1>1, <1>2, <2>1 DEF Resource
  <2>3. optimistic' \in [Handler -> [Resource -> State]]
    BY <1>1, <2>1, InitialStateType
  <2> QED
    BY <2>2, <2>3
<1>6. ASSUME NEW g \in Handler, NEW x \in Session, NEW a, Writes(g, x, a)
      PROVE  All
  <2>0. x \in Resource /\ x # Root
    BY DEF Resource
  <2>1. PICK p \in PendingAction, m \in ToServer : WritesAs(g, x, a, p, m)
    BY <1>1, <1>6, WritesAre
  <2>2. /\ a \in SessionAction /\ a.resource = x /\ p.action = a /\ Dispatch(g, a)
        /\ UNCHANGED <<subscribedSessions, confirmed>>
        /\ \A h \in Handler, s \in Session :
             pending'[h][s] = IF h = g /\ s = x THEN Append(pending[g][x], p) ELSE pending[h][s]
    BY <2>1 DEF WritesAs
  <2>3. optimistic' = IF x \in subscribedSessions[g]
                      THEN [optimistic EXCEPT ![g][x] = Reduce(@, a, 0)] ELSE optimistic
    BY <2>2 DEF Dispatch
  <2>4. Reduce(optimistic[g][x], a, 0) \in State
    BY <1>1, <2>0, <2>2, ReduceType DEF Action
  <2>5. optimistic' \in [Handler -> [Resource -> State]]
    BY <1>1, <2>3, <2>4
  <2>6. pending[g][x] \in Seq(PendingAction) /\ confirmed[g][x] \in State
    BY <1>1, <2>0 DEF TypeOK
  <2>7. Rebase(confirmed[g][x], Append(pending[g][x], p))
          = Reduce(Rebase(confirmed[g][x], pending[g][x]), a, 0)
    BY <2>2, <2>6, RebaseIs
  <2>8. Sound(g, x)
    BY <1>1, <1>2, <2>0, <2>2, <2>3, <2>7
  <2>9. \A h \in Handler, r \in Resource : h # g \/ r # x => Sound(h, r)
    BY <1>1, <1>2, <2>2, <2>3 DEF Resource
  <2> QED
    BY <2>5, <2>8, <2>9
<1>7. ASSUME NEW c \in Client, ReceiveEnvelope(c)
      PROVE  All
  <2>1. PICK m \in ToClient : Takes(c, m)
    BY <1>1, <1>7, EnvelopeIs
  <2>2. PICK env \in Envelope : env = m.envelope /\ m = Head(s2c[c])
    BY <2>1 DEF Takes
  <2>3. /\ UNCHANGED subscribedSessions
        /\ \A h \in Handler : ClientOf[h] # c =>
             /\ pending'[h] = pending[h] /\ confirmed'[h] = confirmed[h]
             /\ optimistic'[h] = optimistic[h]
        /\ \A h \in Handler : ClientOf[h] = c =>
             /\ pending'[h] = PendingAfter(h, env) /\ confirmed'[h] = ConfirmedAfter(h, env)
             /\ optimistic'[h] = OptimisticAfter(h, env)
    BY <2>1, <2>2 DEF Takes
  <2>4. ASSUME NEW h \in Handler, NEW r \in Resource
        PROVE  Sound(h, r)
    <3> SUFFICES ASSUME ClientOf[h] = c, r \in subscribedSessions[h]
                 PROVE  optimistic'[h][r] = IF r = Root THEN confirmed'[h][r]
                                            ELSE Rebase(confirmed'[h][r], pending'[h][r])
      BY <1>2, <2>3
    <3>1. CASE r \in Recomputed(h, env)
      <4>1. OptimisticAfter(h, env)[r] = IF r = Root THEN ConfirmedAfter(h, env)[r]
                                         ELSE Rebase(ConfirmedAfter(h, env)[r], PendingAfter(h, env)[r])
        BY <3>1 DEF OptimisticAfter
      <4> QED
        BY <2>3, <4>1
    <3>2. CASE r \notin Recomputed(h, env)
      <4>1. optimistic'[h][r] = optimistic[h][r]
        BY <2>3, <3>2 DEF OptimisticAfter
      <4>2. CASE ~Listens(h, env)
        <5>1. ConfirmedAfter(h, env) = confirmed[h] /\ PendingAfter(h, env) = pending[h]
          BY <4>2 DEF ConfirmedAfter, PendingAfter
        <5> QED
          BY <1>2, <2>3, <4>1, <5>1
      <4>3. CASE Listens(h, env)
        <5>1. r # env.action.resource /\ (r \in Session => PendingAfter(h, env)[r] = <<>>)
          BY <3>2, <4>3 DEF Recomputed
        <5>2. confirmed'[h][r] = confirmed[h][r]
          BY <2>1, <2>2, <5>1, ConfirmedIs
        <5>3. r \in Session => pending'[h][r] = pending[h][r]
          BY <1>7, <2>2, <5>1, SettlesIs
        <5> QED
          BY <1>2, <4>1, <5>2, <5>3 DEF Resource
      <4> QED
        BY <4>2, <4>3
    <3> QED
      BY <3>1, <3>2
  <2>5. optimistic' \in [Handler -> [Resource -> State]]
    <3>1. ASSUME NEW h \in Handler, NEW r \in Resource
          PROVE  OptimisticAfter(h, env)[r] \in State \/ ClientOf[h] # c
      <4>1. CASE r \notin Recomputed(h, env)
        BY <1>1, <4>1 DEF OptimisticAfter
      <4>2. CASE r \in Recomputed(h, env) /\ ClientOf[h] = c
        <5>1. r \in subscribedSessions'[h]
          BY <2>3, <4>2 DEF Recomputed
        <5>2. /\ optimistic'[h][r] = OptimisticAfter(h, env)[r]
              /\ optimistic'[h][r] = IF r = Root THEN confirmed'[h][r]
                                     ELSE Rebase(confirmed'[h][r], pending'[h][r])
          BY <2>3, <2>4, <4>2, <5>1
        <5>3. confirmed'[h][r] \in State /\ (r \in Session => pending'[h][r] \in Seq(PendingAction))
          BY DEF TypeOK
        <5> QED
          BY <5>2, <5>3, RebaseIs DEF Resource
      <4> QED
        BY <4>1, <4>2
    <3>2. optimistic' = [h \in Handler |-> IF ClientOf[h] = c THEN OptimisticAfter(h, env)
                                           ELSE optimistic[h]]
      BY <1>7, <2>2 DEF ReceiveEnvelope
    <3>3. \A h \in Handler : ClientOf[h] = c => OptimisticAfter(h, env) \in [Resource -> State]
      <4>1. \A h \in Handler : OptimisticAfter(h, env) =
              [r \in Resource |-> OptimisticAfter(h, env)[r]]
        BY DEF OptimisticAfter
      <4> QED
        BY <3>1, <4>1
    <3> QED
      BY <1>1, <3>2, <3>3
  <2> QED
    BY <2>4, <2>5
<1>8. All
  BY <1>1, <1>3, <1>4, <1>5, <1>6, <1>7, ClientStep
<1>9. \A h \in Handler : subscribedSessions'[h] \subseteq Resource
  BY DEF TypeOK
<1> QED
  BY <1>8, <1>9 DEF RebaseInv, OptimisticIsRebased
----------------------------------------------------------------------------
(* A chat request waits for a turn that is started.                        *)

\* An envelope takes no start away but the one that it brings.
LEMMA EnvelopeStarts ==
  ASSUME AheadInv, NEW c \in Client, ReceiveEnvelope(c), NEW h \in Handler, NEW s \in Session,
         s \in subscribedSessions[h], NEW t,
         Started(confirmed[h][s], s, t) \/ Starts(pending[h][s], s, t)
  PROVE  Started(confirmed'[h][s], s, t) \/ Starts(pending'[h][s], s, t)
<1> DEFINE start == ActionOf("turnStarted", s, t)
<1>1. LifeInv /\ TypeOK /\ s \in Resource
  BY AheadIs DEF Resource
<1>2. PICK m \in ToClient : Takes(c, m)
  BY <1>1, EnvelopeIs
<1>3. PICK e \in Entry : e = EnvelopeEntry(m.envelope)
  <2>1. m.envelope \in Envelope
    BY <1>2 DEF Takes
  <2> QED
    BY <2>1 DEF EnvelopeEntry, Envelope, Entry
<1>4. PICK all \in Seq(Entry) : all = confirmed[h][s].entries
  <2>1. confirmed[h][s] \in State
    BY <1>1 DEF TypeOK
  <2> QED
    BY <2>1 DEF State
<1>5. confirmed'[h][s] = confirmed[h][s] \/ confirmed'[h][s].entries = Append(all, e)
  BY <1>1, <1>2, <1>3, <1>4, ConfirmedIs
<1>6. \A x : Has(all, x) => Has(Append(all, e), x)
  BY HasAppend
<1>7. \A st : Started(st, s, t) <=> \E x : Has(st.entries, x) /\ x.action = start
  BY DEF Started, Has
<1>8. Started(confirmed[h][s], s, t) => Started(confirmed'[h][s], s, t)
  <2> SUFFICES ASSUME Started(confirmed[h][s], s, t),
                      confirmed'[h][s].entries = Append(all, e)
               PROVE  Started(confirmed'[h][s], s, t)
    BY <1>5
  <2>1. PICK x : Has(all, x) /\ x.action = start
    BY <1>4, <1>7
  <2>2. Has(Append(all, e), x)
    BY <1>6, <2>1
  <2> QED
    BY <1>7, <2>1, <2>2
<1>9. ASSUME Starts(pending[h][s], s, t), pending'[h][s] # pending[h][s]
      PROVE  Started(confirmed'[h][s], s, t) \/ Starts(pending'[h][s], s, t)
  <2>1. PICK n \in Nat :
          /\ pending'[h][s] = DropPending(pending[h][s], n) /\ ClientOf[h] = c
          /\ Head(s2c[c]).envelope.action.resource = s
          /\ \A i \in DOMAIN pending[h][s] : pending[h][s][i].clientSeq = n =>
               pending[h][s][i].action = Head(s2c[c]).envelope.action
    BY <1>9, SettlesIs
  <2>2. PICK pend \in Seq(PendingAction) : pend = pending[h][s]
    BY <1>1 DEF TypeOK
  <2>3. pend # <<>> /\ Len(pend) \in DOMAIN pend /\ pend[Len(pend)].action = start
    BY <1>9, <2>2 DEF Starts
  <2>4. PICK d : d = DropPending(pend, n)
    OBVIOUS
  <2>5. CASE pend[Len(pend)].clientSeq # n
    <3>1. d # <<>> /\ d[Len(d)] = pend[Len(pend)]
      BY <2>3, <2>4, <2>5, DropKeeps DEF Leaves
    <3> QED
      BY <2>1, <2>2, <2>3, <2>4, <3>1 DEF Starts
  <2>6. CASE pend[Len(pend)].clientSeq = n
    <3>1. m.envelope.action = start /\ m.envelope.action.resource = s
      BY <1>2, <2>1, <2>2, <2>3, <2>6 DEF Takes
    <3>2. confirmed'[h][s].entries = Append(all, e)
      BY <1>1, <1>2, <1>3, <1>4, <2>1, <3>1, ConfirmedIs
    <3>3. Has(Append(all, e), e) /\ e.action = start
      BY <1>3, <3>1, HasAppend DEF EnvelopeEntry
    <3> QED
      BY <1>7, <3>2, <3>3
  <2> QED
    BY <2>5, <2>6
<1> QED
  BY <1>8, <1>9

LEMMA RunStep ==
  ASSUME AheadInv, [Next]_vars
  PROVE  RunInv'
<1> SUFFICES ASSUME NEW h \in Handler, NEW s \in Session,
                    s \in subscribedSessions'[h], running'[h][s] # NoTurn
             PROVE  \/ Started(confirmed'[h][s], s, running'[h][s])
                    \/ Starts(pending'[h][s], s, running'[h][s])
  BY DEF RunInv
<1>1. TypeOK /\ s \in Resource
  BY AheadIs DEF Resource
<1> DEFINE Old == /\ confirmed'[h][s] = confirmed[h][s] /\ pending'[h][s] = pending[h][s]
                  /\ running'[h][s] = running[h][s] /\ s \in subscribedSessions[h]
<1>2. CASE Old
  BY <1>2 DEF AheadInv, RunInv
<1>3. Quiet => Old
  BY DEF Quiet, sync
<1>4. ASSUME NEW c \in Client, HandleSnapshot(c)
      PROVE  Old
  <2>1. PICK m \in ToClient, g \in Handler, r \in Resource : Opens(c, m, g, r)
    BY <1>4, SnapshotIs
  <2>2. ~(h = g /\ s = r)
    BY <2>1 DEF Opens, Waits
  <2>3. /\ \A f \in Handler, y \in Resource :
             confirmed'[f][y] = IF f = g /\ y = r THEN m.state ELSE confirmed[f][y]
        /\ \A f \in Handler :
             subscribedSessions'[f] = IF f = g THEN subscribedSessions[g] \cup {r}
                                      ELSE subscribedSessions[f]
        /\ pending' = pending /\ running' = running
    <3>1. pending' = pending /\ running' = running
      BY <2>1 DEF Opens
    <3>2. \A f \in Handler :
             subscribedSessions'[f] = IF f = g THEN subscribedSessions[g] \cup {r}
                                      ELSE subscribedSessions[f]
      BY <2>1 DEF Opens
    <3>3. \A f \in Handler, y \in Resource :
             confirmed'[f][y] = IF f = g /\ y = r THEN m.state ELSE confirmed[f][y]
      BY <2>1 DEF Opens
    <3> QED
      BY <3>1, <3>2, <3>3
  <2>4. confirmed'[h][s] = confirmed[h][s]
    BY <1>1, <2>2, <2>3
  <2>5. s \in subscribedSessions[h]
    BY <2>2, <2>3
  <2> QED
    BY <2>3, <2>4, <2>5
<1>5. ASSUME NEW g \in Handler, NEW x \in Session, CloseSession(g, x)
      PROVE  Old
  <2>1. Closes(g, x)
    BY <1>1, <1>5, CloseIs
  <2>2. /\ confirmed'[h][s] = IF h = g /\ s = x THEN InitialState ELSE confirmed[h][s]
        /\ pending'[h][s] = IF h = g /\ s = x THEN <<>> ELSE pending[h][s]
        /\ subscribedSessions'[h] = IF h = g THEN subscribedSessions[g] \ {x}
                                    ELSE subscribedSessions[h]
        /\ UNCHANGED running
    BY <1>1, <2>1 DEF Closes
  <2> QED
    BY <2>2
<1>6. ASSUME NEW g \in Handler, NEW x \in Session, NEW a, Writes(g, x, a)
      PROVE  Old \/ Starts(pending'[h][s], s, running'[h][s])
  <2>1. PICK p \in PendingAction, m \in ToServer : WritesAs(g, x, a, p, m)
    BY <1>1, <1>6, WritesAre
  <2>2. CASE h = g /\ s = x
    <3>1. PICK q \in Seq(PendingAction) : q = pending[h][s]
      BY <1>1 DEF TypeOK
    <3>2. /\ pending'[h][s] = Append(q, p) /\ p.action = a
          /\ running'[h][s] = IF a.type = "turnStarted" THEN a.turn ELSE NoTurn
          /\ a = ActionOf(a.type, s, a.turn)
      BY <2>1, <2>2, <3>1 DEF WritesAs
    <3>3. Append(q, p) # <<>> /\ Append(q, p)[Len(Append(q, p))] = p
      BY AppendIs
    <3> QED
      BY <3>2, <3>3 DEF Starts
  <2>3. CASE ~(h = g /\ s = x)
    BY <1>1, <2>1, <2>3 DEF WritesAs
  <2> QED
    BY <2>2, <2>3
<1>7. ASSUME NEW c \in Client, ReceiveEnvelope(c)
      PROVE  \/ Started(confirmed'[h][s], s, running'[h][s])
             \/ Starts(pending'[h][s], s, running'[h][s])
  <2>1. s \in subscribedSessions[h]
    BY <1>7 DEF ReceiveEnvelope
  <2>2. running'[h][s] = running[h][s]
    <3>1. PICK m \in ToClient : Takes(c, m)
      BY <1>1, <1>7, EnvelopeIs
    <3>2. running'[h] = running[h] \/ running'[h] = RunningAfter(h, m.envelope)
      BY <3>1 DEF Takes
    <3> QED
      BY <3>2 DEF RunningAfter, Awaited
  <2>3. Started(confirmed[h][s], s, running[h][s]) \/ Starts(pending[h][s], s, running[h][s])
    BY <2>1, <2>2 DEF AheadInv, RunInv
  <2> QED
    BY <1>7, <2>1, <2>2, <2>3, EnvelopeStarts
<1> QED
  BY <1>1, <1>2, <1>3, <1>4, <1>5, <1>6, <1>7, ClientStep

LEMMA AheadStep ==
  ASSUME OneSessionHandler
  PROVE  AheadInv /\ [Next]_vars => AheadInv'
<1> SUFFICES ASSUME AheadInv, [Next]_vars
             PROVE  AheadInv'
  OBVIOUS
<1>1. HoldersInv'
  BY HoldersStep DEF AheadInv
<1>2. TypeOK'
  BY AheadIs, TypeStep
<1> QED
  BY <1>1, <1>2, PendingStep, OwnStep, PastStep, RebaseStep, RunStep DEF AheadInv

LEMMA AheadInit == Init => AheadInv
<1> SUFFICES ASSUME Init
             PROVE  AheadInv
  OBVIOUS
<1>1. HoldersInv /\ TypeOK
  BY SyncInit DEF SyncInv, HoldersInv, LifeInv
<1>2. \A x : ~Has(<<>>, x)
  BY DEF Has
<1>3. PendingInv
  BY DEF Init, PendingInv, Waits
<1>4. OwnInv
  BY <1>2 DEF Init, OwnInv
<1>5. PastInv
  BY <1>2 DEF Init, PastInv, Past
<1>6. RebaseInv
  BY <1>1 DEF Init, RebaseInv, OptimisticIsRebased, TypeOK
<1>7. RunInv
  BY DEF Init, RunInv
<1> QED
  BY <1>1, <1>3, <1>4, <1>5, <1>6, <1>7 DEF AheadInv

\* With one session handler on a connection, an echo settles the pending action
\* that it echoes and no other.
THEOREM EchoesSettleTheirs == OneSessionHandler => (Spec => EchoSettlesItsAction)
<1> SUFFICES ASSUME OneSessionHandler
             PROVE  Spec => EchoSettlesItsAction
  OBVIOUS
<1> DEFINE Settling == \A c \in Client : ReceiveEnvelope(c) =>
             \A h \in Handler, s \in Session : ClientOf[h] = c =>
               \A i \in DOMAIN pending[h][s] :
                 \/ \E j \in DOMAIN pending'[h][s] : pending'[h][s][j] = pending[h][s][i]
                 \/ pending[h][s][i].action = Head(s2c[c]).envelope.action
<1>1. AheadInv /\ [Next]_vars => [Settling]_vars
  <2> SUFFICES ASSUME AheadInv, NEW c \in Client, ReceiveEnvelope(c), NEW h \in Handler,
                      NEW s \in Session, NEW i \in DOMAIN pending[h][s]
               PROVE  \/ \E j \in DOMAIN pending'[h][s] : pending'[h][s][j] = pending[h][s][i]
                      \/ pending[h][s][i].action = Head(s2c[c]).envelope.action
    OBVIOUS
  <2>1. pending[h][s] \in Seq(PendingAction)
    BY AheadIs DEF TypeOK
  <2>2. ASSUME NEW n \in Nat, pending'[h][s] = DropPending(pending[h][s], n),
               pending[h][s][i].clientSeq # n
        PROVE  \E j \in DOMAIN pending'[h][s] : pending'[h][s][j] = pending[h][s][i]
    <3>1. PICK d : d = DropPending(pending[h][s], n)
      OBVIOUS
    <3>2. Has(d, pending[h][s][i])
      BY <2>1, <2>2, <3>1, DropKeeps DEF Leaves
    <3> QED
      BY <2>2, <3>1, <3>2 DEF Has
  <2> QED
    BY <2>2, SettlesIs
<1>2. Spec => []AheadInv
  BY AheadInit, AheadStep, PTL DEF Spec
<1> QED
  BY <1>1, <1>2, PTL DEF Spec, EchoSettlesItsAction

\* With one session handler on a connection, what a window shows of a session is
\* its copy of the session with its pending actions on top.
THEOREM WindowsShowRebased == OneSessionHandler => (Spec => []OptimisticIsRebased)
<1> SUFFICES ASSUME OneSessionHandler
             PROVE  Spec => []OptimisticIsRebased
  OBVIOUS
<1>1. AheadInv => OptimisticIsRebased
  BY DEF AheadInv, RebaseInv
<1> QED
  BY <1>1, AheadInit, AheadStep, PTL DEF Spec

\* With one session handler on a connection, no request ends by a change of state
\* before the turn it started is in its window's copy of the session.
THEOREM RequestsAreSequenced == OneSessionHandler => (Spec => RequestSequenced)
<1> SUFFICES ASSUME OneSessionHandler
             PROVE  Spec => RequestSequenced
  OBVIOUS
<1> DEFINE Sequencing == \A h \in Handler, s \in Session :
             running[h][s] # NoTurn /\ running'[h][s] # running[h][s] =>
               \/ CancelTurn(h, s)
               \/ \E i \in DOMAIN confirmed'[h][s].entries :
                    confirmed'[h][s].entries[i].action
                      = ActionOf("turnStarted", s, running[h][s])
<1>1. AheadInv /\ TypeOK' /\ [Next]_vars => [Sequencing]_vars
  <2> SUFFICES ASSUME AheadInv, TypeOK', [Next]_vars, NEW h \in Handler, NEW s \in Session,
                      running[h][s] # NoTurn, running'[h][s] # running[h][s]
               PROVE  CancelTurn(h, s) \/ Started(confirmed'[h][s], s, running[h][s])
    BY DEF Started
  <2>1. TypeOK /\ s \in Resource
    BY AheadIs DEF Resource
  <2>2. ~Quiet /\ ~\E c \in Client : HandleSnapshot(c)
    <3>1. ASSUME NEW c \in Client, HandleSnapshot(c)
          PROVE  UNCHANGED running
      BY <3>1, SnapshotIs DEF Opens
    <3> QED
      BY <3>1 DEF Quiet
  <2>3. ASSUME NEW g \in Handler, NEW x \in Session, CloseSession(g, x)
        PROVE  FALSE
    BY <2>3 DEF CloseSession
  <2>4. ASSUME NEW g \in Handler, NEW x \in Session, NEW a, Writes(g, x, a)
        PROVE  CancelTurn(h, s)
    <3>1. PICK p \in PendingAction, m \in ToServer : WritesAs(g, x, a, p, m)
      BY <2>1, <2>4, WritesAre
    <3>2. h = g /\ s = x
      BY <3>1 DEF WritesAs
    <3> QED
      BY <2>4, <3>2 DEF Writes, StartTurn
  <2>5. ASSUME NEW c \in Client, ReceiveEnvelope(c)
        PROVE  Started(confirmed'[h][s], s, running[h][s])
    <3>1. PICK m \in ToClient : Takes(c, m)
      BY <2>1, <2>5, EnvelopeIs
    <3>2. /\ running'[h] = RunningAfter(h, m.envelope)
          /\ confirmed'[h] = ConfirmedAfter(h, m.envelope)
          /\ pending'[h] = PendingAfter(h, m.envelope)
          /\ optimistic'[h] = OptimisticAfter(h, m.envelope)
      BY <3>1 DEF Takes
    <3>3. /\ s \in Recomputed(h, m.envelope)
          /\ OptimisticAfter(h, m.envelope)[s].activeTurn # running[h][s]
      BY <3>2 DEF RunningAfter, Awaited
    <3>4. s \in subscribedSessions[h]
      BY <3>3 DEF Recomputed
    <3>5. OptimisticAfter(h, m.envelope)[s] = Rebase(confirmed'[h][s], pending'[h][s])
      BY <2>1, <3>2, <3>3 DEF OptimisticAfter
    <3>6. confirmed'[h][s] \in State /\ pending'[h][s] \in Seq(PendingAction)
      BY <2>1 DEF TypeOK
    <3>7. ~Starts(pending'[h][s], s, running[h][s])
      BY <3>3, <3>5, <3>6, RebaseStarts
    <3>8. Started(confirmed[h][s], s, running[h][s]) \/ Starts(pending[h][s], s, running[h][s])
      BY <3>4 DEF AheadInv, RunInv
    <3> QED
      BY <2>5, <3>4, <3>7, <3>8, EnvelopeStarts
  <2> QED
    BY <2>1, <2>2, <2>3, <2>4, <2>5, ClientStep
<1>2. Spec => []AheadInv
  BY AheadInit, AheadStep, PTL DEF Spec
<1>3. Spec => []TypeOK
  BY TypeCorrect
<1> QED
  BY <1>1, <1>2, <1>3, PTL DEF Spec, RequestSequenced
----------------------------------------------------------------------------
(* Every action is applied once                                            *)

\* The message brings entry e of resource r.
Brings(m, r, e) ==
  \/ Carries(m, r) /\ EntryOf(m) = e
  \/ m.kind = "snapshot" /\ m.resource = r /\ Has(m.state.entries, e)

(* Where an action is: with a number, in the state of its session, in a    *)
(* copy of it or on its way to one; queued to get one; written ahead.      *)
Sequenced(s, e) ==
  \/ Has(state[s].entries, e)
  \/ \E h \in Handler : Has(confirmed[h][s].entries, e)
  \/ \E c \in Client : \E m \in ToClient : Has(s2c[c], m) /\ Brings(m, s, e)

SequencedAction(a) == \E e \in Entry : e.action = a /\ Sequenced(a.resource, e)

Queued(a) == \E c \in Client : \E m \in ToServer : Has(c2s[c], m) /\ IsWriteOf(m, a)
WrittenAhead(a) ==
  \E h \in Handler, s \in Session : \E i \in DOMAIN pending[h][s] : pending[h][s][i].action = a
Known(a) == SequencedAction(a) \/ Queued(a) \/ WrittenAhead(a)

\* An action gets one number.
NumberedOnce ==
  \A s \in Session, e \in Entry : Sequenced(s, e) =>
    /\ e.action.resource = s
    /\ \A f \in Entry : Sequenced(s, f) /\ e.action = f.action => e = f

\* It has none while it is queued, in one place.
QueuedOnce ==
  \A a \in SessionAction :
    /\ Queued(a) => ~SequencedAction(a) /\ a.type \in {"turnStarted", "turnCancelled"}
    /\ \A c, d \in Client, m, n \in ToServer :
         Has(c2s[c], m) /\ IsWriteOf(m, a) /\ Has(c2s[d], n) /\ IsWriteOf(n, a) => c = d
    /\ \A c \in Client : WritesOnce(c2s[c], a)

\* The turns of actions are used; who waits for a turn waits for it alone, and
\* it is not cancelled.
TurnsUsed == \A a \in SessionAction : Known(a) /\ a.turn # NoTurn => a.turn \in usedTurns
TurnsAwaited ==
  \A h \in Handler, s \in Session, t \in Turn : running[h][s] = t =>
    /\ ~Known(ActionOf("turnCancelled", s, t))
    /\ \A g \in Handler : running[g][s] = t => g = h

\* What the server emits itself it has not emitted before: the end of the
\* active turn, and that a new session is ready.
EmittedOnce ==
  /\ \A s \in Session, t \in Turn :
       /\ state[s].activeTurn = t => ~Queued(ActionOf("turnStarted", s, t))
       /\ SequencedAction(ActionOf("turnComplete", s, t)) =>
            state[s].activeTurn # t /\ ~Queued(ActionOf("turnStarted", s, t))
  /\ \A s \in Session : SequencedAction(ActionOf("ready", s, NoTurn)) => phase[s] # "none"

OnceInv == NumberedOnce /\ QueuedOnce /\ TurnsUsed /\ TurnsAwaited /\ EmittedOnce

(* A pending action is in one place of its session, and not in the copy    *)
(* its handler has; where it is under way, it is under its own number.     *)
PairInv ==
  \A h \in Handler, s \in Session :
    /\ \A i, j \in DOMAIN pending[h][s] : pending[h][s][i].action = pending[h][s][j].action => i = j
    /\ \A i \in DOMAIN pending[h][s] : LET p == pending[h][s][i] IN
         /\ \A c \in Client, m \in ToServer : Has(c2s[c], m) /\ IsWriteOf(m, p.action) =>
              c = ClientOf[h] /\ m.clientSeq = p.clientSeq
         /\ \A m \in ToClient :
              Has(s2c[ClientOf[h]], m) /\ m.kind = "action" /\ m.envelope.action = p.action =>
                IsEcho(m, ClientOf[h]) /\ m.envelope.origin.clientSeq = p.clientSeq
         /\ s \in subscribedSessions[h] =>
              \A e \in Entry : Has(confirmed[h][s].entries, e) => e.action # p.action

\* The entries of copies and snapshots are in order, and have been seen.
EntriesInOrder(all, n) ==
  /\ \A i \in DOMAIN all : all[i].serverSeq <= n
  /\ Increasing(all)

CopiesInv ==
  /\ \A h \in Handler, r \in Resource : EntriesInOrder(confirmed[h][r].entries, lastSeenServerSeq[h])
  /\ \A c \in Client, m \in ToClient :
       Has(s2c[c], m) /\ m.kind = "snapshot" => EntriesInOrder(m.state.entries, m.fromSeq)

\* What is in a copy was in it, or is brought to it.
LEMMA CopyHas ==
  ASSUME AheadInv, [Next]_vars, NEW h \in Handler, NEW r \in Resource, NEW e,
         Has(confirmed'[h][r].entries, e), ~Has(confirmed[h][r].entries, e)
  PROVE  \E m \in ToClient : Has(s2c[ClientOf[h]], m) /\ Brings(m, r, e)
<1>1. TypeOK
  BY AheadIs
<1>2. ~Quiet
  BY DEF Quiet, sync
<1>3. ASSUME NEW c \in Client, HandleSnapshot(c)
      PROVE  \E m \in ToClient : Has(s2c[ClientOf[h]], m) /\ Brings(m, r, e)
  <2>1. PICK m \in ToClient, g \in Handler, y \in Resource : Opens(c, m, g, y)
    BY <1>3, SnapshotIs
  <2>2. confirmed'[h][r] = IF h = g /\ r = y THEN m.state ELSE confirmed[h][r]
    BY <2>1 DEF Opens
  <2>3. m.kind = "snapshot" /\ Has(s2c[c], m) /\ ClientOf[g] = c /\ m.resource = y
    BY <2>1 DEF Opens
  <2> QED
    BY <2>2, <2>3 DEF Brings
<1>4. ASSUME NEW c \in Client, ReceiveEnvelope(c)
      PROVE  \E m \in ToClient : Has(s2c[ClientOf[h]], m) /\ Brings(m, r, e)
  <2>1. PICK m \in ToClient : Takes(c, m)
    BY <1>1, <1>4, EnvelopeIs
  <2>2. PICK f \in Entry : f = EnvelopeEntry(m.envelope)
    <3>1. m.envelope \in Envelope
      BY <2>1 DEF Takes
    <3> QED
      BY <3>1 DEF EnvelopeEntry, Envelope, Entry
  <2>3. PICK all \in Seq(Entry) : all = confirmed[h][r].entries
    <3>1. confirmed[h][r] \in State
      BY <1>1 DEF TypeOK
    <3> QED
      BY <3>1 DEF State
  <2>4. /\ ClientOf[h] = c /\ r = m.envelope.action.resource
        /\ confirmed'[h][r].entries = Append(all, f)
    BY <2>1, <2>2, <2>3, ConfirmedIs
  <2>5. e = f
    <3>1. \A x : Has(Append(all, f), x) <=> Has(all, x) \/ x = f
      BY HasAppend
    <3> QED
      BY <2>3, <2>4, <3>1
  <2>6. m.kind = "action" /\ Has(s2c[c], m)
    BY <2>1 DEF Takes
  <2> QED
    BY <2>2, <2>4, <2>5, <2>6 DEF Brings, Carries, EntryOf, EnvelopeEntry
<1>5. ASSUME NEW g \in Handler, NEW x \in Session, CloseSession(g, x)
      PROVE  FALSE
  <2>1. confirmed'[h][r] = IF h = g /\ r = x THEN InitialState ELSE confirmed[h][r]
    BY <1>1, <1>5, CloseIs DEF Closes
  <2>2. ~Has(InitialState.entries, e)
    BY DEF InitialState, Has
  <2> QED
    BY <2>1, <2>2
<1>6. ASSUME NEW g \in Handler, NEW x \in Session, NEW a, Writes(g, x, a)
      PROVE  FALSE
  <2>1. PICK p \in PendingAction, m \in ToServer : WritesAs(g, x, a, p, m)
    BY <1>1, <1>6, WritesAre
  <2> QED
    BY <2>1 DEF WritesAs
<1> QED
  BY <1>1, <1>2, <1>3, <1>4, <1>5, <1>6, ClientStep

\* The step gives action a a number.
Numbers(a) ==
  \/ \E c \in Client : HandleDispatchAction(c) /\ a = Head(c2s[c]).action
  \/ \E s \in Session :
       /\ AgentIdle(s) /\ state[s].activeTurn \in Turn
       /\ a = ActionOf("turnComplete", s, state[s].activeTurn)
  \/ \E p \in creating :
       /\ SessionCreated(p) /\ p.resource \in Session
       /\ a = ActionOf("ready", p.resource, NoTurn)

\* The session entries that are new after a step are the one it numbers.
NewEntry(f) ==
  \A s \in Session, e \in Entry : Sequenced(s, e)' =>
    Sequenced(s, e) \/ (e = f /\ f.action.resource = s /\ Numbers(f.action))

LEMMA EmissionNumbers ==
  ASSUME AheadInv, [Next]_vars, NEW a, NEW origin, Emission(a, origin), Numbers(a)
  PROVE  \E f \in Entry : NewEntry(f)
<1>1. PICK env \in Envelope :
        /\ env.action = a
        /\ \A c \in Client : \A m : Has(s2c'[c], m) =>
             Has(s2c[c], m) \/ Aside(m) \/ m = EnvelopeMessage(env)
        /\ \A r \in Resource : \A e : Has(state'[r].entries, e) =>
             \/ Has(state[r].entries, e)
             \/ r = Root /\ e.action.resource = Root
             \/ r = env.action.resource /\ e = EnvelopeEntry(env)
  BY DEF Emission
<1>2. PICK f \in Entry : f = EnvelopeEntry(env)
  BY DEF EnvelopeEntry, Envelope, Entry
<1>3. f.action = a /\ f.action = env.action
  BY <1>1, <1>2 DEF EnvelopeEntry
<1>4. ASSUME NEW s \in Session, NEW e \in Entry, Sequenced(s, e)'
      PROVE  Sequenced(s, e) \/ (e = f /\ f.action.resource = s)
  <2>1. s \in Resource /\ s # Root
    BY DEF Resource
  <2>2. CASE Has(state'[s].entries, e)
    BY <1>1, <1>2, <1>3, <2>1, <2>2 DEF Sequenced
  <2>3. ASSUME NEW h \in Handler, Has(confirmed'[h][s].entries, e)
        PROVE  Sequenced(s, e)
    <3>1. CASE Has(confirmed[h][s].entries, e)
      BY <3>1 DEF Sequenced
    <3>2. CASE ~Has(confirmed[h][s].entries, e)
      <4>1. PICK m \in ToClient : Has(s2c[ClientOf[h]], m) /\ Brings(m, s, e)
        BY <2>1, <2>3, <3>2, CopyHas
      <4>2. ClientOf[h] \in Client
        OBVIOUS
      <4> QED
        BY <4>1, <4>2 DEF Sequenced
    <3> QED
      BY <3>1, <3>2
  <2>4. ASSUME NEW c \in Client, NEW m \in ToClient, Has(s2c'[c], m), Brings(m, s, e)
        PROVE  Sequenced(s, e) \/ (e = f /\ f.action.resource = s)
    <3>1. ~Aside(m)
      BY <2>1, <2>4 DEF Brings, Carries, Aside
    <3>2. CASE Has(s2c[c], m)
      BY <2>4, <3>2 DEF Sequenced
    <3>3. CASE m = EnvelopeMessage(env)
      BY <1>2, <1>3, <2>4, <3>3 DEF EnvelopeMessage, Brings, Carries, EntryOf, EnvelopeEntry
    <3> QED
      BY <1>1, <2>4, <3>1, <3>2, <3>3
  <2> QED
    BY <1>4, <2>2, <2>3, <2>4 DEF Sequenced
<1> QED
  BY <1>3, <1>4 DEF NewEntry

LEMMA SilenceNumbers ==
  ASSUME AheadInv, [Next]_vars, Silence, NEW s \in Session, NEW e \in Entry, Sequenced(s, e)'
  PROVE  Sequenced(s, e)
<1>1. s \in Resource /\ s # Root
  BY DEF Resource
<1>2. CASE Has(state'[s].entries, e)
  BY <1>1, <1>2 DEF Silence, Sequenced
<1>3. ASSUME NEW h \in Handler, Has(confirmed'[h][s].entries, e)
      PROVE  Sequenced(s, e)
  <2>1. CASE Has(confirmed[h][s].entries, e)
    BY <2>1 DEF Sequenced
  <2>2. CASE ~Has(confirmed[h][s].entries, e)
    <3>1. PICK m \in ToClient : Has(s2c[ClientOf[h]], m) /\ Brings(m, s, e)
      BY <1>1, <1>3, <2>2, CopyHas
    <3>2. ClientOf[h] \in Client
      OBVIOUS
    <3> QED
      BY <3>1, <3>2 DEF Sequenced
  <2> QED
    BY <2>1, <2>2
<1>4. ASSUME NEW c \in Client, NEW m \in ToClient, Has(s2c'[c], m), Brings(m, s, e)
      PROVE  Sequenced(s, e)
  <2>1. ~Aside(m)
    BY <1>1, <1>4 DEF Brings, Carries, Aside
  <2>2. CASE Has(s2c[c], m)
    BY <1>4, <2>2 DEF Sequenced
  <2>3. CASE IsCopy(c, m)
    <3>1. m.kind = "snapshot" /\ m.state = state[m.resource]
      BY <2>3 DEF IsCopy
    <3>2. Has(state[s].entries, e)
      BY <1>4, <3>1 DEF Brings, Carries
    <3> QED
      BY <3>2 DEF Sequenced
  <2> QED
    BY <1>4, <2>1, <2>2, <2>3 DEF Silence
<1> QED
  BY <1>2, <1>3, <1>4 DEF Sequenced

LEMMA NumberStep ==
  ASSUME AheadInv, [Next]_vars
  PROVE  \E f \in Entry : NewEntry(f)
<1>1. LifeInv
  BY AheadIs
<1>2. CASE Silence
  <2>1. PICK f \in Entry : f = [serverSeq |-> 0, action |-> ActiveSessionsChanged(0)]
    BY DEF Entry, ActiveSessionsChanged, Action, RootAction
  <2> QED
    BY <1>2, <2>1, SilenceNumbers DEF NewEntry
<1>3. ASSUME NEW c \in Client, HandleDispatchAction(c),
             Emission(Head(c2s[c]).action, [client |-> c, clientSeq |-> Head(c2s[c]).clientSeq])
      PROVE  \E f \in Entry : NewEntry(f)
  <2>1. Numbers(Head(c2s[c]).action)
    BY <1>3 DEF Numbers
  <2> QED
    BY <1>3, <2>1, EmissionNumbers
<1>4. ASSUME NEW s \in Session, AgentIdle(s), state[s].activeTurn \in Turn,
             Emission(ActionOf("turnComplete", s, state[s].activeTurn), NoOrigin)
      PROVE  \E f \in Entry : NewEntry(f)
  <2>1. Numbers(ActionOf("turnComplete", s, state[s].activeTurn))
    BY <1>4 DEF Numbers
  <2> QED
    BY <1>4, <2>1, EmissionNumbers
<1>5. ASSUME NEW p \in creating, SessionCreated(p), p.resource \in Session,
             Emission(ActionOf("ready", p.resource, NoTurn), NoOrigin)
      PROVE  \E f \in Entry : NewEntry(f)
  <2>1. Numbers(ActionOf("ready", p.resource, NoTurn))
    BY <1>5 DEF Numbers
  <2> QED
    BY <1>5, <2>1, EmissionNumbers
<1> QED
  BY <1>1, <1>2, <1>3, <1>4, <1>5, DownStep

----------------------------------------------------------------------------
(* Writes and numbers are given to actions that are new to them.           *)

LEMMA QueuedStep ==
  ASSUME AheadInv, [Next]_vars, NEW a, Queued(a)'
  PROVE  Queued(a) \/ \E h \in Handler, s \in Session : Writes(h, s, a)
<1>1. TypeOK
  BY AheadIs
<1>2. PICK c \in Client, y \in ToServer : Has(c2s'[c], y) /\ IsWriteOf(y, a)
  BY DEF Queued
<1>3. CASE \A d \in Client : NoNewWrite(c2s[d], c2s'[d])
  <2>1. Has(c2s[c], y)
    BY <1>2, <1>3 DEF NoNewWrite, IsWriteOf
  <2> QED
    BY <1>2, <2>1 DEF Queued
<1>4. ASSUME NEW g \in Handler, NEW x \in Session, NEW b \in SessionAction, Writes(g, x, b)
      PROVE  Queued(a) \/ Writes(g, x, a)
  <2>1. PICK p \in PendingAction, m \in ToServer : WritesAs(g, x, b, p, m)
    BY <1>1, <1>4, WritesAre
  <2>2. Has(c2s[c], y) \/ y = m
    <3>1. PICK q \in Seq(ToServer) : q = c2s[c]
      BY <1>1 DEF TypeOK
    <3>2. c2s'[c] = q \/ c2s'[c] = Append(q, m)
      BY <2>1, <3>1 DEF WritesAs
    <3>3. \A z : Has(Append(q, m), z) <=> Has(q, z) \/ z = m
      BY HasAppend
    <3> QED
      BY <1>2, <3>1, <3>2, <3>3
  <2>3. m.action = b
    BY <2>1 DEF WritesAs
  <2> QED
    BY <1>2, <1>4, <2>2, <2>3 DEF Queued, IsWriteOf
<1> QED
  BY <1>1, <1>3, <1>4, UpStep

LEMMA WrittenStep ==
  ASSUME AheadInv, [Next]_vars, NEW a, WrittenAhead(a)'
  PROVE  WrittenAhead(a) \/ \E h \in Handler, s \in Session : Writes(h, s, a)
<1>1. TypeOK
  BY AheadIs
<1> PICK h \in Handler, s \in Session : \E i \in DOMAIN pending'[h][s] : pending'[h][s][i].action = a
  BY DEF WrittenAhead
<1>2. PICK i \in DOMAIN pending'[h][s] : pending'[h][s][i].action = a
  OBVIOUS
<1>3. CASE ~\E b : Writes(h, s, b)
  <2>1. PICK k \in DOMAIN pending[h][s] : pending'[h][s][i] = pending[h][s][k]
    BY <1>3, WaitsKept
  <2> QED
    BY <1>2, <2>1 DEF WrittenAhead
<1>4. ASSUME NEW b, Writes(h, s, b)
      PROVE  WrittenAhead(a) \/ Writes(h, s, a)
  <2>1. PICK p \in PendingAction, m \in ToServer : WritesAs(h, s, b, p, m)
    BY <1>1, <1>4, WritesAre
  <2>2. PICK q \in Seq(PendingAction) : q = pending[h][s]
    BY <1>1 DEF TypeOK
  <2>3. pending'[h][s] = Append(q, p) /\ p.action = b
    BY <2>1, <2>2 DEF WritesAs
  <2>4. i \in DOMAIN Append(q, p) /\ Append(q, p)[i].action = a
    BY <1>2, <2>3
  <2>5. (i \in DOMAIN q /\ q[i].action = a) \/ a = b
    BY <2>3, <2>4, AppendIs
  <2> QED
    BY <1>4, <2>2, <2>5 DEF WrittenAhead
<1> QED
  BY <1>3, <1>4

LEMMA KnownStep ==
  ASSUME AheadInv, [Next]_vars, NEW a \in SessionAction
  PROVE  /\ SequencedAction(a)' => SequencedAction(a) \/ Numbers(a)
         /\ Known(a)' => Known(a) \/ Numbers(a) \/ \E h \in Handler, s \in Session : Writes(h, s, a)
<1>1. ASSUME SequencedAction(a)'
      PROVE  SequencedAction(a) \/ Numbers(a)
  <2>1. PICK e \in Entry : e.action = a /\ Sequenced(a.resource, e)'
    BY <1>1 DEF SequencedAction
  <2>2. PICK f \in Entry : NewEntry(f)
    BY NumberStep
  <2>3. a.resource \in Session
    BY DEF SessionAction
  <2>4. Sequenced(a.resource, e) \/ (e = f /\ Numbers(f.action))
    BY <2>1, <2>2, <2>3 DEF NewEntry
  <2> QED
    BY <2>1, <2>4 DEF SequencedAction
<1>2. Known(a)' => SequencedAction(a)' \/ Queued(a)' \/ WrittenAhead(a)'
  BY DEF Known
<1> QED
  BY <1>1, <1>2, QueuedStep, WrittenStep DEF Known

\* What is numbered is not written in the same step.
LEMMA NumbersAlone ==
  ASSUME TypeOK, NEW a, Numbers(a)
  PROVE  /\ UNCHANGED <<running, usedTurns, pending>>
         /\ ~\E h \in Handler, s \in Session : \E b : Writes(h, s, b)
<1>1. UNCHANGED <<sync, chat>>
  BY DEF Numbers, HandleDispatchAction, AgentIdle, SessionCreated
<1>2. ASSUME NEW h \in Handler, NEW s \in Session, NEW b, Writes(h, s, b)
      PROVE  FALSE
  <2>1. PICK p \in PendingAction, m \in ToServer : WritesAs(h, s, b, p, m)
    BY <1>2, WritesAre
  <2>2. nextClientSeq'[h] = nextClientSeq[h] + 1 /\ nextClientSeq[h] \in Nat
    BY <2>1 DEF WritesAs, TypeOK
  <2>3. nextClientSeq' = nextClientSeq
    BY <1>1 DEF sync
  <2> QED
    BY <2>2, <2>3
<1> QED
  BY <1>1, <1>2 DEF sync, chat

\* The message whose action the server takes is gone from the queue.
LEMMA HeadQueued ==
  ASSUME TypeOK, NEW c \in Client, HandleDispatchAction(c)
  PROVE  \E m \in ToServer :
           /\ m = Head(c2s[c]) /\ Has(c2s[c], m) /\ IsWrite(m) /\ m.action \in SessionAction
           /\ IsWriteOf(m, m.action) /\ Queued(m.action)
           /\ WritesOnce(c2s[c], m.action) => \A y : Has(c2s'[c], y) => ~IsWriteOf(y, m.action)
<1>1. PICK q \in Seq(ToServer) : q = c2s[c]
  BY DEF TypeOK
<1>2. q # <<>> /\ Head(q).kind = "dispatchAction" /\ c2s'[c] = Tail(q)
  BY <1>1 DEF HandleDispatchAction, Handling, TypeOK
<1>3. PICK m \in ToServer : m = Head(q)
  BY <1>1, <1>2
<1>4. m.action \in SessionAction
  BY <1>2, <1>3 DEF ToServer
<1>5. Has(q, m)
  BY <1>1, <1>2, <1>3, HasTail
<1>6. ASSUME WritesOnce(q, m.action), NEW i \in DOMAIN Tail(q), IsWriteOf(Tail(q)[i], m.action)
      PROVE  FALSE
  <2>1. i + 1 \in DOMAIN q /\ Tail(q)[i] = q[i + 1] /\ i + 1 # 1 /\ 1 \in DOMAIN q /\ q[1] = m
    BY <1>1, <1>2, <1>3, TailIs
  <2>2. IsWriteOf(q[1], m.action)
    BY <1>2, <1>3, <2>1 DEF IsWriteOf, IsWrite
  <2> QED
    BY <1>6, <2>1, <2>2 DEF WritesOnce
<1>7. IsWrite(m) /\ IsWriteOf(m, m.action)
  BY <1>2, <1>3 DEF IsWrite, IsWriteOf
<1>8. Queued(m.action)
  BY <1>1, <1>5, <1>7 DEF Queued
<1>9. WritesOnce(q, m.action) => \A y : Has(Tail(q), y) => ~IsWriteOf(y, m.action)
  BY <1>6 DEF Has
<1> QED
  BY <1>1, <1>2, <1>3, <1>4, <1>5, <1>7, <1>8, <1>9

LEMMA FreshWrite ==
  ASSUME AheadInv, OnceInv, NEW h \in Handler, NEW s \in Session, NEW a, Writes(h, s, a)
  PROVE  a \in SessionAction /\ a.turn \in Turn /\ a.turn # NoTurn /\ ~Known(a)
<1>1. TypeOK
  BY AheadIs
<1>2. PICK p \in PendingAction, m \in ToServer : WritesAs(h, s, a, p, m)
  BY <1>1, WritesAre
<1>3. /\ a \in SessionAction /\ a.turn \in Turn /\ a = ActionOf(a.type, s, a.turn)
      /\ a.type \in {"turnStarted", "turnCancelled"}
  BY <1>2 DEF WritesAs
<1>4. a.turn # NoTurn
  BY <1>3
<1>5. CASE a.type = "turnStarted"
  BY <1>3, <1>4, <1>5, WriterServes DEF OnceInv, TurnsUsed
<1>6. CASE a.type = "turnCancelled"
  <2>1. a.turn = running[h][s] /\ running[h][s] # NoTurn
    BY <1>6, WriterServes
  <2> QED
    BY <1>3, <1>6, <2>1 DEF OnceInv, TurnsAwaited
<1> QED
  BY <1>3, <1>4, <1>5, <1>6

\* What an action does to the active turns.
LEMMA ActiveEmits ==
  ASSUME TypeOK, NEW a \in SessionAction, NEW q, NEW origin, Emit(q, a, origin), NEW s \in Session
  PROVE  /\ s # a.resource => state'[s].activeTurn = state[s].activeTurn
         /\ state'[s].activeTurn # state[s].activeTurn =>
              state'[s].activeTurn = IF a.type = "turnStarted" THEN a.turn ELSE NoTurn
         /\ s = a.resource /\ Live(s) /\ a.type \in TurnEnd /\ a.turn = state[s].activeTurn =>
              state'[s].activeTurn = NoTurn
<1>1. /\ s \in Resource /\ s # Root /\ a.resource \in Session /\ a.resource # Root
      /\ state \in [Resource -> State]
  BY DEF Resource, SessionAction, TypeOK
<1> DEFINE ended == IF a.type = "turnStarted" THEN a.turn
                    ELSE IF a.type \in TurnEnd /\ a.turn = state[s].activeTurn THEN NoTurn
                    ELSE state[s].activeTurn
<1>2. CASE Live(a.resource) /\ a.type \in TurnEnd \cup {"turnStarted"}
  <2>1. EmitTracked(q, a, origin)
    BY <1>2 DEF Emit
  <2>2. state'[s] = IF s = a.resource THEN Reduce(state[s], a, serverSeq + 2) ELSE state[s]
    BY <1>1, <2>1 DEF EmitTracked
  <2>3. state'[s].activeTurn = IF s = a.resource THEN ended ELSE state[s].activeTurn
    BY <2>2 DEF Reduce
  <2> QED
    BY <2>3 DEF TurnEnd
<1>3. CASE ~(Live(a.resource) /\ a.type \in TurnEnd \cup {"turnStarted"})
  <2>1. EmitUntracked(q, a, origin)
    BY <1>3 DEF Emit
  <2>2. state'[s] = IF s = a.resource /\ Live(s) THEN Reduce(state[s], a, serverSeq + 1) ELSE state[s]
    BY <1>1, <2>1 DEF EmitUntracked
  <2>3. state'[s].activeTurn
          = IF s = a.resource /\ Live(s) THEN ended ELSE state[s].activeTurn
    BY <2>2 DEF Reduce
  <2> QED
    BY <1>3, <2>3
<1> QED
  BY <1>2, <1>3

\* What is numbered has no number yet, and is not queued any more.
LEMMA NumbersFresh ==
  ASSUME AheadInv, TurnInv, OnceInv, [Next]_vars, NEW a, Numbers(a)
  PROVE  /\ a \in SessionAction /\ ~SequencedAction(a) /\ ~Queued(a)'
         /\ a.turn # NoTurn => a.turn \in usedTurns
         /\ \/ Queued(a)
            \/ /\ a.type = "turnComplete" /\ AgentIdle(a.resource)
               /\ state[a.resource].activeTurn = a.turn
            \/ a.type = "ready" /\ phase'[a.resource] = "live"
<1>1. TypeOK /\ LifeInv
  BY AheadIs
<1>2. Queued(a)' => Queued(a)
  BY <1>1, NumbersAlone, QueuedStep
<1>3. CASE \E c \in Client : HandleDispatchAction(c) /\ a = Head(c2s[c]).action
  <2> PICK c \in Client : HandleDispatchAction(c) /\ a = Head(c2s[c]).action
    BY <1>3
  <2>1. PICK m \in ToServer :
          /\ m = Head(c2s[c]) /\ Has(c2s[c], m) /\ IsWrite(m) /\ m.action \in SessionAction
          /\ IsWriteOf(m, m.action) /\ Queued(m.action)
          /\ WritesOnce(c2s[c], m.action) => \A y : Has(c2s'[c], y) => ~IsWriteOf(y, m.action)
    BY <1>1, HeadQueued
  <2>2. a \in SessionAction /\ Queued(a) /\ IsWriteOf(m, a) /\ m.action = a
    BY <2>1
  <2>3. /\ ~SequencedAction(a) /\ WritesOnce(c2s[c], a)
        /\ \A d \in Client, n \in ToServer : Has(c2s[d], n) /\ IsWriteOf(n, a) => d = c
    BY <2>1, <2>2 DEF OnceInv, QueuedOnce
  <2>4. ASSUME NEW d \in Client, NEW n \in ToServer, Has(c2s'[d], n), IsWriteOf(n, a)
        PROVE  FALSE
    <3>1. NoNewWrite(c2s[d], c2s'[d])
      BY <1>1, NumbersAlone, UpStep
    <3>2. Has(c2s[d], n)
      BY <2>4, <3>1 DEF NoNewWrite, IsWriteOf
    <3>3. d = c
      BY <2>3, <2>4, <3>2
    <3> QED
      BY <2>1, <2>2, <2>3, <2>4, <3>3
  <2>5. a.turn # NoTurn => a.turn \in usedTurns
    BY <2>2 DEF OnceInv, TurnsUsed, Known
  <2> QED
    BY <2>2, <2>3, <2>4, <2>5 DEF Queued
<1>4. ASSUME NEW s \in Session, AgentIdle(s), state[s].activeTurn \in Turn,
             a = ActionOf("turnComplete", s, state[s].activeTurn)
      PROVE  /\ a \in SessionAction /\ ~SequencedAction(a) /\ ~Queued(a)
             /\ a.turn \in usedTurns /\ a.type = "turnComplete" /\ a.resource = s
             /\ state[s].activeTurn = a.turn
  <2>1. /\ a \in SessionAction /\ a.type = "turnComplete" /\ a.resource = s
        /\ state[s].activeTurn = a.turn
    BY <1>4 DEF ActionOf, SessionAction, TurnEnd
  <2>2. ~SequencedAction(a)
    BY <1>4 DEF OnceInv, EmittedOnce
  <2>3. ~Queued(a)
    BY <2>1 DEF OnceInv, QueuedOnce
  <2>4. a.turn \in usedTurns
    BY <1>4, <2>1 DEF TurnInv, MentionedTurnsAreUsed, Mentions
  <2> QED
    BY <2>1, <2>2, <2>3, <2>4
<1>5. ASSUME NEW p \in creating, SessionCreated(p), p.resource \in Session,
             a = ActionOf("ready", p.resource, NoTurn)
      PROVE  /\ a \in SessionAction /\ ~SequencedAction(a) /\ ~Queued(a)
             /\ a.turn = NoTurn /\ a.type = "ready" /\ phase'[a.resource] = "live"
  <2>1. a \in SessionAction /\ a.type = "ready" /\ a.resource = p.resource /\ a.turn = NoTurn
    BY <1>5 DEF ActionOf, SessionAction
  <2>2. phase[p.resource] = "none"
    BY <1>1 DEF LifeInv, MessagesInv, Unborn
  <2>3. ~SequencedAction(a)
    BY <1>5, <2>2 DEF OnceInv, EmittedOnce
  <2>4. ~Queued(a)
    BY <2>1 DEF OnceInv, QueuedOnce
  <2>5. phase'[p.resource] = "live"
    BY <1>1, <1>5 DEF SessionCreated, TypeOK
  <2> QED
    BY <2>1, <2>3, <2>4, <2>5
<1> QED
  BY <1>2, <1>3, <1>4, <1>5 DEF Numbers

\* A turn becomes active when its start is numbered.
LEMMA ActiveStep ==
  ASSUME AheadInv, [Next]_vars, NEW s \in Session, NEW t \in Turn, state'[s].activeTurn = t,
         state[s].activeTurn # t
  PROVE  Numbers(ActionOf("turnStarted", s, t))
<1>1. TypeOK /\ t # NoTurn /\ s \in Resource
  BY AheadIs DEF Resource
<1>2. state' # state
  OBVIOUS
<1>3. ASSUME NEW c \in Client, HandleDispatchAction(c)
      PROVE  Numbers(ActionOf("turnStarted", s, t))
  <2>1. PICK a \in SessionAction : a = Head(c2s[c]).action
    BY <1>1, <1>3, HeadQueued
  <2>2. Emit(s2c, a, [client |-> c, clientSeq |-> Head(c2s[c]).clientSeq])
    BY <1>3, <2>1 DEF HandleDispatchAction
  <2>3. a.type = "turnStarted" /\ a.resource = s /\ a.turn = t
    BY <1>1, <2>2, ActiveEmits
  <2>4. a = ActionOf("turnStarted", s, t)
    BY <2>3 DEF SessionAction, ActionOf, TurnEnd
  <2> QED
    BY <1>3, <2>1, <2>4 DEF Numbers
<1>4. ASSUME NEW x \in Session, AgentIdle(x)
      PROVE  FALSE
  <2>1. PICK a \in SessionAction : a = ActionOf("turnComplete", x, state[x].activeTurn)
    <3>1. state[x] \in State /\ state[x].activeTurn # NoTurn
      BY <1>1, <1>4 DEF AgentIdle, TypeOK, Resource
    <3> QED
      BY <3>1 DEF State, ActionOf, SessionAction, TurnEnd
  <2>2. Emit(s2c, a, NoOrigin) /\ a.type = "turnComplete"
    BY <1>4, <2>1 DEF AgentIdle, ActionOf
  <2> QED
    BY <1>1, <2>2, ActiveEmits
<1>5. ASSUME NEW c \in Client, HandleDisposeSession(c)
      PROVE  FALSE
  <2>1. PICK x : state' = [state EXCEPT ![x] = InitialState]
    BY <1>2, <1>5 DEF HandleDisposeSession
  <2>2. state'[s] = state[s] \/ state'[s] = InitialState
    BY <1>1, <2>1 DEF TypeOK
  <2> QED
    BY <1>1, <2>2 DEF InitialState
<1>6. ASSUME NEW p \in creating, SessionCreated(p)
      PROVE  FALSE
  <2>1. state'[s] = state[s]
        \/ state'[s] = Reduce(InitialState, ActionOf("ready", p.resource, NoTurn), serverSeq + 1)
    BY <1>1, <1>6 DEF SessionCreated, TypeOK
  <2> QED
    BY <1>1, <2>1 DEF Reduce, InitialState, ActionOf, TurnEnd
<1>7. ASSUME NEW c \in Client,
             \/ HandleInitialize(c) \/ HandleSubscribe(c) \/ HandleUnsubscribe(c)
             \/ HandleCreateSession(c) \/ ReceiveMessage(c)
             \/ Connect(c) \/ Disconnect(c) \/ HandleClose(c)
      PROVE  FALSE
  BY <1>2, <1>7 DEF HandleInitialize, HandleSubscribe, HandleUnsubscribe, HandleCreateSession,
                    ReceiveMessage, Initialized, SessionCreateReturns, SessionCreateThrows,
                    HandleSnapshot, SubscribeFails, ReceiveEnvelope, Connect, Disconnect,
                    HandleClose, server
<1>8. ASSUME NEW p \in creating, SessionCreationFails(p)
      PROVE  FALSE
  BY <1>2, <1>8 DEF SessionCreationFails, server
<1>9. ASSUME NEW h \in Handler, NEW r, OpenExisting(h, r) \/ CreateSession(h, r) \/ CloseSession(h, r)
                                     \/ CancelTurn(h, r) \/ \E u \in Turn : StartTurn(h, r, u)
      PROVE  FALSE
  BY <1>2, <1>9 DEF OpenExisting, CreateSession, CloseSession, CancelTurn, StartTurn, server
<1>10. ~UNCHANGED vars
  BY <1>2 DEF vars, server
<1> QED
  BY <1>3, <1>4, <1>5, <1>6, <1>7, <1>8, <1>9, <1>10 DEF Next, HandleMessage

LEMMA UsedGrows ==
  ASSUME AheadInv, [Next]_vars
  PROVE  usedTurns \subseteq usedTurns'
<1>1. TypeOK
  BY AheadIs
<1>2. ASSUME NEW c \in Client, HandleSnapshot(c) \/ ReceiveEnvelope(c)
      PROVE  usedTurns' = usedTurns
  BY <1>2 DEF HandleSnapshot, ReceiveEnvelope
<1>3. ASSUME NEW h \in Handler, NEW s \in Session, CloseSession(h, s)
      PROVE  usedTurns' = usedTurns
  BY <1>3 DEF CloseSession
<1>4. ASSUME NEW h \in Handler, NEW s \in Session, NEW a, Writes(h, s, a)
      PROVE  usedTurns \subseteq usedTurns'
  BY <1>4 DEF Writes, StartTurn, CancelTurn
<1> QED
  BY <1>1, <1>2, <1>3, <1>4, ClientStep DEF Quiet

LEMMA NumberedStep ==
  ASSUME AheadInv, TurnInv, OnceInv, [Next]_vars
  PROVE  NumberedOnce'
<1>1. PICK f \in Entry : NewEntry(f)
  BY NumberStep
<1>2. ASSUME NEW s \in Session, NEW e \in Entry, Sequenced(s, e), Sequenced(s, f)',
             e.action = f.action, ~Sequenced(s, f)
      PROVE  FALSE
  <2>1. f.action.resource = s /\ Numbers(f.action)
    BY <1>1, <1>2 DEF NewEntry
  <2>2. SequencedAction(f.action)
    BY <1>2, <2>1 DEF SequencedAction
  <2> QED
    BY <2>1, <2>2, NumbersFresh
<1>3. ASSUME NEW s \in Session, NEW e \in Entry, Sequenced(s, e)'
      PROVE  (Sequenced(s, e) \/ e = f) /\ e.action.resource = s
  BY <1>1, <1>3 DEF NewEntry, OnceInv, NumberedOnce
<1>4. ASSUME NEW s \in Session, NEW e \in Entry, Sequenced(s, e)', NEW g \in Entry,
             Sequenced(s, g)', e.action = g.action
      PROVE  e = g
  <2>1. CASE Sequenced(s, e) /\ Sequenced(s, g)
    BY <1>4, <2>1 DEF OnceInv, NumberedOnce
  <2>2. CASE ~Sequenced(s, e)
    BY <1>2, <1>3, <1>4, <2>2
  <2>3. CASE ~Sequenced(s, g)
    BY <1>2, <1>3, <1>4, <2>3
  <2> QED
    BY <2>1, <2>2, <2>3
<1> QED
  BY <1>3, <1>4 DEF NumberedOnce

LEMMA QueuedOnceStep ==
  ASSUME AheadInv, TurnInv, OnceInv, [Next]_vars
  PROVE  QueuedOnce'
<1> SUFFICES ASSUME NEW a \in SessionAction
             PROVE  /\ Queued(a)' => ~SequencedAction(a)' /\ a.type \in {"turnStarted", "turnCancelled"}
                    /\ \A c, d \in Client, m, n \in ToServer :
                         Has(c2s'[c], m) /\ IsWriteOf(m, a) /\ Has(c2s'[d], n) /\ IsWriteOf(n, a)
                           => c = d
                    /\ \A c \in Client : WritesOnce(c2s'[c], a)
  BY DEF QueuedOnce
<1>1. TypeOK
  BY AheadIs
<1>2. /\ Queued(a) => ~SequencedAction(a) /\ a.type \in {"turnStarted", "turnCancelled"}
      /\ \A c, d \in Client, m, n \in ToServer :
           Has(c2s[c], m) /\ IsWriteOf(m, a) /\ Has(c2s[d], n) /\ IsWriteOf(n, a) => c = d
      /\ \A c \in Client : WritesOnce(c2s[c], a)
  BY DEF OnceInv, QueuedOnce
<1>3. ASSUME NEW h \in Handler, NEW s \in Session, Writes(h, s, a)
      PROVE  ~Known(a) /\ a.type \in {"turnStarted", "turnCancelled"} /\ ~Numbers(a)
  BY <1>1, <1>3, FreshWrite, NumbersAlone DEF Writes
<1>4. ASSUME Queued(a)'
      PROVE  ~SequencedAction(a)' /\ a.type \in {"turnStarted", "turnCancelled"}
  <2>1. SequencedAction(a)' => SequencedAction(a) \/ Numbers(a)
    BY KnownStep
  <2>2. ~Numbers(a)
    BY <1>4, NumbersFresh
  <2>3. Queued(a) \/ \E h \in Handler, s \in Session : Writes(h, s, a)
    BY <1>4, QueuedStep
  <2> QED
    BY <1>2, <1>3, <2>1, <2>2, <2>3 DEF Known
<1>5. CASE \A c \in Client : NoNewWrite(c2s[c], c2s'[c])
  <2>1. \A c \in Client : \A m : Has(c2s'[c], m) /\ IsWriteOf(m, a) => Has(c2s[c], m)
    BY <1>5 DEF NoNewWrite, IsWriteOf
  <2>2. \A c \in Client : WritesOnce(c2s'[c], a)
    BY <1>2, <1>5 DEF NoNewWrite
  <2> QED
    BY <1>2, <1>4, <2>1, <2>2
<1>6. ASSUME NEW h \in Handler, NEW s \in Session, NEW b \in SessionAction, Writes(h, s, b)
      PROVE  /\ \A c, d \in Client, m, n \in ToServer :
                  Has(c2s'[c], m) /\ IsWriteOf(m, a) /\ Has(c2s'[d], n) /\ IsWriteOf(n, a) => c = d
             /\ \A c \in Client : WritesOnce(c2s'[c], a)
  <2>1. PICK p \in PendingAction, w \in ToServer : WritesAs(h, s, b, p, w)
    BY <1>1, <1>6, WritesAre
  <2>2. /\ w.action = b
        /\ \A c \in Client : c2s'[c] = IF c = ClientOf[h] THEN Append(c2s[c], w) ELSE c2s[c]
    BY <2>1 DEF WritesAs
  <2>3. ~Queued(b)
    BY <1>6, FreshWrite DEF Known
  <2>4. ASSUME NEW c \in Client
        PROVE  /\ \A m \in ToServer : Has(c2s'[c], m) /\ IsWriteOf(m, a) =>
                    (Has(c2s[c], m) /\ a # b) \/ (a = b /\ c = ClientOf[h])
               /\ WritesOnce(c2s'[c], a)
    <3>1. PICK q \in Seq(ToServer) : q = c2s[c]
      BY <1>1 DEF TypeOK
    <3>2. WritesOnce(q, a) /\ \A i \in DOMAIN q : IsWriteOf(q[i], a) => a # b
      <4>1. \A i \in DOMAIN q : q[i] \in ToServer /\ Has(q, q[i])
        BY DEF Has
      <4> QED
        BY <1>2, <2>3, <3>1, <4>1 DEF Queued
    <3>3. \A m : Has(q, m) /\ IsWriteOf(m, a) => a # b
      BY <3>2 DEF Has
    <3>4. CASE c # ClientOf[h]
      BY <2>2, <3>1, <3>2, <3>3, <3>4
    <3>5. CASE c = ClientOf[h]
      <4>1. PICK r : r = Append(q, w)
        OBVIOUS
      <4>2. c2s'[c] = r
        BY <2>2, <3>1, <3>5, <4>1
      <4>3. \A m : Has(r, m) <=> Has(q, m) \/ m = w
        BY <4>1, HasAppend
      <4>4. IsWriteOf(w, a) => a = b
        BY <2>2 DEF IsWriteOf
      <4>5. WritesOnce(r, a)
        <5>1. /\ DOMAIN q = 1 .. Len(q) /\ DOMAIN r = 1 .. Len(q) + 1 /\ Len(q) \in Nat
              /\ r[Len(q) + 1] = w /\ \A i \in DOMAIN q : r[i] = q[i]
          BY <4>1, AppendIs
        <5>2. SUFFICES ASSUME NEW i \in DOMAIN r, NEW j \in DOMAIN r,
                              IsWriteOf(r[i], a), IsWriteOf(r[j], a)
                       PROVE  i = j
          BY DEF WritesOnce
        <5>3. (i \in DOMAIN q \/ i = Len(q) + 1) /\ (j \in DOMAIN q \/ j = Len(q) + 1)
          BY <5>1, <5>2
        <5>4. CASE i \in DOMAIN q /\ j \in DOMAIN q
          BY <3>2, <5>1, <5>2, <5>4 DEF WritesOnce
        <5> QED
          BY <3>2, <4>4, <5>1, <5>2, <5>3, <5>4
      <4> QED
        BY <3>1, <3>3, <3>5, <4>2, <4>3, <4>4, <4>5
    <3> QED
      BY <3>4, <3>5
  <2> QED
    BY <1>2, <2>4
<1> QED
  BY <1>1, <1>4, <1>5, <1>6, UpStep

LEMMA TurnsUsedStep ==
  ASSUME AheadInv, TurnInv, OnceInv, [Next]_vars
  PROVE  TurnsUsed'
<1> SUFFICES ASSUME NEW a \in SessionAction, Known(a)', a.turn # NoTurn
             PROVE  a.turn \in usedTurns'
  BY DEF TurnsUsed
<1>1. usedTurns \subseteq usedTurns'
  BY UsedGrows
<1>2. CASE Known(a)
  BY <1>1, <1>2 DEF OnceInv, TurnsUsed
<1>3. CASE Numbers(a)
  BY <1>1, <1>3, NumbersFresh
<1>4. ASSUME NEW h \in Handler, NEW s \in Session, Writes(h, s, a)
      PROVE  a.turn \in usedTurns'
  <2>1. CASE a.type = "turnStarted"
    BY <1>4, <2>1, WriterServes
  <2>2. CASE a.type = "turnCancelled"
    <3>1. a.turn = running[h][s] /\ a.turn \in Turn
      BY <1>4, <2>2, WriterServes, FreshWrite
    <3>2. a.turn \in usedTurns
      <4>1. PICK t \in Turn : t = a.turn
        BY <3>1
      <4>2. Mentions(s, t)
        BY <3>1, <4>1 DEF Mentions
      <4> QED
        BY <4>1, <4>2 DEF TurnInv, MentionedTurnsAreUsed
    <3> QED
      BY <1>1, <3>2
  <2> QED
    BY <1>4, <2>1, <2>2 DEF Writes
<1> QED
  BY <1>2, <1>3, <1>4, KnownStep

\* Who starts a turn starts one that nobody waits for.
LEMMA StartIsNew ==
  ASSUME AheadInv, TurnInv, NEW h \in Handler, NEW s \in Session, NEW a, Writes(h, s, a),
         running'[h][s] # NoTurn
  PROVE  /\ a.type = "turnStarted" /\ running'[h][s] = a.turn /\ a.turn \in Turn
         /\ a.turn \notin usedTurns
         /\ \A g \in Handler, x \in Session : running[g][x] # a.turn
<1>1. TypeOK
  BY AheadIs
<1>2. PICK p \in PendingAction, m \in ToServer : WritesAs(h, s, a, p, m)
  BY <1>1, WritesAre
<1>3. /\ a.turn \in Turn
      /\ running'[h][s] = IF a.type = "turnStarted" THEN a.turn ELSE NoTurn
  BY <1>2 DEF WritesAs
<1>4. a.type = "turnStarted" /\ running'[h][s] = a.turn
  BY <1>3
<1>5. a.turn \notin usedTurns
  BY <1>4, WriterServes
<1>6. ASSUME NEW g \in Handler, NEW x \in Session, running[g][x] = a.turn
      PROVE  FALSE
  <2>1. PICK t \in Turn : t = a.turn
    BY <1>3
  <2>2. Mentions(x, t)
    BY <1>6, <2>1 DEF Mentions
  <2> QED
    BY <1>5, <2>1, <2>2 DEF TurnInv, MentionedTurnsAreUsed
<1> QED
  BY <1>3, <1>4, <1>5, <1>6

LEMMA TurnsAwaitedStep ==
  ASSUME AheadInv, TurnInv, OnceInv, [Next]_vars
  PROVE  TurnsAwaited'
<1> SUFFICES ASSUME NEW h \in Handler, NEW s \in Session, NEW t \in Turn, running'[h][s] = t
             PROVE  /\ ~Known(ActionOf("turnCancelled", s, t))'
                    /\ \A g \in Handler : running'[g][s] = t => g = h
  BY DEF TurnsAwaited
<1>1. TypeOK
  BY AheadIs
<1>2. running'[h][s] = t
  OBVIOUS
<1>3. t # NoTurn
  BY <1>2
<1>4. PICK b \in SessionAction : b = ActionOf("turnCancelled", s, t)
  BY DEF ActionOf, SessionAction, TurnEnd
<1>5. b.type = "turnCancelled" /\ b.resource = s /\ b.turn = t
  BY <1>4 DEF ActionOf
<1>6. ASSUME NEW g \in Handler, NEW x \in Session, Writes(g, x, b)
      PROVE  x = s /\ running[g][s] = t
  BY <1>5, <1>6, WriterServes DEF Writes
<1>7. ASSUME NEW g \in Handler, ~\E a : Writes(g, s, a), running'[g][s] = t
      PROVE  running[g][s] = t /\ ~Known(b)
  <2>1. running[g][s] = t
    BY <1>3, <1>7, WaitsKept
  <2> QED
    BY <1>3, <1>4, <2>1 DEF OnceInv, TurnsAwaited
<1>8. ASSUME NEW g \in Handler, NEW a, Writes(g, s, a), running'[g][s] = t
      PROVE  ~Known(b) /\ \A f \in Handler : running[f][s] # t
  <2>1. /\ t \notin usedTurns /\ \A f \in Handler : running[f][s] # t
    BY <1>3, <1>8, StartIsNew
  <2>2. ~Known(b)
    BY <1>3, <1>5, <2>1 DEF OnceInv, TurnsUsed
  <2> QED
    BY <2>1, <2>2
<1>9. ASSUME NEW g \in Handler, NEW a, Writes(g, s, a), running'[g][s] = t,
             NEW f \in Handler, running'[f][s] = t
      PROVE  f = g
  <2>1. PICK p \in PendingAction, m \in ToServer : WritesAs(g, s, a, p, m)
    BY <1>1, <1>9, WritesAre
  <2>2. f # g => running'[f][s] = running[f][s]
    BY <2>1 DEF WritesAs
  <2> QED
    BY <1>8, <1>9, <2>2
<1>10. ~Known(b)
  BY <1>2, <1>7, <1>8
<1>11. ~Numbers(b)
  <2>1. Numbers(b) => Queued(b)
    BY <1>5, NumbersFresh
  <2> QED
    BY <1>10, <2>1 DEF Known
<1>12. ASSUME NEW g \in Handler, NEW x \in Session, Writes(g, x, b)
      PROVE  FALSE
  <2>1. running[g][s] = t /\ Writes(g, s, b)
    BY <1>6, <1>12
  <2>2. CASE \E a : Writes(h, s, a)
    BY <1>2, <1>8, <2>1, <2>2
  <2>3. CASE ~\E a : Writes(h, s, a)
    <3>1. running[h][s] = t
      BY <1>2, <1>7, <2>3
    <3>2. g = h
      BY <1>3, <2>1, <3>1 DEF OnceInv, TurnsAwaited
    <3> QED
      BY <2>1, <2>3, <3>2
  <2> QED
    BY <2>2, <2>3
<1>13. ~Known(b)'
  BY <1>10, <1>11, <1>12, KnownStep
<1>14. ASSUME NEW g \in Handler, running'[g][s] = t
       PROVE  g = h
  <2>1. CASE \E a : Writes(g, s, a)
    BY <1>2, <1>9, <1>14, <2>1
  <2>2. CASE \E a : Writes(h, s, a)
    BY <1>2, <1>9, <1>14, <2>2
  <2>3. CASE ~(\E a : Writes(g, s, a)) /\ ~\E a : Writes(h, s, a)
    <3>1. running[g][s] = t /\ running[h][s] = t
      BY <1>2, <1>7, <1>14, <2>3
    <3> QED
      BY <1>3, <3>1 DEF OnceInv, TurnsAwaited
  <2> QED
    BY <2>1, <2>2, <2>3
<1> QED
  BY <1>2, <1>4, <1>13, <1>14

LEMMA EmittedStep ==
  ASSUME AheadInv, TurnInv, OnceInv, [Next]_vars
  PROVE  EmittedOnce'
<1>1. TypeOK /\ LifeInv
  BY AheadIs
<1>2. ASSUME NEW s \in Session, NEW t \in Turn
      PROVE  /\ state'[s].activeTurn = t => ~Queued(ActionOf("turnStarted", s, t))'
             /\ SequencedAction(ActionOf("turnComplete", s, t))' =>
                  state'[s].activeTurn # t /\ ~Queued(ActionOf("turnStarted", s, t))'
  <2>1. PICK a \in SessionAction : a = ActionOf("turnStarted", s, t)
    BY DEF ActionOf, SessionAction, TurnEnd
  <2>2. PICK b \in SessionAction : b = ActionOf("turnComplete", s, t)
    BY DEF ActionOf, SessionAction, TurnEnd
  <2>3. /\ a.type = "turnStarted" /\ a.resource = s /\ a.turn = t
        /\ b.type = "turnComplete" /\ b.resource = s /\ b.turn = t /\ t # NoTurn
    BY <2>1, <2>2 DEF ActionOf
  <2>4. /\ state[s].activeTurn = t => ~Queued(a) /\ t \in usedTurns
        /\ SequencedAction(b) => state[s].activeTurn # t /\ ~Queued(a) /\ t \in usedTurns
    <3>1. /\ state[s].activeTurn = t => ~Queued(a)
          /\ SequencedAction(b) => state[s].activeTurn # t /\ ~Queued(a)
      BY <2>1, <2>2 DEF OnceInv, EmittedOnce
    <3>2. state[s].activeTurn = t => t \in usedTurns
      BY DEF TurnInv, MentionedTurnsAreUsed, Mentions
    <3>3. SequencedAction(b) => t \in usedTurns
      BY <2>3 DEF OnceInv, TurnsUsed, Known
    <3> QED
      BY <3>1, <3>2, <3>3
  <2>5. ASSUME t \in usedTurns, NEW h \in Handler, NEW x \in Session, Writes(h, x, a)
        PROVE  FALSE
    BY <2>3, <2>5, WriterServes
  <2>6. ASSUME t \in usedTurns, Queued(a)'
        PROVE  Queued(a) /\ ~Numbers(a)
    BY <2>5, <2>6, QueuedStep, NumbersFresh
  <2>7. state'[s].activeTurn = t => state[s].activeTurn = t \/ Numbers(a)
    BY <2>1, ActiveStep
  <2>8. Numbers(a) => Queued(a) /\ ~Queued(a)'
    BY <2>3, NumbersFresh
  <2>9. state'[s].activeTurn = t => ~Queued(a)'
    BY <2>4, <2>6, <2>7, <2>8
  <2>10. SequencedAction(b)' => SequencedAction(b) \/ Numbers(b)
    BY KnownStep
  <2>11. ASSUME SequencedAction(b)
         PROVE  state'[s].activeTurn # t /\ ~Queued(a)'
    BY <2>4, <2>6, <2>7, <2>8, <2>11
  <2>12. ASSUME Numbers(b)
         PROVE  state'[s].activeTurn # t /\ ~Queued(a)'
    <3>1. ~Queued(b)
      BY <2>3 DEF OnceInv, QueuedOnce
    <3>2. AgentIdle(s) /\ state[s].activeTurn = t
      BY <2>3, <2>12, <3>1, NumbersFresh
    <3>3. Emit(s2c, b, NoOrigin) /\ Live(s)
      BY <2>2, <3>2 DEF AgentIdle, Live
    <3>4. state'[s].activeTurn = NoTurn
      BY <1>1, <2>3, <3>2, <3>3, ActiveEmits DEF TurnEnd
    <3> QED
      BY <2>3, <2>4, <2>6, <3>2, <3>4
  <2> QED
    BY <2>1, <2>2, <2>9, <2>10, <2>11, <2>12
<1>3. ASSUME NEW s \in Session, SequencedAction(ActionOf("ready", s, NoTurn))'
      PROVE  phase'[s] # "none"
  <2>1. PICK a \in SessionAction : a = ActionOf("ready", s, NoTurn)
    BY DEF ActionOf, SessionAction
  <2>2. a.type = "ready" /\ a.resource = s
    BY <2>1 DEF ActionOf
  <2>3. CASE SequencedAction(a)
    <3>1. phase[s] # "none"
      BY <2>1, <2>3 DEF OnceInv, EmittedOnce
    <3> QED
      BY <1>1, <3>1, PhaseStep
  <2>4. CASE Numbers(a)
    <3>1. ~Queued(a)
      BY <2>2 DEF OnceInv, QueuedOnce
    <3> QED
      BY <2>2, <2>4, <3>1, NumbersFresh
  <2> QED
    BY <1>3, <2>1, <2>3, <2>4, KnownStep
<1> QED
  BY <1>2, <1>3 DEF EmittedOnce

LEMMA OnceStep ==
  ASSUME AheadInv, TurnInv, OnceInv, [Next]_vars
  PROVE  OnceInv'
BY NumberedStep, QueuedOnceStep, TurnsUsedStep, TurnsAwaitedStep, EmittedStep DEF OnceInv

----------------------------------------------------------------------------
(* A pending action stays in one place.                                    *)

LEMMA PendingIs ==
  ASSUME AheadInv, NEW h \in Handler, NEW s \in Session, NEW k \in DOMAIN pending[h][s]
  PROVE  /\ pending[h][s][k] \in PendingAction /\ pending[h][s][k].action \in SessionAction
         /\ pending[h][s][k].action.resource = s /\ WrittenAhead(pending[h][s][k].action)
         /\ pending[h][s][k].action.type \in {"turnStarted", "turnCancelled"} /\ Waits(h, s)
<1>1. pending[h][s] \in Seq(PendingAction)
  BY AheadIs DEF TypeOK
<1>2. pending[h][s][k] \in PendingAction /\ pending[h][s][k].action \in SessionAction
  BY <1>1, PendingTypes
<1>3. /\ pending[h][s][k].action.resource = s
      /\ pending[h][s][k].action.type \in {"turnStarted", "turnCancelled"}
  BY DEF AheadInv, PendingInv
<1>4. WrittenAhead(pending[h][s][k].action)
  BY DEF WrittenAhead
<1>5. Waits(h, s)
  BY <1>1 DEF Waits
<1> QED
  BY <1>2, <1>3, <1>4, <1>5

LEMMA PairUp ==
  ASSUME AheadInv, OnceInv, PairInv, [Next]_vars, NEW h \in Handler, NEW s \in Session,
         NEW k \in DOMAIN pending[h][s], NEW p, p = pending[h][s][k],
         NEW c \in Client, NEW y \in ToServer, Has(c2s'[c], y), IsWriteOf(y, p.action)
  PROVE  c = ClientOf[h] /\ y.clientSeq = p.clientSeq
<1>1. TypeOK /\ WrittenAhead(p.action)
  BY AheadIs, PendingIs
<1>2. Has(c2s[c], y) => c = ClientOf[h] /\ y.clientSeq = p.clientSeq
  BY DEF PairInv
<1>3. CASE \A d \in Client : NoNewWrite(c2s[d], c2s'[d])
  BY <1>2, <1>3 DEF NoNewWrite, IsWriteOf
<1>4. ASSUME NEW g \in Handler, NEW x \in Session, NEW b \in SessionAction, Writes(g, x, b)
      PROVE  Has(c2s[c], y)
  <2>1. PICK n \in PendingAction, m \in ToServer : WritesAs(g, x, b, n, m)
    BY <1>1, <1>4, WritesAre
  <2>2. PICK q \in Seq(ToServer) : q = c2s[c]
    BY <1>1 DEF TypeOK
  <2>3. (c2s'[c] = q \/ c2s'[c] = Append(q, m)) /\ m.action = b
    BY <2>1, <2>2 DEF WritesAs
  <2>4. \A z : Has(Append(q, m), z) <=> Has(q, z) \/ z = m
    BY HasAppend
  <2>5. b # p.action
    BY <1>1, <1>4, FreshWrite DEF Known
  <2> QED
    BY <2>2, <2>3, <2>4, <2>5 DEF IsWriteOf
<1> QED
  BY <1>1, <1>2, <1>3, <1>4, UpStep

LEMMA PairDown ==
  ASSUME AheadInv, PairInv, [Next]_vars, NEW h \in Handler, NEW s \in Session,
         NEW k \in DOMAIN pending[h][s], NEW p, p = pending[h][s][k],
         NEW m \in ToClient, Has(s2c'[ClientOf[h]], m), m.kind = "action",
         m.envelope.action = p.action
  PROVE  IsEcho(m, ClientOf[h]) /\ m.envelope.origin.clientSeq = p.clientSeq
<1>1. /\ TypeOK /\ LifeInv /\ p.action.resource = s /\ s # Root /\ ClientOf[h] \in Client
      /\ p.action.type \in {"turnStarted", "turnCancelled"}
  BY AheadIs, PendingIs
<1>2. CASE Has(s2c[ClientOf[h]], m)
  BY <1>2 DEF PairInv
<1>3. ~Aside(m) /\ ~IsCopy(ClientOf[h], m)
  BY <1>1 DEF Aside, IsCopy
<1>4. CASE Silence
  BY <1>1, <1>2, <1>3, <1>4 DEF Silence
<1>5. ASSUME NEW a, NEW origin, Emission(a, origin)
      PROVE  Has(s2c[ClientOf[h]], m) \/ (a = p.action /\ m.envelope.origin = origin)
  <2>1. PICK env \in Envelope :
          /\ env.action = a /\ env.origin = origin
          /\ \A c \in Client : \A y : Has(s2c'[c], y) =>
               Has(s2c[c], y) \/ Aside(y) \/ y = EnvelopeMessage(env)
    BY <1>5 DEF Emission
  <2>2. Has(s2c[ClientOf[h]], m) \/ m = EnvelopeMessage(env)
    BY <1>1, <1>3, <2>1
  <2>3. m = EnvelopeMessage(env) => m.envelope = env
    BY DEF EnvelopeMessage
  <2> QED
    BY <2>1, <2>2, <2>3
<1>6. ASSUME NEW c \in Client, HandleDispatchAction(c),
             Emission(Head(c2s[c]).action, [client |-> c, clientSeq |-> Head(c2s[c]).clientSeq]),
             ~Has(s2c[ClientOf[h]], m)
      PROVE  IsEcho(m, ClientOf[h]) /\ m.envelope.origin.clientSeq = p.clientSeq
  <2>1. /\ Head(c2s[c]).action = p.action
        /\ m.envelope.origin = [client |-> c, clientSeq |-> Head(c2s[c]).clientSeq]
    BY <1>5, <1>6
  <2>2. PICK w \in ToServer : w = Head(c2s[c]) /\ Has(c2s[c], w) /\ IsWrite(w)
    BY <1>1, <1>6, HeadQueued
  <2>3. IsWriteOf(w, p.action)
    BY <2>1, <2>2 DEF IsWriteOf
  <2>4. c = ClientOf[h] /\ w.clientSeq = p.clientSeq
    BY <2>2, <2>3 DEF PairInv
  <2>5. w.clientSeq \in Nat
    BY <2>2 DEF IsWrite, ToServer
  <2>6. m.envelope.origin # NoOrigin
    BY <2>1, <2>2, <2>5, NoOriginAssumption
  <2> QED
    BY <2>1, <2>2, <2>4, <2>6 DEF IsEcho
<1>7. ASSUME NEW x, NEW t, NEW type, type \in {"turnComplete", "ready"},
             Emission(ActionOf(type, x, t), NoOrigin)
      PROVE  Has(s2c[ClientOf[h]], m)
  <2>1. ActionOf(type, x, t).type = type
    BY DEF ActionOf
  <2> QED
    BY <1>1, <1>5, <1>7, <2>1
<1> QED
  BY <1>1, <1>2, <1>4, <1>6, <1>7, DownStep

LEMMA PairCopy ==
  ASSUME AheadInv, PairInv, [Next]_vars, NEW h \in Handler, NEW s \in Session,
         NEW k \in DOMAIN pending[h][s], NEW p, p = pending[h][s][k], Has(pending'[h][s], p),
         s \in subscribedSessions'[h],
         NEW e \in Entry, Has(confirmed'[h][s].entries, e), e.action = p.action
  PROVE  FALSE
<1>1. /\ TypeOK /\ Waits(h, s) /\ s \in Resource /\ p \in PendingAction
      /\ ClientOf[h] \in Client
  BY AheadIs, PendingIs DEF Resource
<1>2. ASSUME s \in subscribedSessions[h], Has(confirmed[h][s].entries, e)
      PROVE  FALSE
    BY <1>2 DEF PairInv
<1>3. CASE Quiet
  BY <1>2, <1>3 DEF Quiet, sync
<1>4. ASSUME NEW c \in Client, HandleSnapshot(c)
      PROVE  FALSE
  <2>1. PICK m \in ToClient, g \in Handler, r \in Resource : Opens(c, m, g, r)
    BY <1>4, SnapshotIs
  <2>2. ~(h = g /\ s = r)
    BY <1>1, <2>1 DEF Opens
  <2>3. confirmed'[h][s] = IF h = g /\ s = r THEN m.state ELSE confirmed[h][s]
    BY <1>1, <2>1 DEF Opens
  <2>4. subscribedSessions'[h] = IF h = g THEN subscribedSessions[g] \cup {r}
                                 ELSE subscribedSessions[h]
    BY <2>1 DEF Opens
  <2> QED
    BY <1>2, <2>2, <2>3, <2>4
<1>5. ASSUME NEW c \in Client, ReceiveEnvelope(c)
      PROVE  FALSE
  <2>1. PICK m \in ToClient : Takes(c, m)
    BY <1>1, <1>5, EnvelopeIs
  <2>2. s \in subscribedSessions[h] /\ m.kind = "action" /\ Has(s2c[c], m) /\ m.envelope \in Envelope
    BY <2>1 DEF Takes
  <2>3. PICK f \in Entry : f = EnvelopeEntry(m.envelope)
    BY <2>2 DEF EnvelopeEntry, Envelope, Entry
  <2>4. PICK all \in Seq(Entry) : all = confirmed[h][s].entries
    <3>1. confirmed[h][s] \in State
      BY <1>1 DEF TypeOK
    <3> QED
      BY <3>1 DEF State
  <2>5. ~Has(all, e)
    BY <1>2, <2>2, <2>4
  <2>6. /\ ClientOf[h] = c /\ s = m.envelope.action.resource
        /\ confirmed'[h][s].entries = Append(all, f)
    BY <1>1, <2>1, <2>3, <2>4, <2>5, ConfirmedIs
  <2>7. e = f
    <3>1. \A z : Has(Append(all, f), z) <=> Has(all, z) \/ z = f
      BY HasAppend
    <3> QED
      BY <2>5, <2>6, <3>1
  <2>8. m.envelope.action = p.action
    BY <2>3, <2>7 DEF EnvelopeEntry
  <2>9. IsEcho(m, ClientOf[h]) /\ m.envelope.origin.clientSeq = p.clientSeq
    <3>1. \A y \in ToClient :
            Has(s2c[ClientOf[h]], y) /\ y.kind = "action" /\ y.envelope.action = p.action =>
              IsEcho(y, ClientOf[h]) /\ y.envelope.origin.clientSeq = p.clientSeq
      BY DEF PairInv
    <3> QED
      BY <2>2, <2>6, <2>8, <3>1
  <2>10. pending'[h] = PendingAfter(h, m.envelope) /\ confirmed'[h] = ConfirmedAfter(h, m.envelope)
    BY <2>1, <2>6 DEF Takes
  <2>11. Listens(h, m.envelope)
    BY <2>4, <2>5, <2>10 DEF ConfirmedAfter
  <2>12. pending'[h][s] = DropPending(pending[h][s], p.clientSeq)
    <3>1. /\ m.envelope.origin # NoOrigin /\ m.envelope.origin.client = ClientOf[h]
          /\ m.envelope.origin.clientSeq = p.clientSeq
      BY <2>9 DEF IsEcho
    <3>2. PendingAfter(h, m.envelope)
            = [x \in Session |-> DropPending(pending[h][x], m.envelope.origin.clientSeq)]
      BY <2>11, <3>1 DEF PendingAfter
    <3> QED
      BY <2>10, <3>1, <3>2
  <2>13. PICK d : d = pending'[h][s]
    OBVIOUS
  <2>14. PICK q \in Seq(PendingAction) : q = pending[h][s]
    BY <1>1 DEF TypeOK
  <2>15. Leaves(q, p.clientSeq, d)
    BY <2>12, <2>13, <2>14, DropKeeps
  <2>16. \A i, j \in DOMAIN q : q[i].clientSeq = q[j].clientSeq => i = j
    BY <2>14 DEF AheadInv, PendingInv
  <2>17. \A j \in DOMAIN d : d[j].clientSeq # p.clientSeq
    BY <2>15, <2>16 DEF Leaves
  <2> QED
    BY <2>13, <2>17 DEF Has
<1>6. ASSUME NEW g \in Handler, NEW x \in Session, CloseSession(g, x)
      PROVE  FALSE
  <2>1. /\ confirmed'[h][s] = IF h = g /\ s = x THEN InitialState ELSE confirmed[h][s]
        /\ subscribedSessions'[h] = IF h = g THEN subscribedSessions[g] \ {x}
                                    ELSE subscribedSessions[h]
    <3>1. Closes(g, x)
      BY <1>1, <1>6, CloseIs
    <3> QED
      BY <1>1, <3>1 DEF Closes
  <2> QED
    BY <1>2, <2>1
<1>7. ASSUME NEW g \in Handler, NEW x \in Session, NEW a, Writes(g, x, a)
      PROVE  FALSE
  <2>1. PICK n \in PendingAction, m \in ToServer : WritesAs(g, x, a, n, m)
    BY <1>1, <1>7, WritesAre
  <2> QED
    BY <1>2, <2>1 DEF WritesAs
<1> QED
  BY <1>1, <1>3, <1>4, <1>5, <1>6, <1>7, ClientStep

LEMMA PairStep ==
  ASSUME AheadInv, OnceInv, PairInv, [Next]_vars
  PROVE  PairInv'
<1> SUFFICES ASSUME NEW h \in Handler, NEW s \in Session
             PROVE  /\ \A i, j \in DOMAIN pending'[h][s] :
                         pending'[h][s][i].action = pending'[h][s][j].action => i = j
                    /\ \A i \in DOMAIN pending'[h][s] :
                         /\ \A c \in Client, m \in ToServer :
                              Has(c2s'[c], m) /\ IsWriteOf(m, pending'[h][s][i].action) =>
                                c = ClientOf[h] /\ m.clientSeq = pending'[h][s][i].clientSeq
                         /\ \A m \in ToClient :
                              Has(s2c'[ClientOf[h]], m) /\ m.kind = "action"
                                /\ m.envelope.action = pending'[h][s][i].action =>
                                IsEcho(m, ClientOf[h])
                                /\ m.envelope.origin.clientSeq = pending'[h][s][i].clientSeq
                         /\ s \in subscribedSessions'[h] =>
                              \A e \in Entry : Has(confirmed'[h][s].entries, e) =>
                                e.action # pending'[h][s][i].action
  BY DEF PairInv
<1> SUFFICES /\ \A i, j \in DOMAIN pending'[h][s] :
                  pending'[h][s][i].action = pending'[h][s][j].action => i = j
             /\ \A p : Has(pending'[h][s], p) =>
                  /\ \A c \in Client, m \in ToServer : Has(c2s'[c], m) /\ IsWriteOf(m, p.action) =>
                       c = ClientOf[h] /\ m.clientSeq = p.clientSeq
                  /\ \A m \in ToClient :
                       Has(s2c'[ClientOf[h]], m) /\ m.kind = "action" /\ m.envelope.action = p.action =>
                         IsEcho(m, ClientOf[h]) /\ m.envelope.origin.clientSeq = p.clientSeq
                  /\ s \in subscribedSessions'[h] =>
                       \A e \in Entry : Has(confirmed'[h][s].entries, e) => e.action # p.action
  <2>1. \A i \in DOMAIN pending'[h][s] : Has(pending'[h][s], pending'[h][s][i])
    BY DEF Has
  <2> QED
    BY <2>1
<1>1. TypeOK
  BY AheadIs
<1>2. ASSUME NEW p, Has(pending'[h][s], p), Has(pending[h][s], p)
      PROVE  /\ \A c \in Client, m \in ToServer : Has(c2s'[c], m) /\ IsWriteOf(m, p.action) =>
                  c = ClientOf[h] /\ m.clientSeq = p.clientSeq
             /\ \A m \in ToClient :
                  Has(s2c'[ClientOf[h]], m) /\ m.kind = "action" /\ m.envelope.action = p.action =>
                    IsEcho(m, ClientOf[h]) /\ m.envelope.origin.clientSeq = p.clientSeq
             /\ s \in subscribedSessions'[h] =>
                  \A e \in Entry : Has(confirmed'[h][s].entries, e) => e.action # p.action
  <2>1. PICK k \in DOMAIN pending[h][s] : p = pending[h][s][k]
    BY <1>2 DEF Has
  <2>2. \A c \in Client, m \in ToServer : Has(c2s'[c], m) /\ IsWriteOf(m, p.action) =>
          c = ClientOf[h] /\ m.clientSeq = p.clientSeq
    BY <2>1, PairUp
  <2>3. \A m \in ToClient :
          Has(s2c'[ClientOf[h]], m) /\ m.kind = "action" /\ m.envelope.action = p.action =>
            IsEcho(m, ClientOf[h]) /\ m.envelope.origin.clientSeq = p.clientSeq
    BY <2>1, PairDown
  <2>4. s \in subscribedSessions'[h] =>
          \A e \in Entry : Has(confirmed'[h][s].entries, e) => e.action # p.action
    BY <1>2, <2>1, PairCopy
  <2> QED
    BY <2>2, <2>3, <2>4
<1>3. CASE ~\E a : Writes(h, s, a)
  <2>1. ASSUME NEW i \in DOMAIN pending'[h][s], NEW j \in DOMAIN pending'[h][s],
               pending'[h][s][i].action = pending'[h][s][j].action, i # j
        PROVE  FALSE
    <3>1. PICK k, l \in DOMAIN pending[h][s] :
            k # l /\ pending'[h][s][i] = pending[h][s][k] /\ pending'[h][s][j] = pending[h][s][l]
      BY <1>3, <2>1, WaitsKept
    <3> QED
      BY <2>1, <3>1 DEF PairInv
  <2>2. \A p : Has(pending'[h][s], p) => Has(pending[h][s], p)
    <3>1. \A i \in DOMAIN pending'[h][s] : \E k \in DOMAIN pending[h][s] :
            pending'[h][s][i] = pending[h][s][k]
      BY <1>3, WaitsKept
    <3> QED
      BY <3>1 DEF Has
  <2> QED
    BY <1>2, <2>1, <2>2
<1>4. ASSUME NEW b, Writes(h, s, b)
      PROVE  /\ \A i, j \in DOMAIN pending'[h][s] :
                  pending'[h][s][i].action = pending'[h][s][j].action => i = j
             /\ \A p : Has(pending'[h][s], p) => Has(pending[h][s], p) \/
                  /\ \A c \in Client, m \in ToServer : Has(c2s'[c], m) /\ IsWriteOf(m, p.action) =>
                       c = ClientOf[h] /\ m.clientSeq = p.clientSeq
                  /\ \A m \in ToClient :
                       Has(s2c'[ClientOf[h]], m) /\ m.kind = "action" /\ m.envelope.action = p.action
                         => FALSE
                  /\ \A e \in Entry : Has(confirmed'[h][s].entries, e) => e.action # p.action
  <2>1. PICK n \in PendingAction, w \in ToServer : WritesAs(h, s, b, n, w)
    BY <1>1, <1>4, WritesAre
  <2>2. b \in SessionAction /\ ~Known(b)
    BY <1>4, FreshWrite
  <2>3. PICK q \in Seq(PendingAction) : q = pending[h][s]
    BY <1>1 DEF TypeOK
  <2>4. PICK r : r = Append(q, n)
    OBVIOUS
  <2>5. /\ pending'[h][s] = r /\ n.action = b /\ b.resource = s /\ n.clientSeq = nextClientSeq[h]
        /\ w.action = b /\ w.clientSeq = nextClientSeq[h] /\ s2c' = s2c /\ confirmed' = confirmed
        /\ \A c \in Client : c2s'[c] = IF c = ClientOf[h] THEN Append(c2s[c], w) ELSE c2s[c]
    BY <2>1, <2>3, <2>4 DEF WritesAs
  <2>6. \A k \in DOMAIN q : q[k].action # b
    BY <2>2, <2>3 DEF Known, WrittenAhead
  <2>7. /\ DOMAIN q = 1 .. Len(q) /\ DOMAIN r = 1 .. Len(q) + 1 /\ Len(q) \in Nat
        /\ r[Len(q) + 1] = n /\ \A i \in DOMAIN q : r[i] = q[i]
    BY <2>4, AppendIs
  <2>8. \A i, j \in DOMAIN q : q[i].action = q[j].action => i = j
    BY <2>3 DEF PairInv
  <2>9. \A i, j \in DOMAIN r : r[i].action = r[j].action => i = j
    BY <2>5, <2>6, <2>7, <2>8
  <2>10. \A p : Has(r, p) <=> Has(q, p) \/ p = n
    BY <2>4, HasAppend
  <2>11. ASSUME NEW c \in Client, NEW m \in ToServer, Has(c2s'[c], m), IsWriteOf(m, b)
         PROVE  c = ClientOf[h] /\ m.clientSeq = n.clientSeq
    <3>1. PICK x \in Seq(ToServer) : x = c2s[c]
      BY <1>1 DEF TypeOK
    <3>2. \A z : Has(Append(x, w), z) <=> Has(x, z) \/ z = w
      BY HasAppend
    <3>3. ~Has(x, m)
      BY <2>2, <2>11, <3>1 DEF Known, Queued
    <3>4. c2s'[c] = IF c = ClientOf[h] THEN Append(x, w) ELSE x
      BY <2>5, <3>1
    <3> QED
      BY <2>5, <2>11, <3>2, <3>3, <3>4
  <2>12. ASSUME NEW m \in ToClient, Has(s2c'[ClientOf[h]], m), m.kind = "action",
                m.envelope.action = b
         PROVE  FALSE
    <3>1. m.envelope \in Envelope
      BY <2>12 DEF ToClient
    <3>2. PICK e \in Entry : e = EntryOf(m)
      BY <3>1 DEF EntryOf, Envelope, Entry
    <3>3. e.action = b /\ Brings(m, s, e)
      BY <2>5, <2>12, <3>2 DEF Brings, Carries, EntryOf
    <3>4. ClientOf[h] \in Client /\ Has(s2c[ClientOf[h]], m)
      BY <2>5, <2>12
    <3> QED
      BY <2>2, <2>5, <3>3, <3>4 DEF Known, SequencedAction, Sequenced
  <2>13. ASSUME NEW e \in Entry, Has(confirmed'[h][s].entries, e), e.action = b
         PROVE  FALSE
    BY <2>2, <2>5, <2>13 DEF Known, SequencedAction, Sequenced
  <2> QED
    BY <2>3, <2>5, <2>9, <2>10, <2>11, <2>12, <2>13
<1> QED
  BY <1>2, <1>3, <1>4

----------------------------------------------------------------------------
(* The entries of copies stay in order.                                    *)

LEMMA OrderAppend ==
  ASSUME NEW all \in Seq(Entry), NEW e \in Entry, NEW n \in Nat, NEW k \in Nat,
         EntriesInOrder(all, n), n < e.serverSeq, e.serverSeq <= k
  PROVE  EntriesInOrder(Append(all, e), k)
<1> DEFINE r == Append(all, e)
<1>1. /\ DOMAIN all = 1 .. Len(all) /\ DOMAIN r = 1 .. Len(all) + 1 /\ Len(all) \in Nat
      /\ r[Len(all) + 1] = e /\ \A i \in DOMAIN all : r[i] = all[i]
  BY AppendIs
<1>2. \A i \in DOMAIN all : all[i].serverSeq \in Nat /\ all[i].serverSeq <= n
  <2>1. \A i \in DOMAIN all : all[i] \in Entry
    OBVIOUS
  <2> QED
    BY <2>1 DEF EntriesInOrder, Entry
<1>3. e.serverSeq \in Nat
  BY DEF Entry
<1> HIDE DEF r
<1>4. \A i \in DOMAIN r : r[i].serverSeq <= k
  BY <1>1, <1>2, <1>3
<1>5. \A i, j \in DOMAIN all : i < j => all[i].serverSeq < all[j].serverSeq
  BY DEF EntriesInOrder, Increasing
<1>6. ASSUME NEW i \in DOMAIN r, NEW j \in DOMAIN r, i < j
      PROVE  r[i].serverSeq < r[j].serverSeq
  <2>1. i \in DOMAIN all /\ (j \in DOMAIN all \/ j = Len(all) + 1)
    BY <1>1, <1>6
  <2>2. CASE j \in DOMAIN all
    BY <1>1, <1>5, <1>6, <2>1, <2>2
  <2>3. CASE j = Len(all) + 1
    BY <1>1, <1>2, <1>3, <2>1, <2>3
  <2> QED
    BY <2>1, <2>2, <2>3
<1>7. EntriesInOrder(r, k)
  BY <1>4, <1>6 DEF EntriesInOrder, Increasing
<1> QED
  BY <1>7 DEF r

LEMMA OrderLater ==
  ASSUME NEW all \in Seq(Entry), NEW n \in Nat, NEW k \in Nat, EntriesInOrder(all, n), n <= k
  PROVE  EntriesInOrder(all, k)
<1>1. \A i \in DOMAIN all : all[i].serverSeq \in Nat
  <2>1. \A i \in DOMAIN all : all[i] \in Entry
    OBVIOUS
  <2> QED
    BY <2>1 DEF Entry
<1> QED
  BY <1>1 DEF EntriesInOrder

LEMMA CopiesStep ==
  ASSUME AheadInv, SequenceInv, CopiesInv, [Next]_vars
  PROVE  CopiesInv'
<1>1. TypeOK /\ LifeInv
  BY AheadIs
<1>2. ASSUME NEW h \in Handler, NEW r \in Resource
      PROVE  EntriesInOrder(confirmed'[h][r].entries, lastSeenServerSeq'[h])
  <2>1. PICK all \in Seq(Entry) : all = confirmed[h][r].entries
    <3>1. confirmed[h][r] \in State
      BY <1>1 DEF TypeOK
    <3> QED
      BY <3>1 DEF State
  <2>2. lastSeenServerSeq[h] \in Nat /\ EntriesInOrder(all, lastSeenServerSeq[h])
    BY <1>1, <2>1 DEF TypeOK, CopiesInv
  <2>3. CASE confirmed'[h][r] = confirmed[h][r] /\ lastSeenServerSeq'[h] = lastSeenServerSeq[h]
    BY <2>1, <2>2, <2>3
  <2>4. CASE Quiet
    BY <2>3, <2>4 DEF Quiet, sync
  <2>5. ASSUME NEW c \in Client, HandleSnapshot(c)
        PROVE  EntriesInOrder(confirmed'[h][r].entries, lastSeenServerSeq'[h])
    <3>1. PICK m \in ToClient, g \in Handler, y \in Resource : Opens(c, m, g, y)
      BY <2>5, SnapshotIs
    <3>2. /\ confirmed'[h][r] = IF h = g /\ r = y THEN m.state ELSE confirmed[h][r]
          /\ lastSeenServerSeq'[h] = IF h = g THEN Max({lastSeenServerSeq[h], m.fromSeq})
                                     ELSE lastSeenServerSeq[h]
          /\ m.kind = "snapshot" /\ Has(s2c[c], m)
      BY <3>1 DEF Opens
    <3>3. m.fromSeq \in Nat /\ m.state.entries \in Seq(Entry)
      BY <3>2 DEF ToClient, State
    <3>4. EntriesInOrder(m.state.entries, m.fromSeq)
      BY <3>2 DEF CopiesInv
    <3>5. PICK x : x = Max({lastSeenServerSeq[h], m.fromSeq})
      OBVIOUS
    <3>6. x \in Nat /\ lastSeenServerSeq[h] <= x /\ m.fromSeq <= x
      BY <2>2, <3>3, <3>5, MaxOfTwo
    <3>7. EntriesInOrder(all, x) /\ EntriesInOrder(m.state.entries, x)
      BY <2>2, <3>3, <3>4, <3>6, OrderLater
    <3> QED
      BY <2>1, <2>2, <3>2, <3>5, <3>7
  <2>6. ASSUME NEW c \in Client, ReceiveEnvelope(c)
        PROVE  EntriesInOrder(confirmed'[h][r].entries, lastSeenServerSeq'[h])
    <3>1. PICK m \in ToClient : Takes(c, m)
      BY <1>1, <2>6, EnvelopeIs
    <3>2. m.kind = "action" /\ Has(s2c[c], m) /\ m.envelope \in Envelope
      BY <3>1 DEF Takes
    <3>3. PICK f \in Entry : f = EnvelopeEntry(m.envelope)
      BY <3>2 DEF EnvelopeEntry, Envelope, Entry
    <3>4. f.serverSeq = m.envelope.serverSeq /\ f.serverSeq \in Nat
      BY <3>3 DEF EnvelopeEntry, Entry
    <3>5. ClientOf[h] = c => lastSeenServerSeq[h] < f.serverSeq
      BY <3>2, <3>4 DEF SequenceInv, SeenIsBehind, Mark, Has
    <3>6. PICK x : x = Max({lastSeenServerSeq[h], m.envelope.serverSeq})
      OBVIOUS
    <3>7. x \in Nat /\ lastSeenServerSeq[h] <= x /\ f.serverSeq <= x
      BY <2>2, <3>4, <3>6, MaxOfTwo
    <3>8. \/ lastSeenServerSeq'[h] = lastSeenServerSeq[h] /\ confirmed'[h][r] = confirmed[h][r]
          \/ lastSeenServerSeq'[h] = x /\ confirmed'[h][r] = confirmed[h][r]
          \/ /\ lastSeenServerSeq'[h] = x /\ ClientOf[h] = c
             /\ confirmed'[h][r].entries = Append(all, f)
      <4>1. CASE ClientOf[h] # c
        BY <3>1, <4>1 DEF Takes
      <4>2. CASE ClientOf[h] = c
        <5>1. /\ confirmed'[h] = ConfirmedAfter(h, m.envelope)
              /\ lastSeenServerSeq'[h] = IF Listens(h, m.envelope) THEN x ELSE lastSeenServerSeq[h]
          BY <3>1, <3>6, <4>2 DEF Takes
        <5>2. ~Listens(h, m.envelope) => confirmed'[h] = confirmed[h]
          BY <5>1 DEF ConfirmedAfter
        <5>3. confirmed'[h][r] = confirmed[h][r] \/ confirmed'[h][r].entries = Append(all, f)
          BY <2>1, <3>1, <3>3, ConfirmedIs
        <5> QED
          BY <4>2, <5>1, <5>2, <5>3
      <4> QED
        BY <4>1, <4>2
    <3>9. EntriesInOrder(all, x)
      BY <2>2, <3>7, OrderLater
    <3>10. ClientOf[h] = c => EntriesInOrder(Append(all, f), x)
      BY <2>2, <3>4, <3>5, <3>7, OrderAppend
    <3> QED
      BY <2>1, <2>2, <3>8, <3>9, <3>10
  <2>7. ASSUME NEW g \in Handler, NEW y \in Session, CloseSession(g, y)
        PROVE  EntriesInOrder(confirmed'[h][r].entries, lastSeenServerSeq'[h])
    <3>1. Closes(g, y)
      BY <1>1, <2>7, CloseIs
    <3>2. /\ confirmed'[h][r] = IF h = g /\ r = y THEN InitialState ELSE confirmed[h][r]
          /\ lastSeenServerSeq'[h] = lastSeenServerSeq[h]
      BY <3>1 DEF Closes
    <3>3. EntriesInOrder(InitialState.entries, lastSeenServerSeq[h])
      BY DEF InitialState, EntriesInOrder, Increasing
    <3> QED
      BY <2>1, <2>2, <3>2, <3>3
  <2>8. ASSUME NEW g \in Handler, NEW y \in Session, NEW a, Writes(g, y, a)
        PROVE  EntriesInOrder(confirmed'[h][r].entries, lastSeenServerSeq'[h])
    <3>1. PICK n \in PendingAction, w \in ToServer : WritesAs(g, y, a, n, w)
      BY <1>1, <2>8, WritesAre
    <3> QED
      BY <2>3, <3>1 DEF WritesAs
  <2> QED
    BY <1>1, <2>4, <2>5, <2>6, <2>7, <2>8, ClientStep
<1>3. ASSUME NEW c \in Client, NEW m \in ToClient, Has(s2c'[c], m), m.kind = "snapshot"
      PROVE  EntriesInOrder(m.state.entries, m.fromSeq)
  <2>1. CASE Has(s2c[c], m)
    BY <1>3, <2>1 DEF CopiesInv
  <2>2. CASE IsCopy(c, m)
    <3>1. m.state = state[m.resource] /\ m.fromSeq = serverSeq /\ m.resource \in Resource
      BY <2>2 DEF IsCopy
    <3> QED
      BY <3>1 DEF SequenceInv, EntriesIncrease, EntriesInOrder, Increasing
  <2>3. ~Aside(m) /\ \A env : m # EnvelopeMessage(env)
    BY <1>3 DEF Aside, EnvelopeMessage
  <2>4. CASE Silence
    BY <1>3, <2>1, <2>2, <2>3, <2>4 DEF Silence
  <2>5. ASSUME NEW a, NEW origin, Emission(a, origin)
        PROVE  Has(s2c[c], m)
    BY <1>3, <2>3, <2>5 DEF Emission
  <2> QED
    BY <1>1, <2>1, <2>4, <2>5, DownStep
<1> QED
  BY <1>2, <1>3 DEF CopiesInv


----------------------------------------------------------------------------
(* What a window shows has every action once.                              *)

LEMMA OnceInit == Init => OnceInv /\ PairInv /\ CopiesInv
<1> SUFFICES ASSUME Init
             PROVE  OnceInv /\ PairInv /\ CopiesInv
  OBVIOUS
<1>1. /\ \A r \in Resource : state[r] = InitialState
      /\ \A h \in Handler, r \in Resource : confirmed[h][r] = InitialState
      /\ \A h \in Handler, s \in Session : pending[h][s] = <<>> /\ running[h][s] = NoTurn
      /\ \A c \in Client : c2s[c] = <<>> /\ s2c[c] = <<>>
      /\ \A h \in Handler : lastSeenServerSeq[h] = 0
      /\ \A s \in Session : s \in Resource
  BY DEF Init, Resource
<1>2. \A x : ~Has(<<>>, x) /\ ~Has(InitialState.entries, x)
  BY DEF Has, InitialState
<1>3. \A s \in Session : \A e : ~Sequenced(s, e)
  BY <1>1, <1>2 DEF Sequenced
<1>4. \A a \in SessionAction : ~SequencedAction(a)
  <2>1. \A a \in SessionAction : a.resource \in Session
    BY DEF SessionAction
  <2> QED
    BY <1>3, <2>1 DEF SequencedAction
<1>5. \A a : ~Queued(a) /\ ~WrittenAhead(a)
  BY <1>1, <1>2 DEF Queued, WrittenAhead
<1>6. NumberedOnce
  BY <1>3 DEF NumberedOnce
<1>7. QueuedOnce
  <2>1. \A c \in Client : \A a : WritesOnce(c2s[c], a)
    BY <1>1 DEF WritesOnce
  <2> QED
    BY <1>1, <1>2, <1>5, <2>1 DEF QueuedOnce
<1>8. TurnsUsed
  BY <1>4, <1>5 DEF TurnsUsed, Known
<1>9. TurnsAwaited
  BY <1>1, NoTurnAssumption DEF TurnsAwaited
<1>10. EmittedOnce
  <2>1. \A s \in Session : /\ ActionOf("ready", s, NoTurn) \in SessionAction
                           /\ \A t \in Turn : ActionOf("turnComplete", s, t) \in SessionAction
    BY DEF ActionOf, SessionAction, TurnEnd
  <2> QED
    BY <1>4, <1>5, <2>1 DEF EmittedOnce
<1>11. PairInv
  BY <1>1 DEF PairInv
<1>12. CopiesInv
  <2>1. EntriesInOrder(InitialState.entries, 0)
    BY DEF EntriesInOrder, Increasing, InitialState
  <2> QED
    BY <1>1, <1>2, <2>1 DEF CopiesInv
<1> QED
  BY <1>6, <1>7, <1>8, <1>9, <1>10, <1>11, <1>12 DEF OnceInv

\* What is shown is the entries of the copy, then the actions that are pending.
Shows(x, st, pend, n) ==
  /\ x \in State /\ Len(x.entries) = Len(st.entries) + n
  /\ \A i \in 1 .. Len(st.entries) : x.entries[i] = st.entries[i]
  /\ \A j \in 1 .. n : x.entries[Len(st.entries) + j].action = pend[j].action

LEMMA ReplayShows ==
  ASSUME NEW st \in State, NEW pend \in Seq(PendingAction), NEW n \in Nat, n < Len(pend),
         NEW x, Shows(x, st, pend, n)
  PROVE  Shows(Replay(x, pend[n + 1]), st, pend, n + 1)
<1> DEFINE p == pend[n + 1]
           y == Replay(x, p)
<1>1. n + 1 \in DOMAIN pend /\ p \in PendingAction
  OBVIOUS
<1>2. p.action \in Action
  BY <1>1 DEF PendingAction, Action
<1> HIDE DEF p
<1>3. x \in State
  BY DEF Shows
<1>4. y \in State
  BY <1>2, <1>3, ReduceType DEF Replay
<1>5. PICK f \in Entry : f = [serverSeq |-> 0, action |-> p.action]
  BY <1>2 DEF Entry
<1>6. PICK q \in Seq(Entry) : q = x.entries
  BY <1>3 DEF State
<1>7. y.entries = Append(q, f) /\ f.action = p.action
  BY <1>5, <1>6 DEF Replay, Reduce
<1>8. PICK k \in Nat : k = Len(st.entries)
  <2>1. st.entries \in Seq(Entry)
    BY DEF State
  <2> QED
    BY <2>1
<1> HIDE DEF y
<1>9. /\ Len(q) = k + n /\ DOMAIN q = 1 .. k + n
      /\ \A i \in 1 .. k : q[i] = st.entries[i]
      /\ \A j \in 1 .. n : q[k + j].action = pend[j].action
  <2>1. Len(q) = k + n /\ DOMAIN q = 1 .. Len(q)
    BY <1>6, <1>8 DEF Shows
  <2>2. \A i \in 1 .. k : q[i] = st.entries[i]
    BY <1>6, <1>8 DEF Shows
  <2>3. \A j \in 1 .. n : q[k + j].action = pend[j].action
    BY <1>6, <1>8 DEF Shows
  <2> QED
    BY <2>1, <2>2, <2>3
<1>10. PICK r : r = Append(q, f)
  OBVIOUS
<1>11. /\ Len(r) = k + n + 1 /\ r[k + n + 1] = f /\ \A i \in 1 .. k + n : r[i] = q[i]
  BY <1>9, <1>10, AppendIs
<1>12. \A i \in 1 .. k : r[i] = st.entries[i]
  BY <1>9, <1>11
<1>13. \A j \in 1 .. n : r[k + j].action = pend[j].action
  BY <1>9, <1>11
<1>14. r[k + (n + 1)].action = pend[n + 1].action
  BY <1>7, <1>11 DEF p
<1>15. \A j \in 1 .. n + 1 : r[k + j].action = pend[j].action
  <2>1. \A j \in 1 .. n + 1 : j \in 1 .. n \/ j = n + 1
    OBVIOUS
  <2> QED
    BY <1>13, <1>14, <2>1
<1>16. y.entries = r /\ Len(r) = k + (n + 1)
  BY <1>7, <1>10, <1>11
<1>17. Shows(y, st, pend, n + 1)
  BY <1>4, <1>8, <1>12, <1>15, <1>16 DEF Shows
<1> QED
  BY <1>17 DEF y, p

LEMMA RebaseShows ==
  ASSUME NEW st \in State, NEW pend \in Seq(PendingAction)
  PROVE  Shows(Rebase(st, pend), st, pend, Len(pend))
<1>1. PICK u : Steps(st, pend, u) /\ FoldLeft(Replay, st, pend) = u[Len(pend)]
  BY FoldSteps
<1> DEFINE S == {n \in Nat : n <= Len(pend) => Shows(u[n], st, pend, n)}
<1>2. 0 \in S
  <2>1. st.entries \in Seq(Entry)
    BY DEF State
  <2> QED
    BY <1>1, <2>1 DEF Steps, Shows
<1>3. ASSUME NEW n \in Nat, n \in S
      PROVE  n + 1 \in S
  <2>1. Len(pend) \in Nat
    OBVIOUS
  <2>2. CASE n < Len(pend)
    <3>1. Shows(u[n], st, pend, n)
      BY <1>3, <2>1, <2>2
    <3>2. u[n + 1] = Replay(u[n], pend[n + 1])
      BY <1>1, <2>2 DEF Steps
    <3>3. Shows(u[n + 1], st, pend, n + 1)
      BY <2>2, <3>1, <3>2, ReplayShows
    <3> QED
      BY <3>3
  <2>3. CASE ~(n < Len(pend))
    BY <2>1, <2>3
  <2> QED
    BY <2>2, <2>3
<1> HIDE DEF S
<1>4. \A n \in Nat : n \in S
  BY <1>2, <1>3, SetInduction
<1>5. Len(pend) \in Nat /\ Len(pend) <= Len(pend)
  OBVIOUS
<1>6. Shows(u[Len(pend)], st, pend, Len(pend))
  BY <1>4, <1>5 DEF S
<1> QED
  BY <1>1, <1>6 DEF Rebase

LEMMA ShownOnce ==
  ASSUME AheadInv, OnceInv, PairInv, CopiesInv
  PROVE  AppliedOnce
<1> SUFFICES ASSUME NEW h \in Handler, NEW s \in subscribedSessions[h] \cap Session
             PROVE  \A i, j \in DOMAIN optimistic[h][s].entries :
                      optimistic[h][s].entries[i].action = optimistic[h][s].entries[j].action
                        => i = j
  BY DEF AppliedOnce
<1>1. TypeOK /\ s \in Session /\ s \in Resource /\ s # Root
  BY AheadIs, RootAssumption DEF Resource
<1>2. PICK st \in State : st = confirmed[h][s]
  BY <1>1 DEF TypeOK
<1>3. PICK pend \in Seq(PendingAction) : pend = pending[h][s]
  BY <1>1 DEF TypeOK
<1>4. PICK x : x = Rebase(st, pend)
  OBVIOUS
<1>5. optimistic[h][s] = x
  BY <1>1, <1>2, <1>3, <1>4 DEF AheadInv, RebaseInv, OptimisticIsRebased
<1>6. Shows(x, st, pend, Len(pend))
  BY <1>4, RebaseShows
<1>7. PICK q \in Seq(Entry) : q = st.entries
  BY DEF State
<1>8. PICK r \in Seq(Entry) : r = x.entries
  BY <1>6 DEF Shows, State
<1>9. /\ Len(q) \in Nat /\ Len(pend) \in Nat /\ DOMAIN r = 1 .. Len(q) + Len(pend)
      /\ DOMAIN q = 1 .. Len(q) /\ DOMAIN pend = 1 .. Len(pend)
  BY <1>6, <1>7, <1>8 DEF Shows
<1>10. /\ \A i \in DOMAIN q : r[i] = q[i]
       /\ \A j \in DOMAIN pend : r[Len(q) + j].action = pend[j].action
  BY <1>6, <1>7, <1>8, <1>9 DEF Shows
<1>11. ASSUME NEW i \in DOMAIN q, NEW j \in DOMAIN q, q[i].action = q[j].action
       PROVE  i = j
  <2>1. q[i] \in Entry /\ q[j] \in Entry
    OBVIOUS
  <2>2. Has(confirmed[h][s].entries, q[i]) /\ Has(confirmed[h][s].entries, q[j])
    BY <1>2, <1>7 DEF Has
  <2>3. Sequenced(s, q[i]) /\ Sequenced(s, q[j])
    BY <2>2 DEF Sequenced
  <2>4. q[i] = q[j]
    BY <1>1, <1>11, <2>1, <2>3 DEF OnceInv, NumberedOnce
  <2>5. Increasing(q)
    BY <1>1, <1>2, <1>7 DEF CopiesInv, EntriesInOrder
  <2>6. q[i].serverSeq \in Nat
    BY <2>1 DEF Entry
  <2>7. i \in Nat /\ j \in Nat
    BY <1>9
  <2>8. ~(i < j) /\ ~(j < i)
    <3>1. ~(q[i].serverSeq < q[j].serverSeq) /\ ~(q[j].serverSeq < q[i].serverSeq)
      BY <2>4, <2>6
    <3> QED
      BY <2>5, <3>1 DEF Increasing
  <2> QED
    BY <2>7, <2>8
<1>12. \A i, j \in DOMAIN pend : pend[i].action = pend[j].action => i = j
  BY <1>1, <1>3 DEF PairInv
<1>13. ASSUME NEW i \in DOMAIN q, NEW j \in DOMAIN pend
       PROVE  q[i].action # pend[j].action
  <2>1. q[i] \in Entry /\ Has(confirmed[h][s].entries, q[i])
    BY <1>2, <1>7 DEF Has
  <2> QED
    BY <1>1, <1>3, <2>1 DEF PairInv
<1>14. ASSUME NEW i \in DOMAIN r, i \notin DOMAIN q
       PROVE  \E k \in DOMAIN pend : i = Len(q) + k
  <2>1. i - Len(q) \in DOMAIN pend /\ i = Len(q) + (i - Len(q))
    BY <1>9, <1>14
  <2> QED
    BY <2>1
<1>15. ASSUME NEW i \in DOMAIN r, NEW j \in DOMAIN r, r[i].action = r[j].action
       PROVE  i = j
  <2>1. CASE i \in DOMAIN q /\ j \in DOMAIN q
    BY <1>10, <1>11, <1>15, <2>1
  <2>2. CASE i \notin DOMAIN q /\ j \notin DOMAIN q
    BY <1>10, <1>12, <1>14, <1>15, <2>2
  <2>3. CASE i \in DOMAIN q /\ j \notin DOMAIN q
    BY <1>10, <1>13, <1>14, <1>15, <2>3
  <2>4. CASE i \notin DOMAIN q /\ j \in DOMAIN q
    BY <1>10, <1>13, <1>14, <1>15, <2>4
  <2> QED
    BY <2>1, <2>2, <2>3, <2>4
<1> QED
  BY <1>5, <1>8, <1>15

(* A window shows every action once, ahead of its echo or after it: an     *)
(* action that was replayed twice, or that stayed pending once the copy    *)
(* had it (reconcile and _recomputeOptimistic in sessionClientState.ts),   *)
(* would show a message of the user twice.                                 *)
THEOREM ActionsAreShownOnce == OneSessionHandler => (Spec => []AppliedOnce)
<1> SUFFICES ASSUME OneSessionHandler
             PROVE  Spec => []AppliedOnce
  OBVIOUS
<1> DEFINE Inv == AheadInv /\ TurnInv /\ SequenceInv /\ OnceInv /\ PairInv /\ CopiesInv
<1>1. Init => Inv
  BY AheadInit, TurnInit, SequenceInit, OnceInit
<1>2. Inv /\ [Next]_vars => Inv'
  <2> SUFFICES ASSUME Inv, [Next]_vars
               PROVE  Inv'
    OBVIOUS
  <2>1. TypeOK
    BY AheadIs
  <2>2. AheadInv'
    BY AheadStep
  <2>3. TurnInv'
    BY <2>1, TurnStep
  <2>4. SequenceInv'
    BY SequenceStep
  <2>5. OnceInv'
    BY OnceStep
  <2>6. PairInv'
    BY PairStep
  <2>7. CopiesInv'
    BY CopiesStep
  <2> QED
    BY <2>2, <2>3, <2>4, <2>5, <2>6, <2>7
<1>3. Inv => AppliedOnce
  BY ShownOnce
<1> QED
  BY <1>1, <1>2, <1>3, PTL DEF Spec
=============================================================================
