------------------------- MODULE SessionSyncProofs -------------------------
(***************************************************************************)
(* Proofs that the copies of a session's state follow the server's, for    *)
(* any number of clients, handlers, sessions and turns.                    *)
(*                                                                         *)
(* SequenceInv says that everything numbered increases: the entries of     *)
(* every state, and the snapshots and envelopes of every queue.            *)
(***************************************************************************)
EXTENDS SessionProtocolProofs

USE ClientOfAssumption, ServesAssumption, RootAssumption, BreakableAssumption

\* The serverSeq up to which a message brings its receiver.
Mark(m) ==
  IF m.kind = "action" THEN m.envelope.serverSeq
  ELSE IF m.kind = "snapshot" THEN m.fromSeq ELSE 0

(* In every queue to a client an envelope is newer than all before it.     *)
QueueIncreases(q, n) ==
  /\ \A i \in DOMAIN q : Mark(q[i]) <= n
  /\ \A i, j \in DOMAIN q : i < j /\ q[j].kind = "action" => Mark(q[i]) < Mark(q[j])

QueuesIncrease(q, n) == \A c \in Client : QueueIncreases(q[c], n)

(* The entries of every state are in the order of their envelopes.         *)
EntriesIncrease(st, n) ==
  \A r \in Resource :
    /\ \A i \in DOMAIN st[r].entries : st[r].entries[i].serverSeq <= n
    /\ \A i, j \in DOMAIN st[r].entries :
         i < j => st[r].entries[i].serverSeq < st[r].entries[j].serverSeq

(* What a handler has seen is older than the envelopes on their way to it. *)
SeenIsBehind(q, seen, n) ==
  \A h \in Handler :
    /\ seen[h] <= n
    /\ \A i \in DOMAIN q[ClientOf[h]] :
         q[ClientOf[h]][i].kind = "action" => seen[h] < Mark(q[ClientOf[h]][i])

SequenceInv ==
  /\ LifeInv
  /\ QueuesIncrease(s2c, serverSeq)
  /\ EntriesIncrease(state, serverSeq)
  /\ SeenIsBehind(s2c, lastSeenServerSeq, serverSeq)

----------------------------------------------------------------------------
(* Queues *)

LEMMA MarkType == \A m \in ToClient : Mark(m) \in Nat
<1>1. \A m \in ToClient : m.kind = "action" => m.envelope \in Envelope
  BY DEF ToClient
<1>2. \A m \in ToClient : m.kind = "snapshot" => m.fromSeq \in Nat
  BY DEF ToClient
<1> QED
  BY <1>1, <1>2 DEF Mark, Envelope

LEMMA QueuePops ==
  ASSUME NEW n \in Nat, NEW q \in Seq(ToClient), q # <<>>, QueueIncreases(q, n)
  PROVE  /\ QueueIncreases(Tail(q), n)
         /\ Mark(Head(q)) <= n
         /\ \A i \in DOMAIN Tail(q) :
              Tail(q)[i].kind = "action" => Mark(Head(q)) < Mark(Tail(q)[i])
BY TailIs DEF QueueIncreases

LEMMA QueueGrows ==
  ASSUME NEW n \in Nat, NEW k \in Nat, n <= k, NEW q \in Seq(ToClient), QueueIncreases(q, n)
  PROVE  /\ QueueIncreases(q, k)
         /\ \A m \in ToClient :
              Mark(m) <= k /\ (m.kind = "action" => n < Mark(m)) => QueueIncreases(Append(q, m), k)
<1>1. \A i \in DOMAIN q : Mark(q[i]) \in Nat
  BY MarkType
<1>2. QueueIncreases(q, k)
  BY <1>1 DEF QueueIncreases
<1>3. ASSUME NEW m \in ToClient, Mark(m) <= k, m.kind = "action" => n < Mark(m)
      PROVE  QueueIncreases(Append(q, m), k)
  <2> DEFINE a == Append(q, m)
  <2>1. /\ Len(q) \in Nat /\ DOMAIN q = 1 .. Len(q) /\ DOMAIN a = 1 .. Len(q) + 1
        /\ a[Len(q) + 1] = m /\ \A i \in DOMAIN q : a[i] = q[i]
    BY AppendIs
  <2>2. Mark(m) \in Nat
    BY MarkType
  <2> HIDE DEF a
  <2>3. \A i \in DOMAIN a : Mark(a[i]) <= k
    BY <1>2, <1>3, <2>1 DEF QueueIncreases
  <2>4. ASSUME NEW i \in DOMAIN a, NEW j \in DOMAIN a, i < j, a[j].kind = "action"
        PROVE  Mark(a[i]) < Mark(a[j])
    <3>1. i \in DOMAIN q /\ a[i] = q[i] /\ Mark(q[i]) <= n /\ Mark(q[i]) \in Nat
      BY <1>1, <2>1, <2>4 DEF QueueIncreases
    <3>2. CASE j \in DOMAIN q
      BY <2>1, <2>4, <3>1, <3>2 DEF QueueIncreases
    <3>3. CASE j = Len(q) + 1
      BY <1>3, <2>1, <2>2, <2>4, <3>1, <3>3
    <3> QED
      BY <2>1, <3>2, <3>3
  <2> QED
    BY <2>3, <2>4 DEF QueueIncreases, a
<1> QED
  BY <1>2, <1>3

----------------------------------------------------------------------------
(* An envelope is newer than everything before it.                         *)

LEMMA EmitsIncrease ==
  ASSUME NEW n \in Nat, NEW q \in ClientQueues, NEW st \in [Resource -> State],
         NEW env, NEW q2, NEW st2, Emits(q, st, n, env, q2, st2),
         NEW seen \in [Handler -> Nat],
         QueuesIncrease(q, n), EntriesIncrease(st, n), SeenIsBehind(q, seen, n)
  PROVE  /\ q2 \in ClientQueues
         /\ QueuesIncrease(q2, n + 1) /\ EntriesIncrease(st2, n + 1) /\ SeenIsBehind(q2, seen, n + 1)
<1>1. env \in Envelope /\ env.serverSeq = n + 1 /\ q2 = Deliver(q, env)
  BY DEF Emits
<1> DEFINE m == [kind |-> "action", envelope |-> env]
<1>2. m \in ToClient
  BY <1>1 DEF ToClient
<1>3. m.kind = "action" /\ Mark(m) = n + 1
  BY <1>1 DEF Mark
<1>4. \A c \in Client : q2[c] = q[c] \/ q2[c] = Append(q[c], m)
  <2>1. \A c \in Client : Deliver(q, env)[c] = q[c] \/ Deliver(q, env)[c] = Append(q[c], m)
    BY DEF Deliver
  <2> QED
    BY <1>1, <2>1
<1>5. \A c \in Client : q[c] \in Seq(ToClient)
  BY DEF ClientQueues
<1> HIDE DEF m
<1>6. QueuesIncrease(q2, n + 1)
  <2>1. ASSUME NEW c \in Client
        PROVE  QueueIncreases(q2[c], n + 1)
    <3>1. QueueIncreases(q[c], n) /\ q[c] \in Seq(ToClient) /\ n + 1 \in Nat /\ n <= n + 1
      BY <1>5 DEF QueuesIncrease
    <3>2. QueueIncreases(q[c], n + 1) /\ QueueIncreases(Append(q[c], m), n + 1)
      BY <1>2, <1>3, <3>1, QueueGrows
    <3> QED
      BY <1>4, <3>2
  <2> QED
    BY <2>1 DEF QueuesIncrease
<1>7. SeenIsBehind(q2, seen, n + 1)
  <2> SUFFICES ASSUME NEW h \in Handler
               PROVE  /\ seen[h] <= n + 1
                      /\ \A i \in DOMAIN q2[ClientOf[h]] :
                           q2[ClientOf[h]][i].kind = "action" => seen[h] < Mark(q2[ClientOf[h]][i])
    BY DEF SeenIsBehind
  <2> DEFINE p == q[ClientOf[h]]
  <2>1. p \in Seq(ToClient) /\ (q2[ClientOf[h]] = p \/ q2[ClientOf[h]] = Append(p, m))
    BY <1>2, <1>3, <1>4, <1>5
  <2>2. seen[h] <= n /\ \A i \in DOMAIN p : p[i].kind = "action" => seen[h] < Mark(p[i])
    BY DEF SeenIsBehind
  <2>3. seen[h] \in Nat
    OBVIOUS
  <2> HIDE DEF p
  <2>4. \A i \in DOMAIN Append(p, m) : Append(p, m)[i].kind = "action" => seen[h] < Mark(Append(p, m)[i])
    BY <1>2, <1>3, <1>4, <2>1, <2>2, <2>3, AppendIs
  <2>5. seen[h] <= n + 1
    BY <2>2, <2>3
  <2>6. CASE q2[ClientOf[h]] = p
    BY <2>2, <2>5, <2>6
  <2>7. CASE q2[ClientOf[h]] = Append(p, m)
    BY <2>4, <2>5, <2>7
  <2> QED
    BY <2>1, <2>6, <2>7
<1>8. EntriesIncrease(st2, n + 1)
  <2> SUFFICES ASSUME NEW r \in Resource
               PROVE  /\ \A i \in DOMAIN st2[r].entries : st2[r].entries[i].serverSeq <= n + 1
                      /\ \A i, j \in DOMAIN st2[r].entries :
                           i < j => st2[r].entries[i].serverSeq < st2[r].entries[j].serverSeq
    BY DEF EntriesIncrease
  <2> DEFINE e == st[r].entries
             x == EnvelopeEntry(env)
  <2>1. /\ e \in Seq(Entry) /\ x \in Entry /\ x.serverSeq = n + 1
        /\ st2[r].entries = e \/ st2[r].entries = Append(e, x)
    BY <1>1, ReduceIs DEF Emits, EnvelopeEntry
  <2>2. /\ \A i \in DOMAIN e : e[i].serverSeq <= n
        /\ \A i, j \in DOMAIN e : i < j => e[i].serverSeq < e[j].serverSeq
    BY DEF EntriesIncrease
  <2> HIDE DEF e, x
  <2>3. \A i \in DOMAIN e : e[i].serverSeq \in Nat
    <3>1. \A i \in DOMAIN e : e[i] \in Entry
      BY <2>1
    <3> QED
      BY <3>1 DEF Entry
  <2> DEFINE f == Append(e, x)
  <2>4. /\ Len(e) \in Nat /\ DOMAIN e = 1 .. Len(e) /\ DOMAIN f = 1 .. Len(e) + 1
        /\ f[Len(e) + 1] = x /\ \A i \in DOMAIN e : f[i] = e[i]
    BY <2>1, AppendIs
  <2> HIDE DEF f
  <2>5. \A i \in DOMAIN f : f[i].serverSeq <= n + 1
    BY <2>1, <2>2, <2>3, <2>4
  <2>6. ASSUME NEW i \in DOMAIN f, NEW j \in DOMAIN f, i < j
        PROVE  f[i].serverSeq < f[j].serverSeq
    <3>1. i \in DOMAIN e /\ f[i] = e[i]
      BY <2>4, <2>6
    <3>2. CASE j \in DOMAIN e
      BY <2>2, <2>4, <2>6, <3>1, <3>2
    <3>3. CASE j = Len(e) + 1
      <4>1. f[j].serverSeq = n + 1 /\ f[i].serverSeq <= n /\ f[i].serverSeq \in Nat
        BY <2>1, <2>2, <2>3, <2>4, <3>1, <3>3
      <4> QED
        BY <4>1
    <3> QED
      BY <2>4, <3>2, <3>3
  <2>7. \A i \in DOMAIN e : e[i].serverSeq <= n + 1
    BY <2>2, <2>3
  <2> QED
    BY <2>1, <2>2, <2>5, <2>6, <2>7 DEF f
<1> QED
  BY <1>1, <1>6, <1>7, <1>8, DeliverType

----------------------------------------------------------------------------
(* The other messages: queued, taken, or lost with the connection.         *)

LEMMA MessageQueued ==
  ASSUME NEW n \in Nat, NEW q \in ClientQueues, NEW seen \in [Handler -> Nat],
         QueuesIncrease(q, n), SeenIsBehind(q, seen, n),
         NEW c \in Client, NEW m \in ToClient, m.kind # "action", Mark(m) <= n
  PROVE  /\ QueuesIncrease([q EXCEPT ![c] = Append(@, m)], n)
         /\ SeenIsBehind([q EXCEPT ![c] = Append(@, m)], seen, n)
<1> DEFINE q2 == [q EXCEPT ![c] = Append(@, m)]
<1>1. \A d \in Client : /\ q[d] \in Seq(ToClient)
                        /\ q2[d] = IF d = c THEN Append(q[c], m) ELSE q[d]
  BY DEF ClientQueues
<1> HIDE DEF q2
<1>2. QueuesIncrease(q2, n)
  <2>1. QueueIncreases(q[c], n) /\ q[c] \in Seq(ToClient)
    BY <1>1 DEF QueuesIncrease
  <2>2. QueueIncreases(Append(q[c], m), n)
    BY <2>1, QueueGrows
  <2> QED
    BY <1>1, <2>2 DEF QueuesIncrease
<1>3. SeenIsBehind(q2, seen, n)
  <2>1. \A i \in DOMAIN Append(q[c], m) : Append(q[c], m)[i].kind = "action"
          => i \in DOMAIN q[c] /\ Append(q[c], m)[i] = q[c][i]
    BY <1>1, AppendIs
  <2> QED
    BY <1>1, <2>1 DEF SeenIsBehind
<1> QED
  BY <1>2, <1>3 DEF q2

LEMMA MessageTaken ==
  ASSUME NEW n \in Nat, NEW q \in ClientQueues, NEW seen \in [Handler -> Nat],
         QueuesIncrease(q, n), SeenIsBehind(q, seen, n), NEW c \in Client, q[c] # <<>>
  PROVE  /\ QueuesIncrease([q EXCEPT ![c] = Tail(@)], n)
         /\ \A seen2 \in [Handler -> Nat] :
              (\A h \in Handler : \/ seen2[h] = seen[h]
                                  \/ ClientOf[h] = c /\ seen2[h] = Mark(Head(q[c])))
              => SeenIsBehind([q EXCEPT ![c] = Tail(@)], seen2, n)
<1> DEFINE q2 == [q EXCEPT ![c] = Tail(@)]
<1>1. \A d \in Client : q[d] \in Seq(ToClient) /\ q2[d] = IF d = c THEN Tail(q[c]) ELSE q[d]
  BY DEF ClientQueues
<1>2. /\ QueueIncreases(Tail(q[c]), n)
      /\ Mark(Head(q[c])) <= n
      /\ \A i \in DOMAIN Tail(q[c]) :
           Tail(q[c])[i].kind = "action" => Mark(Head(q[c])) < Mark(Tail(q[c])[i])
  BY <1>1, QueuePops DEF QueuesIncrease
<1> HIDE DEF q2
<1>3. QueuesIncrease(q2, n)
  BY <1>1, <1>2 DEF QueuesIncrease
<1>4. ASSUME NEW seen2 \in [Handler -> Nat],
             \A h \in Handler : seen2[h] = seen[h] \/ (ClientOf[h] = c /\ seen2[h] = Mark(Head(q[c])))
      PROVE  SeenIsBehind(q2, seen2, n)
  <2> SUFFICES ASSUME NEW h \in Handler
               PROVE  /\ seen2[h] <= n
                      /\ \A i \in DOMAIN q2[ClientOf[h]] :
                           q2[ClientOf[h]][i].kind = "action" => seen2[h] < Mark(q2[ClientOf[h]][i])
    BY DEF SeenIsBehind
  <2>1. CASE ClientOf[h] = c /\ seen2[h] = Mark(Head(q[c]))
    <3>1. q2[ClientOf[h]] = Tail(q[c])
      BY <1>1, <2>1
    <3> QED
      BY <1>2, <2>1, <3>1
  <2>2. CASE seen2[h] = seen[h]
    <3>1. /\ seen[h] <= n
          /\ \A i \in DOMAIN q[ClientOf[h]] :
               q[ClientOf[h]][i].kind = "action" => seen[h] < Mark(q[ClientOf[h]][i])
      BY DEF SeenIsBehind
    <3>2. CASE ClientOf[h] = c
      <4>1. \A i \in DOMAIN Tail(q[c]) : i + 1 \in DOMAIN q[c] /\ Tail(q[c])[i] = q[c][i + 1]
        BY <1>1, TailIs
      <4>2. ASSUME NEW i \in DOMAIN Tail(q[c]), Tail(q[c])[i].kind = "action"
            PROVE  seen[h] < Mark(Tail(q[c])[i])
        BY <3>1, <3>2, <4>1, <4>2
      <4> QED
        BY <1>1, <2>2, <3>1, <3>2, <4>2
    <3>3. CASE ClientOf[h] # c
      BY <1>1, <2>2, <3>1, <3>3
    <3> QED
      BY <3>2, <3>3
  <2> QED
    BY <1>4, <2>1, <2>2
<1> QED
  BY <1>3, <1>4 DEF q2

LEMMA MessageIgnored ==
  ASSUME SequenceInv, NEW c \in Client, NEW kind, Receiving(c, kind),
         UNCHANGED <<serverSeq, state, lastSeenServerSeq>>
  PROVE  /\ QueuesIncrease(s2c', serverSeq') /\ EntriesIncrease(state', serverSeq')
         /\ SeenIsBehind(s2c', lastSeenServerSeq', serverSeq')
BY MessageTaken DEF SequenceInv, LifeInv, TypeOK, ClientQueues, Receiving

LEMMA ReplyIncreases ==
  ASSUME SequenceInv, NEW c \in Client, NEW m \in ToClient, m.kind # "action", Mark(m) <= serverSeq,
         s2c' = s2c \/ s2c' = [s2c EXCEPT ![c] = Append(@, m)],
         UNCHANGED <<serverSeq, state, lastSeenServerSeq>>
  PROVE  /\ QueuesIncrease(s2c', serverSeq') /\ EntriesIncrease(state', serverSeq')
         /\ SeenIsBehind(s2c', lastSeenServerSeq', serverSeq')
<1>1. serverSeq \in Nat /\ s2c \in ClientQueues /\ lastSeenServerSeq \in [Handler -> Nat]
  BY DEF SequenceInv, LifeInv, TypeOK, ClientQueues
<1>2. CASE s2c' = [s2c EXCEPT ![c] = Append(@, m)]
  BY <1>1, <1>2, MessageQueued DEF SequenceInv
<1> QED
  BY <1>2 DEF SequenceInv

\* Nothing numbered is written.
LEMMA NothingSent ==
  ASSUME SequenceInv, UNCHANGED <<serverSeq, state, s2c, lastSeenServerSeq>>
  PROVE  /\ QueuesIncrease(s2c', serverSeq') /\ EntriesIncrease(state', serverSeq')
         /\ SeenIsBehind(s2c', lastSeenServerSeq', serverSeq')
BY DEF SequenceInv

LEMMA EmitIncreases ==
  ASSUME SequenceInv, NEW a \in SessionAction, NEW origin \in Origin, Emit(s2c, a, origin),
         UNCHANGED lastSeenServerSeq
  PROVE  /\ QueuesIncrease(s2c', serverSeq') /\ EntriesIncrease(state', serverSeq')
         /\ SeenIsBehind(s2c', lastSeenServerSeq', serverSeq')
<1>1. /\ serverSeq \in Nat /\ s2c \in ClientQueues /\ lastSeenServerSeq \in [Handler -> Nat]
      /\ state \in [Resource -> State] /\ serverSeq + 1 \in Nat /\ serverSeq + 1 + 1 = serverSeq + 2
  BY DEF SequenceInv, LifeInv, TypeOK, ClientQueues
<1>2. CASE /\ serverSeq' = serverSeq + 1
           /\ \E env \in Envelope : Emits(s2c, state, serverSeq, env, s2c', state')
  BY <1>1, <1>2, EmitsIncrease DEF SequenceInv
<1>3. CASE /\ serverSeq' = serverSeq + 2
           /\ \E rootEnv, env \in Envelope : \E q \in ClientQueues, st \in [Resource -> State] :
                /\ Emits(s2c, state, serverSeq, rootEnv, q, st)
                /\ Emits(q, st, serverSeq + 1, env, s2c', state')
  <2>1. PICK rootEnv \in Envelope, env \in Envelope, q \in ClientQueues, st \in [Resource -> State] :
               /\ Emits(s2c, state, serverSeq, rootEnv, q, st)
               /\ Emits(q, st, serverSeq + 1, env, s2c', state')
    BY <1>3
  <2>2. /\ QueuesIncrease(q, serverSeq + 1) /\ EntriesIncrease(st, serverSeq + 1)
        /\ SeenIsBehind(q, lastSeenServerSeq, serverSeq + 1)
    BY <1>1, <2>1, EmitsIncrease DEF SequenceInv
  <2>3. /\ QueuesIncrease(s2c', serverSeq + 1 + 1) /\ EntriesIncrease(state', serverSeq + 1 + 1)
        /\ SeenIsBehind(s2c', lastSeenServerSeq, serverSeq + 1 + 1)
    BY <1>1, <2>1, <2>2, EmitsIncrease
  <2> QED
    BY <1>1, <1>3, <2>3
<1> QED
  BY <1>2, <1>3, EmitIs DEF SequenceInv, LifeInv

LEMMA SequenceStep == SequenceInv /\ [Next]_vars => SequenceInv'
<1> SUFFICES ASSUME SequenceInv, [Next]_vars
             PROVE  /\ QueuesIncrease(s2c', serverSeq') /\ EntriesIncrease(state', serverSeq')
                    /\ SeenIsBehind(s2c', lastSeenServerSeq', serverSeq')
  BY LifeStep DEF SequenceInv
<1> DEFINE Increases ==
             /\ QueuesIncrease(s2c', serverSeq') /\ EntriesIncrease(state', serverSeq')
             /\ SeenIsBehind(s2c', lastSeenServerSeq', serverSeq')
<1>1. /\ LifeInv /\ TypeOK /\ serverSeq \in Nat /\ state \in [Resource -> State] /\ s2c \in ClientQueues
      /\ lastSeenServerSeq \in [Handler -> Nat]
      /\ QueuesIncrease(s2c, serverSeq) /\ EntriesIncrease(state, serverSeq)
      /\ SeenIsBehind(s2c, lastSeenServerSeq, serverSeq)
  BY DEF SequenceInv, LifeInv, TypeOK, ClientQueues
<1>2. ASSUME NEW c \in Client, HandleInitialize(c)
      PROVE  Increases
  <2> DEFINE m == [kind |-> "initialized"]
  <2>1. m \in ToClient /\ m.kind # "action" /\ Mark(m) = 0
    BY DEF ToClient, Mark
  <2>2. /\ s2c' = s2c \/ s2c' = [s2c EXCEPT ![c] = Append(@, m)]
        /\ UNCHANGED <<serverSeq, state, lastSeenServerSeq>>
    BY <1>2 DEF HandleInitialize, Reply, server, sync
  <2> HIDE DEF m
  <2> QED
    BY <1>1, <2>1, <2>2, ReplyIncreases
<1>3. ASSUME NEW c \in Client, HandleSubscribe(c)
      PROVE  Increases
  <2> DEFINE m == Head(c2s[c])
             answer == IF Live(m.resource)
                       THEN [kind |-> "snapshot", resource |-> m.resource, handler |-> m.handler,
                             state |-> state[m.resource], fromSeq |-> serverSeq]
                       ELSE [kind |-> "notFound", resource |-> m.resource, handler |-> m.handler]
  <2>1. m.resource \in Resource /\ m.handler \in Handler
    BY <1>1, <1>3, HeadOfC2S DEF HandleSubscribe, Handling, ToServer
  <2>2. answer \in ToClient
    BY <1>1, <2>1 DEF ToClient
  <2>3. answer.kind # "action" /\ Mark(answer) <= serverSeq
    BY <1>1 DEF Mark
  <2>4. /\ s2c' = s2c \/ s2c' = [s2c EXCEPT ![c] = Append(@, answer)]
        /\ UNCHANGED <<serverSeq, state, lastSeenServerSeq>>
    BY <1>3 DEF HandleSubscribe, Reply, server, sync
  <2> HIDE DEF answer
  <2> QED
    BY <2>2, <2>3, <2>4, ReplyIncreases
<1>4. ASSUME NEW c \in Client, HandleDispatchAction(c)
      PROVE  Increases
  <2> DEFINE m == Head(c2s[c])
  <2>1. m.action \in SessionAction /\ m.clientSeq \in Nat
    BY <1>1, <1>4, HeadOfC2S DEF HandleDispatchAction, Handling, ToServer
  <2>2. [client |-> c, clientSeq |-> m.clientSeq] \in Origin
    BY <2>1 DEF Origin
  <2>3. Emit(s2c, m.action, [client |-> c, clientSeq |-> m.clientSeq]) /\ UNCHANGED lastSeenServerSeq
    BY <1>4 DEF HandleDispatchAction, sync
  <2> HIDE DEF m
  <2> QED
    BY <2>1, <2>2, <2>3, EmitIncreases
<1>5. ASSUME NEW s \in Session, AgentIdle(s)
      PROVE  Increases
  <2> DEFINE a == ActionOf("turnComplete", s, state[s].activeTurn)
  <2>1. state[s].activeTurn \in Turn
    BY <1>1, <1>5 DEF AgentIdle, State, Resource
  <2>2. a \in SessionAction /\ NoOrigin \in Origin
    BY <2>1, ActionTypes DEF TurnEnd, Origin
  <2>3. Emit(s2c, a, NoOrigin) /\ UNCHANGED lastSeenServerSeq
    BY <1>5 DEF AgentIdle, sync
  <2> HIDE DEF a
  <2> QED
    BY <2>2, <2>3, EmitIncreases
<1>6. ASSUME NEW c \in Client, HandleDisposeSession(c)
      PROVE  Increases
  <2>1. /\ UNCHANGED <<s2c, serverSeq, lastSeenServerSeq>>
        /\ \A r \in Resource : state'[r] = state[r] \/ state'[r] = InitialState
    BY <1>1, <1>6 DEF HandleDisposeSession, sync
  <2>2. EntriesIncrease(state', serverSeq)
    BY <1>1, <2>1 DEF EntriesIncrease, InitialState
  <2> QED
    BY <1>1, <2>1, <2>2
<1>7. ASSUME NEW p \in creating, SessionCreated(p)
      PROVE  Increases
  <2> DEFINE a   == ActionOf("ready", p.resource, NoTurn)
             env == [action |-> a, serverSeq |-> serverSeq + 1, origin |-> NoOrigin]
             m   == [kind |-> "created", resource |-> p.resource, handler |-> p.handler]
             st  == [state EXCEPT ![p.resource] = InitialState]
             q   == Deliver(s2c, env)
  <2>1. /\ p.client \in Client /\ p.resource \in Session /\ p.handler \in Handler
        /\ p.resource \in Resource
    BY <1>1 DEF TypeOK, Resource
  <2>2. /\ env \in Envelope /\ env.serverSeq = serverSeq + 1 /\ env.action = a /\ a.resource = p.resource
    BY <1>1, <2>1, ActionTypes DEF Envelope, Action, Origin, ActionOf
  <2>3. m \in ToClient /\ m.kind # "action" /\ Mark(m) = 0
    BY <2>1 DEF ToClient, Mark
  <2>4. /\ st \in [Resource -> State]
        /\ \A r \in Resource : st[r] = IF r = p.resource THEN InitialState ELSE state[r]
    BY <1>1, InitialStateType
  <2>5. EntriesIncrease(st, serverSeq)
    BY <1>1, <2>4 DEF EntriesIncrease, InitialState
  <2>6. /\ serverSeq' = serverSeq + 1 /\ lastSeenServerSeq' = lastSeenServerSeq
        /\ state' = [state EXCEPT ![p.resource] = Reduce(InitialState, a, serverSeq + 1)]
        /\ s2c' = q \/ s2c' = [q EXCEPT ![p.client] = Append(@, m)]
    BY <1>7 DEF SessionCreated, Answer, sync
  <2> HIDE DEF a, env, m, st
  <2>7. Emits(s2c, st, serverSeq, env, q, state')
    <3>1. /\ Reduce(InitialState, a, serverSeq + 1) \in State
          /\ Reduce(InitialState, a, serverSeq + 1).entries
               = Append(InitialState.entries, EnvelopeEntry(env))
      BY <2>2, InitialStateType, ReduceIs
    <3>2. /\ state' \in [Resource -> State]
          /\ \A r \in Resource : state'[r] = IF r = p.resource
                                             THEN Reduce(InitialState, a, serverSeq + 1) ELSE state[r]
      BY <1>1, <2>1, <2>6, <3>1
    <3> QED
      BY <2>1, <2>2, <2>4, <3>1, <3>2 DEF Emits
  <2>8. /\ QueuesIncrease(q, serverSeq + 1) /\ EntriesIncrease(state', serverSeq + 1)
        /\ SeenIsBehind(q, lastSeenServerSeq, serverSeq + 1) /\ q \in ClientQueues
    BY <1>1, <2>4, <2>5, <2>7, EmitsIncrease
  <2> HIDE DEF q
  <2>9. serverSeq + 1 \in Nat /\ 0 <= serverSeq + 1
    BY <1>1
  <2>10. /\ QueuesIncrease([q EXCEPT ![p.client] = Append(@, m)], serverSeq + 1)
         /\ SeenIsBehind([q EXCEPT ![p.client] = Append(@, m)], lastSeenServerSeq, serverSeq + 1)
    BY <1>1, <2>1, <2>3, <2>8, <2>9, MessageQueued
  <2> QED
    BY <2>6, <2>8, <2>10
<1>8. ASSUME NEW p \in creating, SessionCreationFails(p)
      PROVE  Increases
  <2> DEFINE m == [kind |-> "createFailed", resource |-> p.resource, handler |-> p.handler]
  <2>1. PICK c \in Client : c = p.client /\ p.resource \in Session /\ p.handler \in Handler
    BY <1>1 DEF TypeOK
  <2>2. m \in ToClient /\ m.kind # "action" /\ Mark(m) = 0 /\ Mark(m) <= serverSeq
    BY <1>1, <2>1 DEF ToClient, Mark
  <2>3. /\ s2c' = s2c \/ s2c' = [s2c EXCEPT ![c] = Append(@, m)]
        /\ UNCHANGED <<serverSeq, state, lastSeenServerSeq>>
    BY <1>8, <2>1 DEF SessionCreationFails, Answer, server, sync
  <2> HIDE DEF m
  <2> QED
    BY <1>1, <2>1, <2>2, <2>3, ReplyIncreases
<1>9. ASSUME NEW c \in Client, Disconnect(c)
      PROVE  Increases
  <2>1. /\ UNCHANGED <<serverSeq, state, lastSeenServerSeq>>
        /\ \A d \in Client : s2c'[d] = s2c[d] \/ s2c'[d] = <<>>
    BY <1>1, <1>9 DEF Disconnect, server, sync, ClientQueues
  <2>2. QueuesIncrease(s2c', serverSeq)
    BY <1>1, <2>1 DEF QueuesIncrease, QueueIncreases
  <2>3. SeenIsBehind(s2c', lastSeenServerSeq, serverSeq)
    BY <1>1, <2>1 DEF SeenIsBehind
  <2> QED
    BY <1>1, <2>1, <2>2, <2>3
<1>10. ASSUME NEW c \in Client, HandleSnapshot(c)
       PROVE  Increases
  <2> DEFINE m == Head(s2c[c])
  <2>1. /\ s2c[c] # <<>> /\ s2c' = [s2c EXCEPT ![c] = Tail(@)] /\ m.kind = "snapshot"
        /\ UNCHANGED <<serverSeq, state>>
        /\ lastSeenServerSeq' = [lastSeenServerSeq EXCEPT ![m.handler] = Max({@, m.fromSeq})]
    BY <1>10 DEF HandleSnapshot, Receiving, server
  <2>2. m.handler \in Handler /\ m.fromSeq \in Nat /\ Mark(m) = m.fromSeq
    BY <1>1, <1>10, <2>1, HeadOfS2C DEF HandleSnapshot, ToClient, Mark
  <2>3. ClientOf[m.handler] = c
    <3>1. DownOK(c, m) /\ IsAnswer(m)
      BY <1>1, <1>10, Received DEF HandleSnapshot, IsAnswer
    <3> QED
      BY <3>1 DEF DownOK, Addressed
  <2> HIDE DEF m
  <2>4. \A h \in Handler : \/ lastSeenServerSeq'[h] = lastSeenServerSeq[h]
                           \/ ClientOf[h] = c /\ lastSeenServerSeq'[h] = Mark(m)
    <3>1. /\ lastSeenServerSeq[m.handler] \in Nat
          /\ \/ Max({lastSeenServerSeq[m.handler], m.fromSeq}) = lastSeenServerSeq[m.handler]
             \/ Max({lastSeenServerSeq[m.handler], m.fromSeq}) = m.fromSeq
      BY <1>1, <2>2, MaxOfTwo
    <3> QED
      BY <1>1, <2>1, <2>2, <2>3, <3>1
  <2>5. lastSeenServerSeq' \in [Handler -> Nat]
    BY LifeStep DEF SequenceInv, LifeInv, TypeOK
  <2> QED
    BY <1>1, <2>1, <2>4, <2>5, MessageTaken DEF m
<1>11. ASSUME NEW c \in Client, ReceiveEnvelope(c)
       PROVE  Increases
  <2> DEFINE M == Head(s2c[c])
  <2>1. /\ s2c[c] # <<>> /\ s2c' = [s2c EXCEPT ![c] = Tail(@)] /\ M.kind = "action"
        /\ UNCHANGED <<serverSeq, state>>
        /\ \A h \in Handler : lastSeenServerSeq'[h] =
             IF ClientOf[h] = c /\ Listens(h, M.envelope)
             THEN Max({lastSeenServerSeq[h], M.envelope.serverSeq}) ELSE lastSeenServerSeq[h]
    BY <1>11 DEF ReceiveEnvelope, Receiving, server
  <2>2. M.envelope.serverSeq \in Nat /\ Mark(M) = M.envelope.serverSeq
    <3>1. M \in ToClient /\ M.kind = "action"
      BY <1>1, <1>11, Received DEF ReceiveEnvelope
    <3>2. M.envelope \in Envelope
      BY <3>1 DEF ToClient
    <3> QED
      BY <3>1, <3>2 DEF Mark, Envelope
  <2> HIDE DEF M
  <2>3. ASSUME NEW h \in Handler
        PROVE  \/ lastSeenServerSeq'[h] = lastSeenServerSeq[h]
               \/ ClientOf[h] = c /\ lastSeenServerSeq'[h] = Mark(M)
    <3>1. /\ lastSeenServerSeq[h] \in Nat
          /\ \/ Max({lastSeenServerSeq[h], M.envelope.serverSeq}) = lastSeenServerSeq[h]
             \/ Max({lastSeenServerSeq[h], M.envelope.serverSeq}) = M.envelope.serverSeq
      BY <1>1, <2>2, MaxOfTwo
    <3> QED
      BY <2>1, <2>2, <3>1
  <2>4. lastSeenServerSeq' \in [Handler -> Nat]
    BY LifeStep DEF SequenceInv, LifeInv, TypeOK
  <2> QED
    BY <1>1, <2>1, <2>3, <2>4, MessageTaken DEF M
<1>12. ASSUME NEW c \in Client,
              HandleUnsubscribe(c) \/ HandleCreateSession(c) \/ Connect(c) \/ HandleClose(c)
       PROVE  Increases
  <2>1. UNCHANGED <<serverSeq, state, s2c, lastSeenServerSeq>>
    BY <1>12 DEF HandleUnsubscribe, HandleCreateSession, Connect, HandleClose, server, sync
  <2> QED
    BY <2>1, NothingSent
<1>13. ASSUME NEW h \in Handler, NEW r \in Resource, OpenExisting(h, r)
       PROVE  Increases
  BY <1>13, NothingSent DEF OpenExisting, server, sync
<1>14. ASSUME NEW h \in Handler, NEW s \in Session,
              CreateSession(h, s) \/ CloseSession(h, s) \/ CancelTurn(h, s)
       PROVE  Increases
  <2>1. UNCHANGED <<serverSeq, state, s2c, lastSeenServerSeq>>
    BY <1>14 DEF CreateSession, CloseSession, CancelTurn, server, sync
  <2> QED
    BY <2>1, NothingSent
<1>15. ASSUME NEW h \in Handler, NEW s \in Session, NEW t \in Turn, StartTurn(h, s, t)
       PROVE  Increases
  BY <1>15, NothingSent DEF StartTurn, server
<1>16. ASSUME NEW c \in Client, Initialized(c)
       PROVE  Increases
  BY <1>16, MessageIgnored DEF Initialized, server, sync
<1>17. ASSUME NEW c \in Client, SessionCreateReturns(c)
       PROVE  Increases
  BY <1>17, MessageIgnored DEF SessionCreateReturns, server, sync
<1>18. ASSUME NEW c \in Client, SessionCreateThrows(c)
       PROVE  Increases
  BY <1>18, MessageIgnored DEF SessionCreateThrows, server, sync
<1>19. ASSUME NEW c \in Client, SubscribeFails(c)
       PROVE  Increases
  BY <1>19, MessageIgnored DEF SubscribeFails, server, sync
<1>20. CASE UNCHANGED vars
  BY <1>20, NothingSent DEF vars, server, net, sync
<1> QED
  BY <1>2, <1>3, <1>4, <1>5, <1>6, <1>7, <1>8, <1>9, <1>10, <1>11, <1>12, <1>13, <1>14, <1>15,
     <1>16, <1>17, <1>18, <1>19, <1>20 DEF Next, HandleMessage, ReceiveMessage

LEMMA SequenceInit == Init => SequenceInv
<1> SUFFICES ASSUME Init
             PROVE  SequenceInv
  OBVIOUS
<1>1. serverSeq = 0 /\ \A h \in Handler : lastSeenServerSeq[h] = 0
  BY DEF Init
<1>2. \A c \in Client : s2c[c] = <<>>
  BY DEF Init
<1>3. \A r \in Resource : state[r].entries = <<>>
  BY DEF Init, InitialState
<1>4. QueuesIncrease(s2c, serverSeq) /\ SeenIsBehind(s2c, lastSeenServerSeq, serverSeq)
  BY <1>1, <1>2 DEF QueuesIncrease, QueueIncreases, SeenIsBehind
<1>5. EntriesIncrease(state, serverSeq)
  BY <1>3 DEF EntriesIncrease
<1> QED
  BY <1>4, <1>5, LifeInit DEF SequenceInv

\* No handler is handed an envelope it has already seen, by number: neither one
\* that its snapshot contains nor an earlier one again.
THEOREM NothingOldIsReceived == Spec => EnvelopesAreNew
<1> DEFINE New == \A c \in Client : ReceiveEnvelope(c) =>
             LET env == Head(s2c[c]).envelope IN
             \A h \in Handler : ClientOf[h] = c /\ Listens(h, env) =>
               env.serverSeq > lastSeenServerSeq[h]
<1>1. SequenceInv /\ [Next]_vars => [New]_vars
  <2> SUFFICES ASSUME SequenceInv, NEW c \in Client, ReceiveEnvelope(c),
                      NEW h \in Handler, ClientOf[h] = c
               PROVE  Head(s2c[c]).envelope.serverSeq > lastSeenServerSeq[h]
    OBVIOUS
  <2>1. s2c[c] \in Seq(ToClient) /\ s2c[c] # <<>> /\ Head(s2c[c]).kind = "action"
    BY Queues DEF SequenceInv, ReceiveEnvelope, Receiving
  <2>2. Head(s2c[c]) = s2c[c][1] /\ 1 \in DOMAIN s2c[c] /\ Head(s2c[c]) \in ToClient
    BY <2>1, TailIs, HeadTail
  <2>3. lastSeenServerSeq[h] < Mark(Head(s2c[c]))
    BY <2>1, <2>2 DEF SequenceInv, SeenIsBehind
  <2>4. /\ Mark(Head(s2c[c])) \in Nat /\ lastSeenServerSeq[h] \in Nat
        /\ Mark(Head(s2c[c])) = Head(s2c[c]).envelope.serverSeq
    <3>1. Mark(Head(s2c[c])) \in Nat /\ lastSeenServerSeq[h] \in Nat
      BY <2>2, MarkType DEF SequenceInv, LifeInv, TypeOK
    <3> QED
      BY <2>1, <3>1 DEF Mark
  <2> QED
    BY <2>3, <2>4
<1>2. Spec => []SequenceInv
  BY SequenceInit, SequenceStep, PTL DEF Spec
<1> QED
  BY <1>1, <1>2, PTL DEF Spec, EnvelopesAreNew


----------------------------------------------------------------------------
(* What a copy of r lacks of the server's entries is exactly what the      *)
(* queue carries of r beyond position k.                                   *)
Follows(k, q, r, have, all) ==
  /\ Prefix(have, all)
  /\ \A i \in Len(have) + 1 .. Len(all) :
       \E j \in DOMAIN q : k < j /\ Carries(q[j], r) /\ EntryOf(q[j]) = all[i]
  /\ \A j \in DOMAIN q : k < j /\ Carries(q[j], r) =>
       \E i \in Len(have) + 1 .. Len(all) : EntryOf(q[j]) = all[i]

Increasing(all) == \A i, j \in DOMAIN all : i < j => all[i].serverSeq < all[j].serverSeq

\* Where an element of a queue is after the head is taken.
LEMMA TailHas ==
  ASSUME NEW S, NEW q \in Seq(S), q # <<>>, NEW j \in DOMAIN q, j # 1
  PROVE  \E p \in DOMAIN Tail(q) : p \in Nat \ {0} /\ p + 1 = j /\ Tail(q)[p] = q[j]
<1>1. j \in Nat /\ j - 1 \in DOMAIN Tail(q) /\ Tail(q)[j - 1] = q[j]
  BY TailIs
<1>2. j - 1 \in Nat \ {0}
  BY <1>1, TailIs
<1>3. j - 1 + 1 = j
  BY <1>1
<1> QED
  BY <1>1, <1>2, <1>3

LEMMA FollowsPops ==
  ASSUME NEW q \in Seq(ToClient), q # <<>>, NEW r, NEW have \in Seq(Entry), NEW all \in Seq(Entry),
         NEW k \in Nat, Follows(k + 1, q, r, have, all)
  PROVE  Follows(k, Tail(q), r, have, all)
<1> DEFINE t == Tail(q)
<1>1. /\ \A i \in DOMAIN t : i \in Nat \ {0} /\ i + 1 \in DOMAIN q /\ t[i] = q[i + 1]
      /\ \A i \in DOMAIN q : i \in Nat
  BY TailIs
<1> HIDE DEF t
<1>2. ASSUME NEW i \in Len(have) + 1 .. Len(all)
      PROVE  \E j \in DOMAIN t : k < j /\ Carries(t[j], r) /\ EntryOf(t[j]) = all[i]
  <2>1. PICK j \in DOMAIN q : k + 1 < j /\ Carries(q[j], r) /\ EntryOf(q[j]) = all[i]
    BY DEF Follows
  <2>2. j # 1
    BY <2>1
  <2>3. PICK p \in DOMAIN t : p \in Nat /\ p + 1 = j /\ t[p] = q[j]
    BY <2>2, TailHas DEF t
  <2>4. k < p
    BY <2>1, <2>3
  <2> QED
    BY <2>1, <2>3, <2>4
<1>3. ASSUME NEW j \in DOMAIN t, k < j, Carries(t[j], r)
      PROVE  \E i \in Len(have) + 1 .. Len(all) : EntryOf(t[j]) = all[i]
  <2>1. j \in Nat /\ j + 1 \in DOMAIN q /\ t[j] = q[j + 1]
    BY <1>1
  <2>2. PICK p \in DOMAIN q : p = j + 1 /\ k + 1 < p /\ t[j] = q[p]
    BY <1>3, <2>1
  <2> QED
    BY <1>3, <2>2 DEF Follows
<1> QED
  BY <1>2, <1>3 DEF Follows, t

LEMMA FollowsIgnores ==
  ASSUME NEW q \in Seq(ToClient), q # <<>>, NEW r, NEW have \in Seq(Entry), NEW all \in Seq(Entry),
         Follows(0, q, r, have, all), ~Carries(Head(q), r)
  PROVE  Follows(0, Tail(q), r, have, all)
<1>1. Head(q) = q[1] /\ \A j \in DOMAIN q : j \in Nat
  BY TailIs
<1>2. ASSUME NEW j \in DOMAIN q, 0 < j, Carries(q[j], r)
      PROVE  0 + 1 < j
  BY <1>1, <1>2
<1>3. \A j \in DOMAIN q : 0 + 1 < j => 0 < j
  BY <1>1
<1>4. Follows(0 + 1, q, r, have, all)
  BY <1>2, <1>3 DEF Follows
<1> QED
  BY <1>4, FollowsPops

\* The next envelope of r brings the next entry: it is the oldest on its way.
LEMMA FollowsReceives ==
  ASSUME NEW q \in Seq(ToClient), q # <<>>, NEW r, NEW have \in Seq(Entry), NEW all \in Seq(Entry),
         NEW n, QueueIncreases(q, n), Increasing(all),
         Follows(0, q, r, have, all), Carries(Head(q), r)
  PROVE  Follows(0, Tail(q), r, Append(have, EntryOf(Head(q))), all)
<1> DEFINE t == Tail(q)
           e == EntryOf(Head(q))
           now == Append(have, e)
<1>1. /\ \A i \in DOMAIN t : i \in Nat \ {0} /\ i + 1 \in DOMAIN q /\ t[i] = q[i + 1]
      /\ \A i \in DOMAIN q : i \in Nat
      /\ Head(q) = q[1] /\ 1 \in DOMAIN q
      /\ Len(have) \in Nat /\ Len(all) \in Nat /\ DOMAIN all = 1 .. Len(all)
  BY TailIs
<1>2. \A j \in DOMAIN q : Carries(q[j], r) =>
        q[j].kind = "action" /\ Mark(q[j]) = EntryOf(q[j]).serverSeq
  BY DEF Carries, Mark, EntryOf
<1>3. ASSUME NEW j \in DOMAIN q, j # 1, Carries(q[j], r)
      PROVE  EntryOf(q[1]).serverSeq < EntryOf(q[j]).serverSeq
  <2>1. 1 < j
    BY <1>1, <1>3
  <2>2. Mark(q[1]) < Mark(q[j])
    BY <1>1, <1>2, <1>3, <2>1 DEF QueueIncreases
  <2> QED
    BY <1>1, <1>2, <1>3, <2>2
<1>4. \A i \in DOMAIN all : all[i].serverSeq \in Nat
  <2>1. \A i \in DOMAIN all : all[i] \in Entry
    OBVIOUS
  <2> QED
    BY <2>1 DEF Entry
<1>5. Len(have) + 1 <= Len(all) /\ e = all[Len(have) + 1]
  <2>1. PICK i \in Len(have) + 1 .. Len(all) : EntryOf(q[1]) = all[i]
    BY <1>1 DEF Follows
  <2>2. Len(have) + 1 \in Len(have) + 1 .. Len(all) /\ Len(have) + 1 <= Len(all)
    BY <1>1, <2>1
  <2>3. PICK j \in DOMAIN q : Carries(q[j], r) /\ EntryOf(q[j]) = all[Len(have) + 1]
    BY <2>2 DEF Follows
  <2>4. CASE j = 1
    BY <1>1, <2>2, <2>3, <2>4
  <2>5. CASE j # 1
    <3>1. all[i].serverSeq < all[Len(have) + 1].serverSeq
      BY <1>3, <2>1, <2>3, <2>5
    <3>2. i = Len(have) + 1 \/ Len(have) + 1 < i
      BY <1>1, <2>1
    <3>3. i \in DOMAIN all /\ Len(have) + 1 \in DOMAIN all
      BY <1>1, <2>1, <2>2
    <3>4. all[i].serverSeq \in Nat /\ all[Len(have) + 1].serverSeq \in Nat
      BY <1>4, <3>3
    <3>5. Len(have) + 1 < i => all[Len(have) + 1].serverSeq < all[i].serverSeq
      BY <3>3 DEF Increasing
    <3>6. FALSE
      BY <3>1, <3>2, <3>4, <3>5
    <3> QED
      BY <3>6
  <2> QED
    BY <2>4, <2>5
<1>6. /\ Len(now) = Len(have) + 1
      /\ \A i \in 1 .. Len(have) : now[i] = have[i]
      /\ now[Len(have) + 1] = e
  <2>1. e \in Entry
    <3>1. Len(have) + 1 \in DOMAIN all
      BY <1>1, <1>5
    <3> QED
      BY <1>5, <3>1
  <2> QED
    BY <2>1, AppendIs
<1> HIDE DEF t, now
<1>7. Prefix(now, all)
  <2>1. \A i \in 1 .. Len(have) : have[i] = all[i]
    BY DEF Follows, Prefix
  <2>2. \A i \in 1 .. Len(have) + 1 : i \in 1 .. Len(have) \/ i = Len(have) + 1
    BY <1>1
  <2> QED
    BY <1>5, <1>6, <2>1, <2>2 DEF Prefix
<1>8. ASSUME NEW i \in Len(now) + 1 .. Len(all)
      PROVE  \E j \in DOMAIN t : 0 < j /\ Carries(t[j], r) /\ EntryOf(t[j]) = all[i]
  <2>1. i \in Len(have) + 1 .. Len(all) /\ Len(have) + 1 < i
    BY <1>1, <1>6
  <2>2. PICK j \in DOMAIN q : Carries(q[j], r) /\ EntryOf(q[j]) = all[i]
    BY <2>1 DEF Follows
  <2>3. j # 1
    <3>1. i \in DOMAIN all /\ Len(have) + 1 \in DOMAIN all
      BY <1>1, <1>5, <2>1
    <3>2. all[Len(have) + 1].serverSeq < all[i].serverSeq
      BY <2>1, <3>1 DEF Increasing
    <3>3. all[i].serverSeq \in Nat
      BY <1>4, <3>1
    <3>4. all[Len(have) + 1] # all[i]
      BY <3>2, <3>3
    <3> QED
      BY <1>1, <1>5, <2>2, <3>4
  <2>4. PICK p \in DOMAIN t : p \in Nat \ {0} /\ t[p] = q[j]
    BY <2>3, TailHas DEF t
  <2> QED
    BY <2>2, <2>4
<1>9. ASSUME NEW j \in DOMAIN t, Carries(t[j], r)
      PROVE  \E i \in Len(now) + 1 .. Len(all) : EntryOf(t[j]) = all[i]
  <2>0. j \in Nat \ {0} /\ j + 1 \in DOMAIN q /\ t[j] = q[j + 1]
    BY <1>1
  <2>1. j \in Nat \ {0} /\ j + 1 \in DOMAIN q /\ t[j] = q[j + 1] /\ 0 < j + 1 /\ j + 1 # 1
    BY <2>0
  <2>2. PICK i \in Len(have) + 1 .. Len(all) : EntryOf(t[j]) = all[i]
    BY <1>9, <2>1 DEF Follows
  <2>3. i # Len(have) + 1
    <3>1. Len(have) + 1 \in DOMAIN all
      BY <1>1, <1>5
    <3>2. all[Len(have) + 1].serverSeq < all[i].serverSeq
      BY <1>1, <1>3, <1>5, <1>9, <2>1, <2>2
    <3>3. all[Len(have) + 1].serverSeq \in Nat
      BY <1>4, <3>1
    <3> QED
      BY <3>2, <3>3
  <2>4. i \in Len(now) + 1 .. Len(all)
    BY <1>1, <1>6, <2>2, <2>3
  <2> QED
    BY <2>2, <2>4
<1> QED
  BY <1>7, <1>8, <1>9 DEF Follows, t, now

LEMMA FollowsQueued ==
  ASSUME NEW q \in Seq(ToClient), NEW m \in ToClient, NEW r,
         NEW have \in Seq(Entry), NEW all \in Seq(Entry), NEW k \in Nat,
         Follows(k, q, r, have, all), ~Carries(m, r)
  PROVE  Follows(k, Append(q, m), r, have, all)
<1> DEFINE a == Append(q, m)
<1>1. /\ Len(q) \in Nat /\ DOMAIN q = 1 .. Len(q) /\ DOMAIN a = 1 .. Len(q) + 1
      /\ \A i \in DOMAIN q : a[i] = q[i]
      /\ a[Len(q) + 1] = m
  BY AppendIs
<1> HIDE DEF a
<1>2. ASSUME NEW i \in Len(have) + 1 .. Len(all)
      PROVE  \E j \in DOMAIN a : k < j /\ Carries(a[j], r) /\ EntryOf(a[j]) = all[i]
  <2>1. PICK j \in DOMAIN q : k < j /\ Carries(q[j], r) /\ EntryOf(q[j]) = all[i]
    BY DEF Follows
  <2>2. j \in DOMAIN a /\ a[j] = q[j]
    BY <1>1
  <2> QED
    BY <2>1, <2>2
<1>3. ASSUME NEW j \in DOMAIN a, k < j, Carries(a[j], r)
      PROVE  \E i \in Len(have) + 1 .. Len(all) : EntryOf(a[j]) = all[i]
  <2>1. j \in DOMAIN q /\ a[j] = q[j]
    BY <1>1, <1>3
  <2> QED
    BY <1>3, <2>1 DEF Follows
<1> QED
  BY <1>2, <1>3 DEF Follows, a

LEMMA FollowsEmitted ==
  ASSUME NEW q \in Seq(ToClient), NEW m \in ToClient, NEW r,
         NEW have \in Seq(Entry), NEW all \in Seq(Entry), NEW k \in Nat, k <= Len(q),
         Follows(k, q, r, have, all), Carries(m, r), EntryOf(m) \in Entry
  PROVE  Follows(k, Append(q, m), r, have, Append(all, EntryOf(m)))
<1> DEFINE a == Append(q, m)
           x == EntryOf(m)
           more == Append(all, x)
<1>1. /\ Len(q) \in Nat /\ DOMAIN q = 1 .. Len(q) /\ DOMAIN a = 1 .. Len(q) + 1
      /\ \A i \in DOMAIN q : a[i] = q[i]
      /\ a[Len(q) + 1] = m
  BY AppendIs
<1>2. /\ Len(all) \in Nat /\ Len(have) \in Nat /\ Len(more) = Len(all) + 1
      /\ \A i \in 1 .. Len(all) : more[i] = all[i]
      /\ more[Len(all) + 1] = x
  BY AppendIs
<1> HIDE DEF a, more, x
<1>3. Len(have) <= Len(all) /\ \A i \in 1 .. Len(have) : have[i] = all[i]
  BY DEF Follows, Prefix
<1>4. Prefix(have, more)
  <2>1. \A i \in 1 .. Len(have) : i \in 1 .. Len(all)
    BY <1>2, <1>3
  <2>2. Len(have) <= Len(more)
    BY <1>2, <1>3
  <2> QED
    BY <1>2, <1>3, <2>1, <2>2 DEF Prefix
<1>5. ASSUME NEW i \in Len(have) + 1 .. Len(more)
      PROVE  \E j \in DOMAIN a : k < j /\ Carries(a[j], r) /\ EntryOf(a[j]) = more[i]
  <2>1. CASE i = Len(all) + 1
    <3>1. Len(q) + 1 \in DOMAIN a /\ k < Len(q) + 1
      BY <1>1
    <3> QED
      BY <1>1, <1>2, <2>1, <3>1 DEF x
  <2>2. CASE i # Len(all) + 1
    <3>1. i \in Len(have) + 1 .. Len(all) /\ i \in 1 .. Len(all)
      BY <1>2, <2>2
    <3>2. PICK j \in DOMAIN q : k < j /\ Carries(q[j], r) /\ EntryOf(q[j]) = all[i]
      BY <3>1 DEF Follows
    <3>3. j \in DOMAIN a /\ a[j] = q[j]
      BY <1>1
    <3> QED
      BY <1>2, <3>1, <3>2, <3>3
  <2> QED
    BY <2>1, <2>2
<1>6. ASSUME NEW j \in DOMAIN a, k < j, Carries(a[j], r)
      PROVE  \E i \in Len(have) + 1 .. Len(more) : EntryOf(a[j]) = more[i]
  <2>1. CASE j = Len(q) + 1
    <3>1. Len(all) + 1 \in Len(have) + 1 .. Len(more)
      BY <1>2, <1>3
    <3> QED
      BY <1>1, <1>2, <2>1, <3>1 DEF x
  <2>2. CASE j \in DOMAIN q
    <3>1. a[j] = q[j]
      BY <1>1, <2>2
    <3>2. PICK i \in Len(have) + 1 .. Len(all) : EntryOf(q[j]) = all[i]
      BY <1>6, <2>2, <3>1 DEF Follows
    <3>3. i \in Len(have) + 1 .. Len(more) /\ i \in 1 .. Len(all)
      BY <1>2, <3>2
    <3> QED
      BY <1>2, <3>1, <3>2, <3>3
  <2> QED
    BY <1>1, <2>1, <2>2
<1> QED
  BY <1>4, <1>5, <1>6 DEF Follows, a, more, x

\* A snapshot has everything the server has when it is sent.
LEMMA FollowsFromHere ==
  ASSUME NEW q \in Seq(ToClient), NEW m \in ToClient, NEW r, NEW all \in Seq(Entry)
  PROVE  Follows(Len(q) + 1, Append(q, m), r, all, all)
<1>1. /\ Len(q) \in Nat /\ DOMAIN Append(q, m) = 1 .. Len(q) + 1 /\ Len(all) \in Nat
  BY AppendIs
<1>2. Prefix(all, all)
  BY <1>1 DEF Prefix
<1>3. Len(all) + 1 .. Len(all) = {}
  BY <1>1
<1>4. \A j \in DOMAIN Append(q, m) : ~(Len(q) + 1 < j)
  BY <1>1
<1> QED
  BY <1>2, <1>3, <1>4 DEF Follows

LEMMA SnapshotType == \A m \in ToClient : m.kind = "snapshot" => m.state.entries \in Seq(Entry)
<1>1. \A m \in ToClient : m.kind = "snapshot" => m.state \in State
  BY DEF ToClient
<1> QED
  BY <1>1 DEF State

----------------------------------------------------------------------------
(* All copies of r on one connection: those of its handlers, F, and those  *)
(* of the snapshots in its queue.                                          *)
IsSnapshotOf(m, r) == m.kind = "snapshot" /\ m.resource = r

Copied(F, q, r, all) ==
  /\ \A have \in F : Follows(0, q, r, have, all)
  /\ \A k \in DOMAIN q : IsSnapshotOf(q[k], r) => Follows(k, q, r, q[k].state.entries, all)

LEMMA CopiedQueued ==
  ASSUME NEW F \in SUBSET Seq(Entry), NEW q \in Seq(ToClient), NEW m \in ToClient, NEW r,
         NEW all \in Seq(Entry), Copied(F, q, r, all), ~Carries(m, r),
         IsSnapshotOf(m, r) => m.state.entries = all
  PROVE  Copied(F, Append(q, m), r, all)
<1> DEFINE a == Append(q, m)
<1>1. /\ Len(q) \in Nat /\ DOMAIN q = 1 .. Len(q) /\ DOMAIN a = 1 .. Len(q) + 1
      /\ a[Len(q) + 1] = m /\ \A i \in DOMAIN q : a[i] = q[i]
  BY AppendIs
<1>2. \A k \in Nat, have \in Seq(Entry) : Follows(k, q, r, have, all) => Follows(k, a, r, have, all)
  BY FollowsQueued
<1>3. Follows(Len(q) + 1, a, r, all, all)
  BY FollowsFromHere
<1> HIDE DEF a
<1>4. \A have \in F : Follows(0, a, r, have, all)
  BY <1>2 DEF Copied
<1>5. ASSUME NEW k \in DOMAIN a, IsSnapshotOf(a[k], r)
      PROVE  Follows(k, a, r, a[k].state.entries, all)
  <2>1. CASE k = Len(q) + 1
    BY <1>1, <1>3, <1>5, <2>1
  <2>2. CASE k \in DOMAIN q
    <3>1. a[k] = q[k] /\ k \in Nat /\ q[k] \in ToClient
      BY <1>1, <2>2
    <3>2. q[k].state.entries \in Seq(Entry)
      BY <1>5, <3>1, SnapshotType DEF IsSnapshotOf
    <3> QED
      BY <1>2, <1>5, <2>2, <3>1, <3>2 DEF Copied
  <2> QED
    BY <1>1, <2>1, <2>2
<1> QED
  BY <1>4, <1>5 DEF Copied, a

LEMMA CopiedEmitted ==
  ASSUME NEW F \in SUBSET Seq(Entry), NEW q \in Seq(ToClient), NEW m \in ToClient, NEW r,
         NEW all \in Seq(Entry), Copied(F, q, r, all), Carries(m, r), EntryOf(m) \in Entry
  PROVE  Copied(F, Append(q, m), r, Append(all, EntryOf(m)))
<1> DEFINE a == Append(q, m)
           more == Append(all, EntryOf(m))
<1>1. /\ Len(q) \in Nat /\ DOMAIN q = 1 .. Len(q) /\ DOMAIN a = 1 .. Len(q) + 1
      /\ a[Len(q) + 1] = m /\ \A i \in DOMAIN q : a[i] = q[i]
  BY AppendIs
<1>2. \A k \in Nat, have \in Seq(Entry) :
        k <= Len(q) /\ Follows(k, q, r, have, all) => Follows(k, a, r, have, more)
  BY FollowsEmitted
<1> HIDE DEF a, more
<1>3. \A have \in F : Follows(0, a, r, have, more)
  BY <1>1, <1>2 DEF Copied
<1>4. ASSUME NEW k \in DOMAIN a, IsSnapshotOf(a[k], r)
      PROVE  Follows(k, a, r, a[k].state.entries, more)
  <2>1. k # Len(q) + 1
    BY <1>1, <1>4 DEF IsSnapshotOf, Carries
  <2>2. k \in DOMAIN q /\ a[k] = q[k] /\ k \in Nat /\ k <= Len(q) /\ q[k] \in ToClient
    BY <1>1, <2>1
  <2>3. q[k].state.entries \in Seq(Entry)
    BY <1>4, <2>2, SnapshotType DEF IsSnapshotOf
  <2> QED
    BY <1>2, <1>4, <2>2, <2>3 DEF Copied
<1> QED
  BY <1>3, <1>4 DEF Copied, a, more

\* The snapshots that stay in the queue move up by one.
LEMMA SnapshotsPop ==
  ASSUME NEW F, NEW q \in Seq(ToClient), q # <<>>, NEW r, NEW all \in Seq(Entry),
         Copied(F, q, r, all)
  PROVE  \A k \in DOMAIN Tail(q) : IsSnapshotOf(Tail(q)[k], r) =>
           Follows(k, Tail(q), r, Tail(q)[k].state.entries, all)
<1> SUFFICES ASSUME NEW k \in DOMAIN Tail(q), IsSnapshotOf(Tail(q)[k], r)
             PROVE  Follows(k, Tail(q), r, Tail(q)[k].state.entries, all)
  OBVIOUS
<1>1. k \in Nat /\ k + 1 \in DOMAIN q /\ Tail(q)[k] = q[k + 1] /\ q[k + 1] \in ToClient
  BY TailIs
<1>2. q[k + 1].state.entries \in Seq(Entry)
  BY <1>1, SnapshotType DEF IsSnapshotOf
<1>3. Follows(k + 1, q, r, q[k + 1].state.entries, all)
  BY <1>1 DEF Copied
<1> QED
  BY <1>1, <1>2, <1>3, FollowsPops

LEMMA CopiedTaken ==
  ASSUME NEW F \in SUBSET Seq(Entry), NEW q \in Seq(ToClient), q # <<>>, NEW r,
         NEW all \in Seq(Entry), Copied(F, q, r, all), ~Carries(Head(q), r)
  PROVE  /\ Copied(F, Tail(q), r, all)
         /\ IsSnapshotOf(Head(q), r) =>
              Copied(F \cup {Head(q).state.entries}, Tail(q), r, all)
<1>1. \A have \in F : Follows(0, Tail(q), r, have, all)
  BY FollowsIgnores DEF Copied
<1>2. ASSUME IsSnapshotOf(Head(q), r)
      PROVE  Follows(0, Tail(q), r, Head(q).state.entries, all)
  <2>1. Head(q) = q[1] /\ 1 \in DOMAIN q /\ Head(q) \in ToClient
    BY TailIs, HeadTail
  <2>2. Head(q).state.entries \in Seq(Entry)
    BY <1>2, <2>1, SnapshotType DEF IsSnapshotOf
  <2>3. Follows(0 + 1, q, r, Head(q).state.entries, all)
    BY <1>2, <2>1 DEF Copied
  <2> QED
    BY <2>2, <2>3, FollowsPops
<1> QED
  BY <1>1, <1>2, SnapshotsPop DEF Copied

LEMMA CopiedReceived ==
  ASSUME NEW F \in SUBSET Seq(Entry), NEW q \in Seq(ToClient), q # <<>>, NEW r,
         NEW all \in Seq(Entry), Copied(F, q, r, all), Carries(Head(q), r),
         NEW n, QueueIncreases(q, n), Increasing(all)
  PROVE  Copied({Append(have, EntryOf(Head(q))) : have \in F}, Tail(q), r, all)
<1>1. \A have \in F : Follows(0, Tail(q), r, Append(have, EntryOf(Head(q))), all)
  BY FollowsReceives DEF Copied
<1> QED
  BY <1>1, SnapshotsPop DEF Copied

\* A connection with no copy of r and no snapshot of it on the way.
LEMMA NothingCopied ==
  ASSUME NEW q, NEW r, NEW all, ~HasSnapshot(q, r)
  PROVE  Copied({}, q, r, all)
BY DEF Copied, HasSnapshot, IsSnapshotOf

----------------------------------------------------------------------------
(* The copies that the handlers of a connection have of r.                 *)
CopiesOf(c, r) ==
  {confirmed[h][r].entries : h \in {g \in Handler : ClientOf[g] = c /\ r \in subscribedSessions[g]}}

(* Every copy over an open connection follows the server.                  *)
InStep(q, st) ==
  \A c \in Client, r \in Resource :
    link[c] = "open" /\ Live(r) => Copied(CopiesOf(c, r), q[c], r, st[r].entries)

SyncInv == SequenceInv /\ HoldersInv /\ InStep(s2c, state)

LEMMA CopiesType ==
  ASSUME TypeOK
  PROVE  \A c \in Client, r \in Resource : CopiesOf(c, r) \in SUBSET Seq(Entry)
<1>1. \A h \in Handler, r \in Resource : confirmed[h][r] \in State
  BY DEF TypeOK
<1>2. \A h \in Handler, r \in Resource : confirmed[h][r].entries \in Seq(Entry)
  BY <1>1 DEF State
<1> QED
  BY <1>2 DEF CopiesOf

LEMMA CopiesKept ==
  ASSUME UNCHANGED <<subscribedSessions, confirmed>>
  PROVE  \A c, r : CopiesOf(c, r)' = CopiesOf(c, r)
BY DEF CopiesOf

LEMMA NothingHeld ==
  ASSUME NEW c \in Client, NEW r \in Resource, ~Holds(c, r)
  PROVE  CopiesOf(c, r) = {} /\ ~HasSnapshot(s2c[c], r)
BY DEF Holds, CopiesOf

\* Steps that give nobody a copy, a message or an action.
LEMMA InStepKept ==
  ASSUME SyncInv, SequenceInv', HoldersInv',
         \A c \in Client, r \in Resource : link'[c] = "open" /\ Live(r)' =>
           /\ link[c] = "open" /\ Live(r)
           /\ s2c'[c] = s2c[c] /\ state'[r].entries = state[r].entries
           /\ CopiesOf(c, r)' \subseteq CopiesOf(c, r)
  PROVE  SyncInv'
<1>1. ASSUME NEW c \in Client, NEW r \in Resource, link'[c] = "open", Live(r)'
      PROVE  Copied(CopiesOf(c, r)', s2c'[c], r, state'[r].entries)
  <2>1. Copied(CopiesOf(c, r), s2c[c], r, state[r].entries)
    BY <1>1 DEF SyncInv, InStep
  <2> QED
    BY <1>1, <2>1 DEF Copied
<1> QED
  BY <1>1 DEF SyncInv, InStep

----------------------------------------------------------------------------
(* Envelopes reach the connections that have a copy.                       *)

Reached(q) ==
  \A c \in Client, r \in Resource :
    link[c] = "open" /\ Live(r) /\ (CopiesOf(c, r) # {} \/ HasSnapshot(q[c], r)) =>
      c \in clients /\ r \in subscriptions[c]

LEMMA HoldersReached ==
  ASSUME HoldersInv
  PROVE  Reached(s2c)
<1> SUFFICES ASSUME NEW c \in Client, NEW r \in Resource, link[c] = "open", Live(r),
                    CopiesOf(c, r) # {} \/ HasSnapshot(s2c[c], r)
             PROVE  c \in clients /\ r \in subscriptions[c]
  BY DEF Reached
<1>1. Holds(c, r)
  BY NothingHeld
<1> QED
  BY <1>1 DEF HoldersInv, HoldersAreSubscribed, LifeInv, LinkInv

LEMMA EmitsInStep ==
  ASSUME TypeOK, NEW q \in ClientQueues, NEW st \in [Resource -> State], NEW n, NEW env,
         NEW q2, NEW st2, Emits(q, st, n, env, q2, st2), InStep(q, st), Reached(q)
  PROVE  InStep(q2, st2) /\ Reached(q2)
<1> DEFINE m == [kind |-> "action", envelope |-> env]
<1>1. /\ env \in Envelope /\ env.action \in Action /\ env.serverSeq \in Nat
      /\ q2 = Deliver(q, env) /\ m \in ToClient
  <2>1. env \in Envelope /\ q2 = Deliver(q, env)
    BY DEF Emits
  <2> QED
    BY <2>1 DEF Envelope, ToClient
<1>2. /\ EntryOf(m) = EnvelopeEntry(env) /\ EntryOf(m) \in Entry
      /\ \A r : ~IsSnapshotOf(m, r) /\ (Carries(m, r) <=> r = env.action.resource)
  BY <1>1 DEF EntryOf, EnvelopeEntry, Entry, Carries, IsSnapshotOf
<1>3. \A c \in Client : /\ q[c] \in Seq(ToClient)
                        /\ q2[c] = IF c \in clients /\ link[c] # "closed"
                                      /\ env.action.resource \in subscriptions[c]
                                   THEN Append(q[c], m) ELSE q[c]
  BY <1>1, DeliverIs DEF ClientQueues
<1> HIDE DEF m
<1>4. \A c \in Client, r \in Resource : HasSnapshot(q2[c], r) => HasSnapshot(q[c], r)
  BY EmitsNoSnapshot
<1>5. Reached(q2)
  BY <1>4 DEF Reached
<1>6. ASSUME NEW c \in Client, NEW r \in Resource, link[c] = "open", Live(r)
      PROVE  Copied(CopiesOf(c, r), q2[c], r, st2[r].entries)
  <2>1. /\ Copied(CopiesOf(c, r), q[c], r, st[r].entries)
        /\ CopiesOf(c, r) \in SUBSET Seq(Entry) /\ q[c] \in Seq(ToClient)
    BY <1>3, <1>6, CopiesType DEF InStep
  <2>2. st[r].entries \in Seq(Entry)
    <3>1. st[r] \in State
      OBVIOUS
    <3> QED
      BY <3>1 DEF State
  <2>3. CASE r # env.action.resource
    <3>1. st2[r].entries = st[r].entries
      BY <2>3 DEF Emits
    <3>2. Copied(CopiesOf(c, r), Append(q[c], m), r, st[r].entries)
      BY <1>1, <1>2, <2>1, <2>2, <2>3, CopiedQueued
    <3> QED
      BY <1>3, <2>1, <3>1, <3>2
  <2>4. CASE r = env.action.resource
    <3>1. st2[r].entries = Append(st[r].entries, EntryOf(m))
      BY <1>2, <1>6, <2>4 DEF Emits
    <3>2. CASE c \in clients /\ r \in subscriptions[c]
      <4>1. q2[c] = Append(q[c], m)
        BY <1>3, <1>6, <2>4, <3>2
      <4>2. Copied(CopiesOf(c, r), Append(q[c], m), r, Append(st[r].entries, EntryOf(m)))
        BY <1>1, <1>2, <2>1, <2>2, <2>4, CopiedEmitted
      <4> QED
        BY <3>1, <4>1, <4>2
    <3>3. CASE ~(c \in clients /\ r \in subscriptions[c])
      <4>1. CopiesOf(c, r) = {} /\ ~HasSnapshot(q2[c], r)
        BY <1>4, <1>6, <3>3 DEF Reached
      <4> QED
        BY <4>1, NothingCopied
    <3> QED
      BY <3>2, <3>3
  <2> QED
    BY <2>3, <2>4
<1> QED
  BY <1>5, <1>6 DEF InStep

LEMMA EmitInStep ==
  ASSUME SyncInv, NEW a \in SessionAction, NEW origin \in Origin, Emit(s2c, a, origin)
  PROVE  InStep(s2c', state')
<1>1. /\ TypeOK /\ s2c \in ClientQueues /\ state \in [Resource -> State]
      /\ InStep(s2c, state) /\ Reached(s2c)
  BY HoldersReached, Queues DEF SyncInv, SequenceInv, LifeInv, TypeOK
<1>2. CASE \E env \in Envelope : Emits(s2c, state, serverSeq, env, s2c', state')
  BY <1>1, <1>2, EmitsInStep
<1>3. CASE \E rootEnv, env \in Envelope : \E q \in ClientQueues, st \in [Resource -> State] :
             /\ Emits(s2c, state, serverSeq, rootEnv, q, st)
             /\ Emits(q, st, serverSeq + 1, env, s2c', state')
  <2>1. PICK rootEnv \in Envelope, env \in Envelope, q \in ClientQueues, st \in [Resource -> State] :
               /\ Emits(s2c, state, serverSeq, rootEnv, q, st)
               /\ Emits(q, st, serverSeq + 1, env, s2c', state')
    BY <1>3
  <2>2. InStep(q, st) /\ Reached(q)
    BY <1>1, <2>1, EmitsInStep
  <2> QED
    BY <1>1, <2>1, <2>2, EmitsInStep
<1> QED
  BY <1>1, <1>2, <1>3, EmitIs

\* What is sent is in step: an action, or an answer.
LEMMA InStepSent ==
  ASSUME SyncInv, SequenceInv', HoldersInv', InStep(s2c', state'),
         UNCHANGED <<link, phase, subscribedSessions, confirmed>>
  PROVE  SyncInv'
<1>1. \A c, r : Live(r)' = Live(r) /\ CopiesOf(c, r)' = CopiesOf(c, r)
  BY CopiesKept DEF Live
<1> QED
  BY <1>1 DEF SyncInv, InStep

LEMMA AnswerInStep ==
  ASSUME TypeOK, NEW q \in ClientQueues, NEW st \in [Resource -> State], InStep(q, st),
         NEW c \in Client, NEW m \in ToClient, m.kind # "action",
         \A r \in Resource : Live(r) /\ IsSnapshotOf(m, r) => m.state.entries = st[r].entries,
         NEW q2, q2 = q \/ q2 = [q EXCEPT ![c] = Append(@, m)]
  PROVE  InStep(q2, st)
<1> SUFFICES ASSUME NEW d \in Client, NEW r \in Resource, link[d] = "open", Live(r)
             PROVE  Copied(CopiesOf(d, r), q2[d], r, st[r].entries)
  BY DEF InStep
<1>1. /\ Copied(CopiesOf(d, r), q[d], r, st[r].entries)
      /\ CopiesOf(d, r) \in SUBSET Seq(Entry) /\ q[d] \in Seq(ToClient)
      /\ q2[d] = q[d] \/ q2[d] = Append(q[d], m)
  BY CopiesType DEF InStep, ClientQueues
<1>2. st[r].entries \in Seq(Entry)
  <2>1. st[r] \in State
    OBVIOUS
  <2> QED
    BY <2>1 DEF State
<1>3. ~Carries(m, r)
  BY DEF Carries
<1>4. Copied(CopiesOf(d, r), Append(q[d], m), r, st[r].entries)
  BY <1>1, <1>2, <1>3, CopiedQueued
<1>5. CASE q2[d] = q[d]
  BY <1>1, <1>5
<1>6. CASE q2[d] = Append(q[d], m)
  BY <1>4, <1>6
<1> QED
  BY <1>1, <1>5, <1>6

----------------------------------------------------------------------------
(* Messages taken from the queues.                                         *)

LEMMA Popped ==
  ASSUME LifeInv, NEW c \in Client, NEW kind, Receiving(c, kind)
  PROVE  /\ s2c[c] \in Seq(ToClient) /\ s2c[c] # <<>>
         /\ Head(s2c[c]) \in ToClient /\ Head(s2c[c]).kind = kind
         /\ \A d \in Client : s2c'[d] = IF d = c THEN Tail(s2c[c]) ELSE s2c[d]
<1>1. s2c[c] # <<>> /\ s2c' = [s2c EXCEPT ![c] = Tail(@)]
  BY Received
<1> QED
  BY <1>1, Received, Queues DEF ClientQueues

LEMMA TakenInStep ==
  ASSUME SyncInv, NEW c \in Client, NEW kind, Receiving(c, kind), kind # "action"
  PROVE  /\ InStep(s2c', state)
         /\ \A r \in Resource : link[c] = "open" /\ Live(r) /\ IsSnapshotOf(Head(s2c[c]), r) =>
              Copied(CopiesOf(c, r) \cup {Head(s2c[c]).state.entries}, s2c'[c], r, state[r].entries)
<1>1. LifeInv /\ TypeOK /\ InStep(s2c, state)
  BY DEF SyncInv, SequenceInv, LifeInv
<1>2. /\ s2c[c] \in Seq(ToClient) /\ s2c[c] # <<>> /\ Head(s2c[c]).kind = kind
      /\ \A d \in Client : s2c'[d] = IF d = c THEN Tail(s2c[c]) ELSE s2c[d]
  BY <1>1, Popped
<1>3. ASSUME NEW r \in Resource, link[c] = "open", Live(r)
      PROVE  /\ Copied(CopiesOf(c, r), Tail(s2c[c]), r, state[r].entries)
             /\ IsSnapshotOf(Head(s2c[c]), r) =>
                  Copied(CopiesOf(c, r) \cup {Head(s2c[c]).state.entries}, Tail(s2c[c]), r,
                         state[r].entries)
  <2>1. Copied(CopiesOf(c, r), s2c[c], r, state[r].entries)
    BY <1>1, <1>3 DEF InStep
  <2>2. CopiesOf(c, r) \in SUBSET Seq(Entry)
    BY <1>1, CopiesType
  <2>3. state[r].entries \in Seq(Entry)
    <3>1. state[r] \in State
      BY <1>1 DEF TypeOK
    <3> QED
      BY <3>1 DEF State
  <2>4. ~Carries(Head(s2c[c]), r)
    BY <1>2 DEF Carries
  <2> QED
    BY <1>2, <2>1, <2>2, <2>3, <2>4, CopiedTaken
<1> QED
  BY <1>1, <1>2, <1>3 DEF InStep

\* A handler that has a copy of the resource of an envelope reduces it.
LEMMA HolderListens ==
  ASSUME LifeInv, NEW h \in Handler, NEW env \in Envelope,
         env.action.resource \in subscribedSessions[h]
  PROVE  /\ Listens(h, env)
         /\ ConfirmedAfter(h, env)[env.action.resource].entries
              = Append(confirmed[h][env.action.resource].entries, EnvelopeEntry(env))
<1>1. PICK r \in Resource : r = env.action.resource
  BY DEF LifeInv, TypeOK
<1>2. r \in Serves[h]
  BY <1>1 DEF LifeInv, ViewInv
<1>3. Listens(h, env)
  <2>1. CASE Root \in Serves[h]
    BY <1>1, <1>2, <2>1 DEF Listens
  <2>2. CASE Root \notin Serves[h]
    BY <1>1, <1>2, <2>2 DEF Listens
  <2> QED
    BY <2>1, <2>2
<1>4. confirmed[h] \in [Resource -> State]
  BY DEF LifeInv, TypeOK
<1>5. ConfirmedAfter(h, env)[r] = Reduce(confirmed[h][r], env.action, env.serverSeq)
  BY <1>1, <1>3, <1>4 DEF ConfirmedAfter
<1> QED
  BY <1>1, <1>3, <1>4, <1>5, ReduceIs

LEMMA EnvelopeInStep ==
  ASSUME SyncInv, NEW c \in Client, ReceiveEnvelope(c), SequenceInv', HoldersInv'
  PROVE  SyncInv'
<1> DEFINE M == Head(s2c[c])
<1>1. LifeInv /\ TypeOK /\ InStep(s2c, state)
  BY DEF SyncInv, SequenceInv, LifeInv
<1>2. /\ s2c[c] \in Seq(ToClient) /\ s2c[c] # <<>> /\ M \in ToClient /\ M.kind = "action"
      /\ \A d \in Client : s2c'[d] = IF d = c THEN Tail(s2c[c]) ELSE s2c[d]
  BY <1>1, Popped DEF ReceiveEnvelope
<1>3. /\ UNCHANGED <<link, phase, state, subscribedSessions>>
      /\ \A h \in Handler : confirmed'[h] = IF ClientOf[h] = c THEN ConfirmedAfter(h, M.envelope)
                                            ELSE confirmed[h]
  BY DEF ReceiveEnvelope, server
<1>4. \A r : Live(r)' = Live(r)
  BY <1>3 DEF Live
<1>5. PICK env \in Envelope : env = M.envelope
  BY <1>2 DEF ToClient
<1>6. EntryOf(M) = EnvelopeEntry(env) /\ \A r : Carries(M, r) <=> r = env.action.resource
  BY <1>2, <1>5 DEF EntryOf, EnvelopeEntry, Carries
<1> HIDE DEF M
<1>7. ASSUME NEW h \in Handler, NEW r \in Resource, r # env.action.resource \/ ClientOf[h] # c
      PROVE  confirmed'[h][r] = confirmed[h][r]
  <2>1. confirmed[h] \in [Resource -> State]
    BY <1>1 DEF TypeOK
  <2> QED
    BY <1>3, <1>5, <1>7, <2>1 DEF ConfirmedAfter
<1>8. ASSUME NEW r \in Resource, NEW d \in Client, r # env.action.resource \/ d # c
      PROVE  CopiesOf(d, r)' = CopiesOf(d, r)
  BY <1>3, <1>7, <1>8 DEF CopiesOf
<1>9. ASSUME NEW r \in Resource, r = env.action.resource
      PROVE  CopiesOf(c, r)' \subseteq {Append(have, EntryOf(M)) : have \in CopiesOf(c, r)}
  <2>1. ASSUME NEW h \in Handler, ClientOf[h] = c, r \in subscribedSessions[h]
        PROVE  confirmed'[h][r].entries = Append(confirmed[h][r].entries, EntryOf(M))
    <3>1. ConfirmedAfter(h, env)[r].entries = Append(confirmed[h][r].entries, EnvelopeEntry(env))
      BY <1>1, <1>9, <2>1, HolderListens
    <3>2. confirmed'[h] = ConfirmedAfter(h, env)
      BY <1>3, <1>5, <2>1 DEF M
    <3> QED
      BY <1>6, <3>1, <3>2
  <2>2. ASSUME NEW e \in CopiesOf(c, r)'
        PROVE  \E have \in CopiesOf(c, r) : e = Append(have, EntryOf(M))
    <3>1. PICK h \in Handler : /\ ClientOf[h] = c /\ r \in subscribedSessions[h]
                               /\ e = confirmed'[h][r].entries
      BY <1>3 DEF CopiesOf
    <3>2. confirmed[h][r].entries \in CopiesOf(c, r)
      BY <3>1 DEF CopiesOf
    <3> QED
      BY <2>1, <3>1, <3>2
  <2> QED
    BY <2>2
<1>10. ASSUME NEW d \in Client, NEW r \in Resource, link[d] = "open", Live(r)
       PROVE  Copied(CopiesOf(d, r)', s2c'[d], r, state[r].entries)
  <2>1. /\ Copied(CopiesOf(d, r), s2c[d], r, state[r].entries)
        /\ CopiesOf(d, r) \in SUBSET Seq(Entry)
    BY <1>1, <1>10, CopiesType DEF InStep
  <2>2. state[r].entries \in Seq(Entry)
    <3>1. state[r] \in State
      BY <1>1 DEF TypeOK
    <3> QED
      BY <3>1 DEF State
  <2>3. CASE d # c
    BY <1>2, <1>8, <2>1, <2>3
  <2>4. CASE d = c /\ r # env.action.resource
    <3>1. Copied(CopiesOf(c, r), Tail(s2c[c]), r, state[r].entries)
      BY <1>2, <1>6, <2>1, <2>2, <2>4, CopiedTaken DEF M
    <3> QED
      BY <1>2, <1>8, <2>4, <3>1
  <2>5. CASE d = c /\ r = env.action.resource
    <3>1. QueueIncreases(s2c[c], serverSeq) /\ Increasing(state[r].entries)
      BY DEF SyncInv, SequenceInv, QueuesIncrease, EntriesIncrease, Increasing
    <3>2. Copied({Append(have, EntryOf(M)) : have \in CopiesOf(c, r)}, Tail(s2c[c]), r,
                 state[r].entries)
      BY <1>2, <1>6, <2>1, <2>2, <2>5, <3>1, CopiedReceived DEF M
    <3> QED
      BY <1>2, <1>9, <2>5, <3>2 DEF Copied
  <2> QED
    BY <2>3, <2>4, <2>5
<1> QED
  BY <1>3, <1>4, <1>10 DEF SyncInv, InStep

LEMMA SnapshotInStep ==
  ASSUME SyncInv, NEW c \in Client, HandleSnapshot(c), SequenceInv', HoldersInv'
  PROVE  SyncInv'
<1>1. LifeInv /\ TypeOK /\ Receiving(c, "snapshot")
  BY DEF SyncInv, SequenceInv, LifeInv, HandleSnapshot
<1>2. PICK h \in Handler, r \in Resource :
        About(Head(s2c[c]), h, r) /\ ClientOf[h] = c /\ Head(s2c[c]).kind = "snapshot"
  BY <1>1, Taken
<1>3. PICK m : m = Head(s2c[c])
  OBVIOUS
<1>4. /\ UNCHANGED <<link, phase, state>>
      /\ subscribedSessions' = [subscribedSessions EXCEPT ![h] = @ \cup {r}]
      /\ confirmed' = [confirmed EXCEPT ![h][r] = m.state]
  BY <1>2, <1>3 DEF HandleSnapshot, About, server
<1>5. \A x : Live(x)' = Live(x)
  BY <1>4 DEF Live
<1>6. /\ InStep(s2c', state)
      /\ link[c] = "open" /\ Live(r) =>
           Copied(CopiesOf(c, r) \cup {m.state.entries}, s2c'[c], r, state[r].entries)
  BY <1>1, <1>2, <1>3, TakenInStep DEF IsSnapshotOf, About
<1>7. \A g \in Handler, x \in Resource :
        /\ x \in subscribedSessions'[g] => x \in subscribedSessions[g] \/ (g = h /\ x = r)
        /\ confirmed'[g][x] = IF g = h /\ x = r THEN m.state ELSE confirmed[g][x]
  BY <1>1, <1>4 DEF TypeOK
<1>8. \A d \in Client, x \in Resource :
        CopiesOf(d, x)' \subseteq CopiesOf(d, x) \cup (IF d = c /\ x = r THEN {m.state.entries} ELSE {})
  BY <1>2, <1>7 DEF CopiesOf
<1>9. ASSUME NEW d \in Client, NEW x \in Resource, link[d] = "open", Live(x)
      PROVE  Copied(CopiesOf(d, x)', s2c'[d], x, state[x].entries)
  <2>1. CASE d = c /\ x = r
    BY <1>6, <1>8, <1>9, <2>1 DEF Copied
  <2>2. CASE ~(d = c /\ x = r)
    <3>1. Copied(CopiesOf(d, x), s2c'[d], x, state[x].entries)
      BY <1>6, <1>9 DEF InStep
    <3>2. CopiesOf(d, x)' \subseteq CopiesOf(d, x)
      BY <1>8, <2>2
    <3> QED
      BY <3>1, <3>2 DEF Copied
  <2> QED
    BY <2>1, <2>2
<1> QED
  BY <1>4, <1>5, <1>9 DEF SyncInv, InStep

----------------------------------------------------------------------------
LEMMA SyncStep == SyncInv /\ [Next]_vars => SyncInv'
<1> SUFFICES ASSUME SyncInv, [Next]_vars
             PROVE  SyncInv'
  OBVIOUS
<1>1. /\ SequenceInv /\ SequenceInv' /\ HoldersInv /\ HoldersInv' /\ InStep(s2c, state)
      /\ LifeInv /\ TypeOK /\ s2c \in ClientQueues /\ state \in [Resource -> State]
  BY SequenceStep, HoldersStep, Queues DEF SyncInv, SequenceInv, LifeInv, TypeOK
<1>2. ASSUME NEW c \in Client, HandleInitialize(c)
      PROVE  SyncInv'
  <2>1. PICK m \in ToClient : m = [kind |-> "initialized"]
    BY DEF ToClient
  <2>2. /\ s2c' = s2c \/ s2c' = [s2c EXCEPT ![c] = Append(@, m)]
        /\ UNCHANGED <<state, link, phase, subscribedSessions, confirmed>>
    BY <1>2, <2>1 DEF HandleInitialize, Reply, server, sync
  <2>3. m.kind # "action" /\ \A r : ~IsSnapshotOf(m, r)
    BY <2>1 DEF IsSnapshotOf
  <2>4. InStep(s2c', state)
    BY <1>1, <2>2, <2>3, AnswerInStep
  <2> QED
    BY <1>1, <2>2, <2>4, InStepSent
<1>3. ASSUME NEW c \in Client, HandleSubscribe(c)
      PROVE  SyncInv'
  <2> DEFINE M == Head(c2s[c])
  <2>1. PICK h \in Handler, r \in Resource : h = M.handler /\ r = M.resource
    <3>1. M \in ToServer /\ M.kind = "subscribe"
      BY <1>1, <1>3, Handled DEF HandleSubscribe
    <3> QED
      BY <3>1 DEF ToServer
  <2>2. /\ UNCHANGED <<state, link, phase, subscribedSessions, confirmed>>
        /\ \/ Reply(c, [kind |-> "snapshot", resource |-> r, handler |-> h,
                        state |-> state[r], fromSeq |-> serverSeq])
           \/ Reply(c, [kind |-> "notFound", resource |-> r, handler |-> h])
    BY <1>3, <2>1 DEF HandleSubscribe, server, sync
  <2>3. PICK m \in ToClient :
          /\ m.kind # "action" /\ \A x : IsSnapshotOf(m, x) => m.state.entries = state[x].entries
          /\ s2c' = s2c \/ s2c' = [s2c EXCEPT ![c] = Append(@, m)]
    <3>1. CASE Reply(c, [kind |-> "snapshot", resource |-> r, handler |-> h,
                         state |-> state[r], fromSeq |-> serverSeq])
      <4>1. PICK m \in ToClient : m = [kind |-> "snapshot", resource |-> r, handler |-> h,
                                       state |-> state[r], fromSeq |-> serverSeq]
        BY <1>1 DEF ToClient, TypeOK
      <4> QED
        BY <3>1, <4>1 DEF Reply, IsSnapshotOf
    <3>2. CASE Reply(c, [kind |-> "notFound", resource |-> r, handler |-> h])
      <4>1. PICK m \in ToClient : m = [kind |-> "notFound", resource |-> r, handler |-> h]
        BY DEF ToClient
      <4> QED
        BY <3>2, <4>1 DEF Reply, IsSnapshotOf
    <3> QED
      BY <2>2, <3>1, <3>2
  <2>4. InStep(s2c', state)
    BY <1>1, <2>3, AnswerInStep
  <2> QED
    BY <1>1, <2>2, <2>4, InStepSent
<1>4. ASSUME NEW c \in Client, HandleDispatchAction(c)
      PROVE  SyncInv'
  <2>1. PICK a \in SessionAction, origin \in Origin : Emit(s2c, a, origin)
    <3>1. Head(c2s[c]) \in ToServer /\ Head(c2s[c]).kind = "dispatchAction"
      BY <1>1, <1>4, Handled DEF HandleDispatchAction
    <3>2. Head(c2s[c]).action \in SessionAction /\ Head(c2s[c]).clientSeq \in Nat
      BY <3>1 DEF ToServer
    <3>3. [client |-> c, clientSeq |-> Head(c2s[c]).clientSeq] \in Origin
      BY <3>2 DEF Origin
    <3> QED
      BY <1>4, <3>2, <3>3 DEF HandleDispatchAction
  <2>2. UNCHANGED <<link, phase, subscribedSessions, confirmed>>
    BY <1>4 DEF HandleDispatchAction, sync
  <2> QED
    BY <1>1, <2>1, <2>2, EmitInStep, InStepSent
<1>5. ASSUME NEW s \in Session, AgentIdle(s)
      PROVE  SyncInv'
  <2>1. PICK a \in SessionAction, origin \in Origin : Emit(s2c, a, origin)
    <3>1. state[s].activeTurn \in Turn
      BY <1>1, <1>5 DEF AgentIdle, State, Resource
    <3>2. ActionOf("turnComplete", s, state[s].activeTurn) \in SessionAction /\ NoOrigin \in Origin
      BY <3>1, ActionTypes DEF TurnEnd, Origin
    <3> QED
      BY <1>5, <3>2 DEF AgentIdle
  <2>2. UNCHANGED <<link, phase, subscribedSessions, confirmed>>
    BY <1>5 DEF AgentIdle, sync
  <2> QED
    BY <1>1, <2>1, <2>2, EmitInStep, InStepSent
<1>6. ASSUME NEW c \in Client, HandleDisposeSession(c)
      PROVE  SyncInv'
  <2>1. PICK s : s = Head(c2s[c]).resource
    OBVIOUS
  <2>2. /\ UNCHANGED <<s2c, link, subscribedSessions, confirmed>>
        /\ \/ UNCHANGED <<phase, state>>
           \/ /\ phase' = [phase EXCEPT ![s] = "removed"]
              /\ state' = [state EXCEPT ![s] = InitialState]
    BY <1>6, <2>1 DEF HandleDisposeSession, sync
  <2>3. ASSUME NEW r \in Resource, Live(r)'
        PROVE  Live(r) /\ (r # s \/ UNCHANGED state)
    <3>1. CASE UNCHANGED <<phase, state>>
      BY <2>3, <3>1 DEF Live
    <3>2. CASE phase' = [phase EXCEPT ![s] = "removed"]
      <4>1. s \in Session
        <5>1. Head(c2s[c]) \in ToServer /\ Head(c2s[c]).kind = "disposeSession"
          BY <1>1, <1>6, Handled DEF HandleDisposeSession
        <5> QED
          BY <2>1, <5>1 DEF ToServer
      <4> QED
        BY <1>1, <2>3, <3>2, <4>1 DEF Live, TypeOK
    <3> QED
      BY <2>2, <3>1, <3>2
  <2>4. \A r \in Resource : Live(r)' => state'[r] = state[r]
    BY <1>1, <2>2, <2>3
  <2> QED
    BY <1>1, <2>2, <2>3, <2>4, CopiesKept, InStepKept
<1>7. ASSUME NEW p \in creating, SessionCreated(p)
      PROVE  SyncInv'
  <2>1. PICK env \in Envelope, q \in ClientQueues, st \in [Resource -> State], m \in ToClient :
          /\ env.action.resource = p.resource /\ st = [state EXCEPT ![p.resource] = InitialState]
          /\ Emits(s2c, st, serverSeq, env, q, state')
          /\ m = [kind |-> "created", resource |-> p.resource, handler |-> p.handler]
          /\ s2c' = IF link[p.client] = "closed" THEN q
                    ELSE [q EXCEPT ![p.client] = Append(@, m)]
    BY <1>1, <1>7, CreationEmits
  <2>2. /\ p.client \in Client /\ p.resource \in Session /\ p.resource \in Resource
        /\ Unborn(p.resource)
    BY <1>1, Pending
  <2>3. /\ UNCHANGED <<link, subscribedSessions, confirmed>>
        /\ phase' = [phase EXCEPT ![p.resource] = "live"]
    BY <1>7 DEF SessionCreated, sync
  <2>4. ~Live(p.resource) /\ \A r \in Resource : r # p.resource /\ Live(r)' => Live(r)
    BY <1>1, <2>2, <2>3 DEF Live, Unborn, TypeOK
  <2>5. InStep(s2c, st)
    <3>1. \A r \in Resource : r # p.resource => st[r] = state[r]
      BY <1>1, <2>1
    <3> QED
      BY <1>1, <2>4, <3>1 DEF InStep
  <2>6. state' \in [Resource -> State]
    BY <2>1 DEF Emits
  <2>7. InStep(q, state')
    BY <1>1, <2>1, <2>5, HoldersReached, EmitsInStep
  <2>8. m.kind # "action" /\ \A r : ~IsSnapshotOf(m, r)
    BY <2>1 DEF IsSnapshotOf
  <2>9. InStep(s2c', state')
    BY <1>1, <2>1, <2>2, <2>6, <2>7, <2>8, AnswerInStep
  <2>10. ASSUME NEW c \in Client
         PROVE  Copied(CopiesOf(c, p.resource)', s2c'[c], p.resource, state'[p.resource].entries)
    <3>1. ~HasSnapshot(q[c], p.resource) /\ CopiesOf(c, p.resource) = {}
      BY <1>1, <2>1, <2>2, EmitsNoSnapshot, Unheld, NothingHeld
    <3>2. q[c] \in Seq(ToClient) /\ (s2c'[c] = q[c] \/ s2c'[c] = Append(q[c], m))
      BY <2>1 DEF ClientQueues
    <3>3. ~HasSnapshot(Append(q[c], m), p.resource)
      BY <2>1, <3>1, <3>2, SnapshotQueued
    <3>4. ~HasSnapshot(s2c'[c], p.resource) /\ CopiesOf(c, p.resource)' = {}
      BY <2>3, <3>1, <3>2, <3>3, CopiesKept
    <3> QED
      BY <3>4, NothingCopied
  <2>11. \A c \in Client, r \in Resource : r # p.resource /\ link[c] = "open" /\ Live(r)' =>
           Copied(CopiesOf(c, r)', s2c'[c], r, state'[r].entries)
    BY <2>3, <2>4, <2>9, CopiesKept DEF InStep
  <2> QED
    BY <1>1, <2>3, <2>10, <2>11 DEF SyncInv, InStep
<1>8. ASSUME NEW p \in creating, SessionCreationFails(p)
      PROVE  SyncInv'
  <2>1. PICK m \in ToClient :
          m = [kind |-> "createFailed", resource |-> p.resource, handler |-> p.handler]
    BY <1>1, Pending DEF ToClient
  <2>2. PICK c \in Client : c = p.client
    BY <1>1, Pending
  <2>3. /\ s2c' = s2c \/ s2c' = [s2c EXCEPT ![c] = Append(@, m)]
        /\ UNCHANGED <<state, link, phase, subscribedSessions, confirmed>>
    BY <1>8, <2>1, <2>2 DEF SessionCreationFails, Answer, server, sync
  <2>4. m.kind # "action" /\ \A r : ~IsSnapshotOf(m, r)
    BY <2>1 DEF IsSnapshotOf
  <2>5. InStep(s2c', state)
    BY <1>1, <2>3, <2>4, AnswerInStep
  <2> QED
    BY <1>1, <2>3, <2>5, InStepSent
<1>9. ASSUME NEW c \in Client, Disconnect(c)
      PROVE  SyncInv'
  <2>1. /\ UNCHANGED <<state, phase, subscribedSessions, confirmed>>
        /\ \A d \in Client : /\ link'[d] = IF d = c THEN "closed" ELSE link[d]
                             /\ d # c => s2c'[d] = s2c[d]
    BY <1>1, <1>9 DEF Disconnect, server, sync, TypeOK
  <2>2. \A d \in Client : link'[d] = "open" => d # c /\ link[d] = "open"
    BY <2>1
  <2> QED
    BY <1>1, <2>1, <2>2, CopiesKept, InStepKept DEF Live
<1>10. ASSUME NEW c \in Client, Initialized(c)
       PROVE  SyncInv'
  <2>1. /\ Receiving(c, "initialized") /\ link' = [link EXCEPT ![c] = "open"]
        /\ UNCHANGED <<state, phase, subscribedSessions, confirmed>>
    BY <1>10 DEF Initialized, server, sync
  <2>2. InStep(s2c', state)
    BY <1>1, <2>1, TakenInStep
  <2>3. link[c] = "open" \/ Handshaking(c)
    <3>1. link[c] # "closed"
      BY <1>1, <2>1, ReceiverIsLinked DEF Receiving
    <3> QED
      BY <1>1, <3>1 DEF Handshaking, TypeOK
  <2>4. ASSUME NEW r \in Resource, Handshaking(c)
        PROVE  Copied(CopiesOf(c, r), s2c'[c], r, state[r].entries)
    <3>1. CopiesOf(c, r) = {} /\ ~HasSnapshot(s2c'[c], r)
      BY <1>1, <2>1, <2>4, Unheld, NothingHeld, ReceivedSnapshots
    <3> QED
      BY <3>1, NothingCopied
  <2>5. ASSUME NEW d \in Client, NEW r \in Resource, link'[d] = "open", Live(r)
        PROVE  Copied(CopiesOf(d, r), s2c'[d], r, state[r].entries)
    <3>1. CASE link[d] = "open"
      BY <2>2, <2>5, <3>1 DEF InStep
    <3>2. CASE link[d] # "open"
      <4>1. d = c
        BY <1>1, <2>1, <2>5, <3>2 DEF TypeOK
      <4> QED
        BY <2>3, <2>4, <3>2, <4>1
    <3> QED
      BY <3>1, <3>2
  <2>6. \A d \in Client, r \in Resource : Live(r)' = Live(r) /\ CopiesOf(d, r)' = CopiesOf(d, r)
    BY <2>1, CopiesKept DEF Live
  <2> QED
    BY <1>1, <2>1, <2>5, <2>6 DEF SyncInv, InStep
<1>11. ASSUME NEW c \in Client,
              SessionCreateReturns(c) \/ SessionCreateThrows(c) \/ SubscribeFails(c)
       PROVE  SyncInv'
  <2>1. /\ \E kind \in {"created", "createFailed", "notFound"} : Receiving(c, kind)
        /\ UNCHANGED <<state, link, phase, subscribedSessions, confirmed>>
    BY <1>11 DEF SessionCreateReturns, SessionCreateThrows, SubscribeFails, server, sync
  <2>2. InStep(s2c', state)
    BY <2>1, TakenInStep
  <2> QED
    BY <1>1, <2>1, <2>2, InStepSent
<1>12. ASSUME NEW h \in Handler, NEW s \in Session, CloseSession(h, s)
       PROVE  SyncInv'
  <2>1. /\ UNCHANGED <<state, phase, link, s2c>> /\ s \in Resource
        /\ subscribedSessions' = [subscribedSessions EXCEPT ![h] = @ \ {s}]
        /\ confirmed' = [confirmed EXCEPT ![h][s] = InitialState]
    BY <1>12 DEF CloseSession, server, Resource
  <2>2. \A g \in Handler, r \in Resource : r \in subscribedSessions'[g] =>
          r \in subscribedSessions[g] /\ confirmed'[g][r] = confirmed[g][r]
    BY <1>1, <2>1 DEF TypeOK
  <2>3. \A c \in Client, r \in Resource : CopiesOf(c, r)' \subseteq CopiesOf(c, r)
    BY <2>2 DEF CopiesOf
  <2> QED
    BY <1>1, <2>1, <2>3, InStepKept DEF Live
<1>13. ASSUME UNCHANGED <<state, phase, link, s2c, subscribedSessions, confirmed>>
       PROVE  SyncInv'
  BY <1>1, <1>13, CopiesKept, InStepKept DEF Live
<1>14. ASSUME NEW c \in Client,
              HandleUnsubscribe(c) \/ HandleCreateSession(c) \/ HandleClose(c)
       PROVE  SyncInv'
  BY <1>13, <1>14 DEF HandleUnsubscribe, HandleCreateSession, HandleClose, server, sync
<1>15. ASSUME NEW c \in Client, Connect(c)
       PROVE  SyncInv'
  <2>1. /\ UNCHANGED <<state, phase, s2c, subscribedSessions, confirmed>>
        /\ link' = [link EXCEPT ![c] = "handshake"]
    BY <1>15 DEF Connect, server, sync
  <2>2. \A d \in Client : link'[d] = "open" => link[d] = "open"
    BY <1>1, <2>1 DEF TypeOK
  <2> QED
    BY <1>1, <2>1, <2>2, CopiesKept, InStepKept DEF Live
<1>16. ASSUME NEW h \in Handler, NEW r \in Resource, OpenExisting(h, r)
       PROVE  SyncInv'
  BY <1>13, <1>16 DEF OpenExisting, server, sync
<1>17. ASSUME NEW h \in Handler, NEW s \in Session, CreateSession(h, s) \/ CancelTurn(h, s)
       PROVE  SyncInv'
  BY <1>13, <1>17 DEF CreateSession, CancelTurn, server, sync
<1>18. ASSUME NEW h \in Handler, NEW s \in Session, NEW t \in Turn, StartTurn(h, s, t)
       PROVE  SyncInv'
  BY <1>13, <1>18 DEF StartTurn, server
<1>19. CASE UNCHANGED vars
  BY <1>13, <1>19 DEF vars, server, net, sync
<1> QED
  BY <1>1, <1>2, <1>3, <1>4, <1>5, <1>6, <1>7, <1>8, <1>9, <1>10, <1>11, <1>12, <1>14, <1>15,
     <1>16, <1>17, <1>18, <1>19, SnapshotInStep, EnvelopeInStep
     DEF Next, HandleMessage, ReceiveMessage

LEMMA SyncInit == Init => SyncInv
<1> SUFFICES ASSUME Init
             PROVE  SyncInv
  OBVIOUS
<1>1. \A c \in Client : link[c] # "open"
  BY DEF Init
<1>2. HoldersInv
  BY SequenceInit DEF Init, HoldersInv, HoldersAreSubscribed, Orderly, SequenceInv
<1> QED
  BY <1>1, <1>2, SequenceInit DEF SyncInv, InStep

\* A copy over an unbroken connection is a prefix of the server's entries, and
\* the rest is on its way, in order: nothing is lost, repeated or reordered
\* between a snapshot and the envelopes sent around it.
THEOREM CopiesAreInSync == Spec => []InSync
<1>1. SyncInv => InSync
  <2> SUFFICES ASSUME SyncInv, NEW h \in Handler, NEW r \in subscribedSessions[h],
                      link[ClientOf[h]] = "open", Live(r)
               PROVE  LET q    == s2c[ClientOf[h]]
                          have == confirmed[h][r].entries
                          all  == state[r].entries
                      IN /\ Prefix(have, all)
                         /\ \A i \in Len(have) + 1 .. Len(all) :
                              \E j \in DOMAIN q : Carries(q[j], r) /\ EntryOf(q[j]) = all[i]
                         /\ \A j \in DOMAIN q : Carries(q[j], r) =>
                              \E i \in Len(have) + 1 .. Len(all) : EntryOf(q[j]) = all[i]
                         /\ \A j, k \in DOMAIN q : j < k /\ Carries(q[j], r) /\ Carries(q[k], r) =>
                              q[j].envelope.serverSeq < q[k].envelope.serverSeq
    BY DEF InSync
  <2>1. r \in Resource /\ ClientOf[h] \in Client
    BY DEF SyncInv, SequenceInv, LifeInv, TypeOK
  <2> DEFINE q == s2c[ClientOf[h]]
             have == confirmed[h][r].entries
             all  == state[r].entries
  <2>2. Follows(0, q, r, have, all)
    <3>1. Copied(CopiesOf(ClientOf[h], r), q, r, all)
      BY <2>1 DEF SyncInv, InStep
    <3>2. have \in CopiesOf(ClientOf[h], r)
      BY DEF CopiesOf
    <3> QED
      BY <3>1, <3>2 DEF Copied
  <2>3. QueueIncreases(q, serverSeq) /\ q \in Seq(ToClient)
    BY <2>1, Queues DEF SyncInv, SequenceInv, QueuesIncrease
  <2> HIDE DEF q, have, all
  <2>4. \A j \in DOMAIN q : j \in Nat /\ 0 < j
    BY <2>3
  <2>5. \A j, k \in DOMAIN q : j < k /\ Carries(q[j], r) /\ Carries(q[k], r) =>
          q[j].envelope.serverSeq < q[k].envelope.serverSeq
    BY <2>3 DEF QueueIncreases, Carries, Mark
  <2> QED
    BY <2>2, <2>4, <2>5 DEF Follows, q, have, all
<1> QED
  BY <1>1, SyncInit, SyncStep, PTL DEF Spec

=============================================================================
