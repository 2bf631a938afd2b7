-------------------------- MODULE AgentTurnsProofs --------------------------
(***************************************************************************)
(* Proofs about AgentTurns, for any turns, tool calls and permission       *)
(* requests, and any of the turns that may be cancelled.                   *)
(***************************************************************************)
EXTENDS AgentTurns, SequenceTheorems, FiniteSetTheorems, TLAPS

INSTANCE LeftFolds WITH Op <- Reduce

USE ToolOfAssumption, CancellableAssumption, NoTurnAssumption

----------------------------------------------------------------------------
(* The reducer *)

LEMMA NewTurnType ==
  ASSUME NEW t \in Turn \cup {NoTurn}
  PROVE  NewTurn(t) \in ActiveTurn
BY DEF NewTurn, ActiveTurn, ToolStatus

LEMMA EmptySessionType == EmptySession \in SessionState
<1>1. NewTurn(NoTurn) \in ActiveTurn
  BY NewTurnType
<1> QED BY <1>1 DEF EmptySession, SessionState

\* An action by its type.
LEMMA ActionKinds ==
  ASSUME NEW a \in Action
  PROVE  /\ a.turn \in Turn
         /\ \/ a.type = "turnStarted"
            \/ a.type \in TurnEnd
            \/ a.type = "permissionRequest" /\ a.request \in Request
            \/ a.type = "permissionResolved" /\ a.request \in Request /\ a.approved \in BOOLEAN
            \/ a.type \in {"toolCallStart", "toolCallReady", "toolCallComplete"} /\ a.tool \in Tool
BY DEF Action, TurnAction, ToolAction, PermissionAction, TurnEnd

LEMMA EndTurnType ==
  ASSUME NEW st \in SessionState, st.activeTurn.id \in Turn, NEW a, a.type \in TurnEnd
  PROVE  /\ EndTurn(st, a) \in SessionState
         /\ EndTurn(st, a).activeTurn = NewTurn(NoTurn)
         /\ \E e \in FinishedTurn :
              e.id = st.activeTurn.id /\ EndTurn(st, a).turns = Append(st.turns, e)
<1> DEFINE e == [id    |-> st.activeTurn.id,
                 state |-> CASE a.type = "turnComplete" -> "complete"
                             [] a.type = "turnCancelled" -> "cancelled"
                             [] a.type = "error" -> "error",
                 toolCalls |-> [k \in Tool |->
                   IF st.activeTurn.toolCalls[k] \in Settled \cup {"absent"}
                   THEN st.activeTurn.toolCalls[k] ELSE "cancelled"]]
<1>1. e \in FinishedTurn
  <2>1. e.state \in {"complete", "cancelled", "error"}
    BY DEF TurnEnd
  <2>2. e.toolCalls \in [Tool -> Settled \cup {"absent"}]
    BY DEF Settled
  <2> QED BY <2>1, <2>2 DEF FinishedTurn
<1>2. NewTurn(NoTurn) \in ActiveTurn
  BY NewTurnType
<1>3. EndTurn(st, a) = [activeTurn |-> NewTurn(NoTurn), turns |-> Append(st.turns, e)]
  BY DEF EndTurn
<1>4. e.id = st.activeTurn.id
  OBVIOUS
<1> HIDE DEF e
<1>5. Append(st.turns, e) \in Seq(FinishedTurn)
  BY <1>1 DEF SessionState
<1> QED BY <1>1, <1>2, <1>3, <1>4, <1>5 DEF SessionState

LEMMA RequestPermissionType ==
  ASSUME NEW turn \in ActiveTurn, NEW r \in Request
  PROVE  /\ RequestPermission(turn, r) \in ActiveTurn
         /\ RequestPermission(turn, r).id = turn.id
         /\ RequestPermission(turn, r).pendingPermissions = turn.pendingPermissions \cup {r}
         /\ \A k \in Tool : turn.toolCalls[k] \in Settled \cup {"absent"} =>
              RequestPermission(turn, r).toolCalls[k] = turn.toolCalls[k]
<1> DEFINE k0  == ToolOf[r]
           s   == turn.toolCalls[k0]
           new == IF s \in {"running", "streaming"} THEN "pendingConfirmation" ELSE s
<1>1. /\ k0 \in Tool /\ turn.toolCalls \in [Tool -> ToolStatus]
      /\ turn.pendingPermissions \subseteq Request /\ turn.id \in Turn \cup {NoTurn}
  BY DEF ActiveTurn
<1>2. RequestPermission(turn, r) =
        [id |-> turn.id, toolCalls |-> [turn.toolCalls EXCEPT ![k0] = new],
         pendingPermissions |-> turn.pendingPermissions \cup {r}]
  <2>1. turn = [id |-> turn.id, toolCalls |-> turn.toolCalls,
                pendingPermissions |-> turn.pendingPermissions]
    BY DEF ActiveTurn
  <2>2. RequestPermission(turn, r) =
          [turn EXCEPT !.pendingPermissions = turn.pendingPermissions \cup {r},
                       !.toolCalls = [turn.toolCalls EXCEPT ![k0] = new]]
    BY <2>1 DEF RequestPermission
  <2> QED BY <2>1, <2>2
<1>3. /\ s \in ToolStatus /\ new \in ToolStatus
      /\ s \in Settled \cup {"absent"} => new = s
  BY <1>1 DEF ToolStatus, Settled
<1> HIDE DEF k0, new
<1>4. [turn.toolCalls EXCEPT ![k0] = new] \in [Tool -> ToolStatus]
  BY <1>1, <1>3
<1> QED BY <1>1, <1>2, <1>3, <1>4 DEF ActiveTurn

LEMMA ResolvePermissionType ==
  ASSUME NEW turn \in ActiveTurn, NEW r \in Request, NEW approved \in BOOLEAN
  PROVE  /\ ResolvePermission(turn, r, approved) \in ActiveTurn
         /\ ResolvePermission(turn, r, approved).id = turn.id
         /\ ResolvePermission(turn, r, approved).pendingPermissions = turn.pendingPermissions \ {r}
         /\ \A k \in Tool : turn.toolCalls[k] \in Settled \cup {"absent"} =>
              ResolvePermission(turn, r, approved).toolCalls[k] = turn.toolCalls[k]
BY DEF ResolvePermission, ActiveTurn, ToolStatus, Settled

LEMMA ToolAfterType ==
  ASSUME NEW status \in ToolStatus, NEW a
  PROVE  /\ ToolAfter(status, a) \in ToolStatus
         /\ a.type = "toolCallComplete" /\ status \in Settled \cup {"absent"} =>
              ToolAfter(status, a) = status
BY DEF ToolAfter, ToolStatus, Settled

----------------------------------------------------------------------------
(* What an action does, by its type *)

LEMMA ReduceStart ==
  ASSUME NEW st \in SessionState, NEW a \in Action, a.type = "turnStarted"
  PROVE  /\ Reduce(st, a) \in SessionState
         /\ Reduce(st, a).activeTurn = NewTurn(a.turn)
         /\ Reduce(st, a).turns = st.turns
<1>1. NewTurn(a.turn) \in ActiveTurn
  BY ActionKinds, NewTurnType
<1> QED BY <1>1 DEF Reduce, SessionState

LEMMA ReduceOther ==
  ASSUME NEW st, NEW a, a.type # "turnStarted", a.turn # st.activeTurn.id
  PROVE  Reduce(st, a) = st
BY DEF Reduce

LEMMA ReduceEnd ==
  ASSUME NEW st \in SessionState, NEW a \in Action, a.type \in TurnEnd,
         a.turn = st.activeTurn.id
  PROVE  /\ Reduce(st, a) \in SessionState
         /\ Reduce(st, a).activeTurn = NewTurn(NoTurn)
         /\ \E e \in FinishedTurn :
              e.id = st.activeTurn.id /\ Reduce(st, a).turns = Append(st.turns, e)
<1>1. Reduce(st, a) = EndTurn(st, a)
  BY DEF Reduce, TurnEnd
<1>2. a.turn \in Turn
  BY ActionKinds
<1> QED BY <1>1, <1>2, EndTurnType

LEMMA ReduceRequest ==
  ASSUME NEW st \in SessionState, NEW a \in Action, a.type = "permissionRequest",
         a.turn = st.activeTurn.id
  PROVE  /\ Reduce(st, a) \in SessionState
         /\ Reduce(st, a).activeTurn = RequestPermission(st.activeTurn, a.request)
         /\ Reduce(st, a).turns = st.turns
<1>1. Reduce(st, a) = [st EXCEPT !.activeTurn = RequestPermission(@, a.request)]
  BY DEF Reduce, TurnEnd
<1>2. RequestPermission(st.activeTurn, a.request) \in ActiveTurn
  BY ActionKinds, RequestPermissionType DEF SessionState, TurnEnd
<1> QED BY <1>1, <1>2 DEF SessionState

LEMMA ReduceResolved ==
  ASSUME NEW st \in SessionState, NEW a \in Action, a.type = "permissionResolved",
         a.turn = st.activeTurn.id
  PROVE  /\ Reduce(st, a) \in SessionState
         /\ Reduce(st, a).activeTurn = ResolvePermission(st.activeTurn, a.request, a.approved)
         /\ Reduce(st, a).turns = st.turns
<1>1. Reduce(st, a) = [st EXCEPT !.activeTurn = ResolvePermission(@, a.request, a.approved)]
  BY DEF Reduce, TurnEnd
<1>2. ResolvePermission(st.activeTurn, a.request, a.approved) \in ActiveTurn
  BY ActionKinds, ResolvePermissionType DEF SessionState, TurnEnd
<1> QED BY <1>1, <1>2 DEF SessionState

ToolActionType == {"toolCallStart", "toolCallReady", "toolCallComplete"}

LEMMA ReduceTool ==
  ASSUME NEW st \in SessionState, NEW a \in Action, a.type \in ToolActionType,
         a.turn = st.activeTurn.id
  PROVE  /\ Reduce(st, a) \in SessionState
         /\ Reduce(st, a).turns = st.turns
         /\ Reduce(st, a).activeTurn.id = st.activeTurn.id
         /\ Reduce(st, a).activeTurn.pendingPermissions = st.activeTurn.pendingPermissions
         /\ Reduce(st, a).activeTurn.toolCalls =
              [st.activeTurn.toolCalls EXCEPT ![a.tool] = ToolAfter(@, a)]
<1>1. Reduce(st, a) = [st EXCEPT !.activeTurn.toolCalls[a.tool] = ToolAfter(@, a)]
  BY DEF Reduce, TurnEnd, ToolActionType
<1>2. a.tool \in Tool
  BY ActionKinds DEF ToolActionType, TurnEnd
<1>3. ToolAfter(st.activeTurn.toolCalls[a.tool], a) \in ToolStatus
  BY <1>2, ToolAfterType DEF SessionState, ActiveTurn
<1> DEFINE after == ToolAfter(st.activeTurn.toolCalls[a.tool], a)
           turn  == [st.activeTurn EXCEPT !.toolCalls = [@ EXCEPT ![a.tool] = after]]
<1>4. /\ st.activeTurn \in ActiveTurn
      /\ st.turns \in Seq(FinishedTurn)
      /\ st = [activeTurn |-> st.activeTurn, turns |-> st.turns]
  BY DEF SessionState
<1>5. Reduce(st, a) = [activeTurn |-> turn, turns |-> st.turns]
  BY <1>1, <1>4
<1>8. after \in ToolStatus
  BY <1>3
<1> HIDE DEF after
<1>6. /\ turn \in ActiveTurn
      /\ turn.id = st.activeTurn.id
      /\ turn.pendingPermissions = st.activeTurn.pendingPermissions
      /\ turn.toolCalls = [st.activeTurn.toolCalls EXCEPT ![a.tool] = after]
  BY <1>4, <1>8 DEF ActiveTurn
<1>7. Reduce(st, a) \in SessionState
  BY <1>4, <1>5, <1>6 DEF SessionState
<1> HIDE DEF turn
<1>9. Reduce(st, a).activeTurn = turn /\ Reduce(st, a).turns = st.turns
  BY <1>5
<1> QED BY <1>6, <1>7, <1>9, Zenon DEF after

LEMMA ReduceType ==
  ASSUME NEW st \in SessionState, NEW a \in Action
  PROVE  Reduce(st, a) \in SessionState
<1>1. \/ a.type = "turnStarted"
      \/ a.type # "turnStarted" /\ a.turn # st.activeTurn.id
      \/ a.turn = st.activeTurn.id /\ a.type \in TurnEnd
      \/ a.turn = st.activeTurn.id /\ a.type = "permissionRequest"
      \/ a.turn = st.activeTurn.id /\ a.type = "permissionResolved"
      \/ a.turn = st.activeTurn.id /\ a.type \in ToolActionType
  BY ActionKinds DEF ToolActionType
<1>2. CASE a.type = "turnStarted"
  BY <1>2, ReduceStart
<1>3. CASE a.type # "turnStarted" /\ a.turn # st.activeTurn.id
  BY <1>3, ReduceOther
<1>4. CASE a.turn = st.activeTurn.id /\ a.type \in TurnEnd
  BY <1>4, ReduceEnd
<1>5. CASE a.turn = st.activeTurn.id /\ a.type = "permissionRequest"
  BY <1>5, ReduceRequest
<1>6. CASE a.turn = st.activeTurn.id /\ a.type = "permissionResolved"
  BY <1>6, ReduceResolved
<1>7. CASE a.turn = st.activeTurn.id /\ a.type \in ToolActionType
  BY <1>7, ReduceTool
<1> QED BY <1>1, <1>2, <1>3, <1>4, <1>5, <1>6, <1>7

LEMMA ReduceAllType ==
  ASSUME NEW st \in SessionState, NEW q \in Seq(Action)
  PROVE  ReduceAll(st, q) \in SessionState
<1>1. \A x \in SessionState : \A i \in 1..Len(q) : Reduce(x, q[i]) \in SessionState
  BY ReduceType
<1> QED BY <1>1, FoldStays DEF ReduceAll

----------------------------------------------------------------------------
(* Sequences *)

LEMMA HeadAndTail ==
  ASSUME NEW E, NEW q \in Seq(E), q # <<>>
  PROVE  /\ Head(q) \in E /\ Head(q) = q[1]
         /\ Tail(q) \in Seq(E)
         /\ Len(q) \in Nat \ {0} /\ Len(Tail(q)) + 1 = Len(q)
         /\ \A i \in DOMAIN Tail(q) : i + 1 \in DOMAIN q /\ Tail(q)[i] = q[i + 1]
OBVIOUS

LEMMA Concatenated ==
  ASSUME NEW E, NEW p \in Seq(E), NEW q \in Seq(E)
  PROVE  /\ p \o q \in Seq(E)
         /\ Len(p) \in Nat /\ Len(q) \in Nat
         /\ Len(p \o q) = Len(p) + Len(q)
         /\ \A i \in 1..Len(p) : (p \o q)[i] = p[i]
         /\ \A j \in 1..Len(q) : (p \o q)[Len(p) + j] = q[j]
OBVIOUS

LEMMA IsSequence ==
  ASSUME NEW E, NEW n \in Nat, NEW f, f = [i \in 1..n |-> f[i]], \A i \in 1..n : f[i] \in E
  PROVE  f \in Seq(E) /\ Len(f) = n
<1>1. f \in [1..n -> E]
  OBVIOUS
<1> QED BY <1>1

\* SetToSeq lists a finite set.
LEMMA SetToSeqLists ==
  ASSUME NEW S, IsFiniteSet(S)
  PROVE  /\ SetToSeq(S) \in Seq(S)
         /\ DOMAIN SetToSeq(S) = 1..Cardinality(S)
         /\ Cardinality(S) \in Nat
         /\ \A x \in S : \E i \in DOMAIN SetToSeq(S) : SetToSeq(S)[i] = x
<1> DEFINE n == Cardinality(S)
           f == SetToSeq(S)
<1>1. n \in Nat /\ ExistsBijection(1..n, S)
  BY FS_CardinalityType
<1>2. IsFiniteSet(1..n) /\ Cardinality(1..n) = n
  BY <1>1, FS_Interval
<1>3. \E g \in [1..n -> S] : IsInjective(g)
  BY <1>1 DEF ExistsBijection, Bijection, Injection
<1>4. f \in [1..n -> S] /\ IsInjective(f)
  BY <1>3 DEF SetToSeq
<1> HIDE DEF f, n
<1>5. f \in Injection(1..n, S)
  BY <1>4 DEF Injection
<1>6. f \in Surjection(1..n, S)
  BY <1>2, <1>5, FS_Injection DEF n
<1>7. \A x \in S : \E i \in 1..n : f[i] = x
  BY <1>6 DEF Surjection
<1>8. f \in Seq(S) /\ DOMAIN f = 1..n
  BY <1>1, <1>4
<1> QED BY <1>1, <1>7, <1>8 DEF f, n

----------------------------------------------------------------------------
(* Types.  An envelope is the window's own when its action is one that a   *)
(* window dispatches.                                                      *)

OwnType == {"turnStarted", "turnCancelled", "permissionResolved"}
OwnAction == {a \in Action : a.type \in OwnType}
AgentAction == {a \in Action : a.type \notin OwnType}
Envelope == {m \in [action : Action, own : BOOLEAN] : m.own <=> m.action.type \in OwnType}

Command ==
  [call : {"send"}, turn : Turn] \cup [call : {"abort"}]
  \cup [call : {"answer"}, request : Request, approved : BOOLEAN]
Event ==
  [type : {"tool_start", "tool_complete"}, tool : Tool]
  \cup [type : {"permission_request"}, request : Request]
  \cup [type : {"idle", "error"}] \cup [type : {"sendFailed"}, turn : Turn]

QueueTypes ==
  /\ commands \in Seq(Command) /\ events \in Seq(Event)
  /\ toServer \in Seq(OwnAction) /\ pending \in Seq(OwnAction)
  /\ toWindow \in Seq(Envelope)
  /\ usedTurns \subseteq Turn /\ usedTools \subseteq Tool /\ usedRequests \subseteq Request

AllFinite ==
  /\ IsFiniteSet(waiting) /\ IsFiniteSet(prompts)
  /\ IsFiniteSet(confirmed.activeTurn.pendingPermissions)

TypeInv == TypeOK /\ QueueTypes /\ AllFinite

LEMMA SeqOfSubset ==
  ASSUME NEW A, NEW B, A \subseteq B
  PROVE  Seq(A) \subseteq Seq(B)
<1>1. SUFFICES ASSUME NEW q \in Seq(A) PROVE q \in Seq(B)
  OBVIOUS
<1>2. Len(q) \in Nat /\ q \in [1..Len(q) -> B]
  OBVIOUS
<1> QED BY <1>2

LEMMA OwnTypes ==
  /\ OwnAction \subseteq Action /\ AgentAction \subseteq Action
  /\ Seq(OwnAction) \subseteq Seq(Action) /\ Seq(AgentAction) \subseteq Seq(Action)
  /\ \A m \in Envelope : m.action \in Action /\ (m.own <=> m.action \in OwnAction)
  /\ Seq(Envelope) \subseteq Seq([action : Action, own : BOOLEAN])
<1>1. OwnAction \subseteq Action /\ AgentAction \subseteq Action
  BY DEF OwnAction, AgentAction
<1>2. Envelope \subseteq [action : Action, own : BOOLEAN]
  BY DEF Envelope
<1>3. \A m \in Envelope : m.action \in Action /\ (m.own <=> m.action \in OwnAction)
  BY DEF Envelope, OwnAction
<1> QED BY <1>1, <1>2, <1>3, SeqOfSubset

\* The action of a window, by its type.
LEMMA OwnKinds ==
  ASSUME NEW a \in OwnAction
  PROVE  /\ a.turn \in Turn
         /\ \/ a.type = "turnStarted"
            \/ a.type = "turnCancelled"
            \/ a.type = "permissionResolved" /\ a.request \in Request /\ a.approved \in BOOLEAN
BY DEF OwnAction, OwnType, Action, TurnAction, ToolAction, PermissionAction

LEMMA EventKinds ==
  ASSUME NEW e \in Event
  PROVE  \/ e.type \in {"tool_start", "tool_complete"} /\ e.tool \in Tool
         \/ e.type = "permission_request" /\ e.request \in Request
         \/ e.type \in {"idle", "error"}
         \/ e.type = "sendFailed" /\ e.turn \in Turn
BY DEF Event

\* What an event makes of the active turn: one action of the agent, or the
\* two that start a tool call.
LEMMA ActionsOfKinds ==
  ASSUME NEW e \in Event, e.type # "sendFailed", NEW t \in Turn
  PROVE  \/ /\ e.type = "tool_start"
            /\ \E a, b \in AgentAction :
                 /\ ActionsOf(e, t) = <<a, b>>
                 /\ a.turn = t /\ a.type = "toolCallStart" /\ a.tool = e.tool
                 /\ b.turn = t /\ b.type = "toolCallReady" /\ b.tool = e.tool
         \/ /\ e.type = "tool_complete"
            /\ \E a \in AgentAction :
                 ActionsOf(e, t) = <<a>> /\ a.turn = t /\ a.type = "toolCallComplete" /\ a.tool = e.tool
         \/ /\ e.type = "permission_request"
            /\ \E a \in AgentAction :
                 ActionsOf(e, t) = <<a>> /\ a.turn = t /\ a.type = "permissionRequest" /\ a.request = e.request
         \/ /\ e.type \in {"idle", "error"}
            /\ \E a \in AgentAction :
                 ActionsOf(e, t) = <<a>> /\ a.turn = t /\ a.type \in TurnEnd
<1> USE DEF AgentAction, OwnType, Action, TurnAction, ToolAction, PermissionAction
<1>1. CASE e.type = "tool_start"
  <2> DEFINE a == [type |-> "toolCallStart", turn |-> t, tool |-> e.tool]
             b == [type |-> "toolCallReady", turn |-> t, tool |-> e.tool]
  <2>1. a \in AgentAction /\ b \in AgentAction
    BY <1>1, EventKinds
  <2>2. ActionsOf(e, t) = <<a, b>>
    BY <1>1 DEF ActionsOf
  <2> QED BY <1>1, <2>1, <2>2
<1>2. CASE e.type = "tool_complete"
  <2> DEFINE a == [type |-> "toolCallComplete", turn |-> t, tool |-> e.tool]
  <2>1. a \in AgentAction
    BY <1>2, EventKinds
  <2>2. ActionsOf(e, t) = <<a>>
    BY <1>2 DEF ActionsOf
  <2> QED BY <1>2, <2>1, <2>2
<1>3. CASE e.type = "permission_request"
  <2> DEFINE a == [type |-> "permissionRequest", turn |-> t, request |-> e.request]
  <2>1. a \in AgentAction
    BY <1>3, EventKinds
  <2>2. ActionsOf(e, t) = <<a>>
    BY <1>3 DEF ActionsOf
  <2> QED BY <1>3, <2>1, <2>2
<1>4. CASE e.type = "idle"
  <2> DEFINE a == [type |-> "turnComplete", turn |-> t]
  <2>1. a \in AgentAction /\ a.type \in TurnEnd
    BY DEF TurnEnd
  <2>2. ActionsOf(e, t) = <<a>>
    BY <1>4 DEF ActionsOf
  <2> QED BY <1>4, <2>1, <2>2
<1>5. CASE e.type = "error"
  <2> DEFINE a == [type |-> "error", turn |-> t]
  <2>1. a \in AgentAction /\ a.type \in TurnEnd
    BY DEF TurnEnd
  <2>2. ActionsOf(e, t) = <<a>>
    BY <1>5 DEF ActionsOf
  <2> QED BY <1>5, <2>1, <2>2
<1> QED BY <1>1, <1>2, <1>3, <1>4, <1>5, EventKinds

\* Reducing one action, or two.
LEMMA ReduceOne ==
  ASSUME NEW st, NEW E, NEW a \in E
  PROVE  ReduceAll(st, <<a>>) = Reduce(st, a)
<1>1. <<a>> \in Seq(E) /\ <<a>> # <<>> /\ Head(<<a>>) = a /\ Tail(<<a>>) = <<>>
  OBVIOUS
<1> QED BY <1>1, FoldCons, FoldEmpty DEF ReduceAll

LEMMA ReduceTwo ==
  ASSUME NEW st, NEW E, NEW a \in E, NEW b \in E
  PROVE  ReduceAll(st, <<a, b>>) = Reduce(Reduce(st, a), b)
<1>1. <<a, b>> \in Seq(E) /\ <<a, b>> # <<>> /\ Head(<<a, b>>) = a /\ Tail(<<a, b>>) = <<b>>
  OBVIOUS
<1>2. FoldLeft(Reduce, st, <<a, b>>) = FoldLeft(Reduce, Reduce(st, a), <<b>>)
  BY <1>1, FoldCons
<1> QED BY <1>2, ReduceOne DEF ReduceAll

----------------------------------------------------------------------------
(* Type correctness *)

Envelopes(actions, own) == [i \in DOMAIN actions |-> [action |-> actions[i], own |-> own]]

LEMMA EnvelopesType ==
  ASSUME NEW q, NEW own \in BOOLEAN, q \in IF own THEN Seq(OwnAction) ELSE Seq(AgentAction)
  PROVE  /\ Envelopes(q, own) \in Seq(Envelope)
         /\ q \in Seq(Action)
         /\ Len(Envelopes(q, own)) = Len(q)
         /\ \A i \in DOMAIN q :
              Envelopes(q, own)[i].action = q[i] /\ Envelopes(q, own)[i].own = own
<1>1. q \in Seq(Action)
  BY OwnTypes
<1>2. ASSUME NEW i \in DOMAIN q
      PROVE  Envelopes(q, own)[i] \in Envelope
  <2>1. q[i] \in Action /\ (own <=> q[i].type \in OwnType)
    BY DEF OwnAction, AgentAction
  <2> QED BY <2>1 DEF Envelopes, Envelope
<1>3. Len(q) \in Nat /\ DOMAIN q = 1..Len(q)
  BY <1>1
<1>4. Envelopes(q, own) \in [1..Len(q) -> Envelope]
  BY <1>2, <1>3 DEF Envelopes
<1>5. Envelopes(q, own) \in Seq(Envelope) /\ Len(Envelopes(q, own)) = Len(q)
  BY <1>3, <1>4
<1> QED BY <1>1, <1>5 DEF Envelopes

LEMMA EnvelopeOfOne ==
  ASSUME NEW a \in OwnAction
  PROVE  /\ Envelopes(<<a>>, TRUE) \in Seq(Envelope)
         /\ Len(Envelopes(<<a>>, TRUE)) = 1
         /\ Envelopes(<<a>>, TRUE)[1].action = a /\ Envelopes(<<a>>, TRUE)[1].own = TRUE
<1> DEFINE q == <<a>>
<1>1. q \in Seq(OwnAction) /\ Len(q) = 1 /\ DOMAIN q = 1..1 /\ q[1] = a
  OBVIOUS
<1> HIDE DEF q
<1>2. q \in IF TRUE THEN Seq(OwnAction) ELSE Seq(AgentAction)
  BY <1>1
<1>3. /\ Envelopes(q, TRUE) \in Seq(Envelope) /\ Len(Envelopes(q, TRUE)) = Len(q)
      /\ \A i \in DOMAIN q : Envelopes(q, TRUE)[i].action = q[i] /\ Envelopes(q, TRUE)[i].own = TRUE
  BY <1>2, EnvelopesType, Zenon
<1>4. 1 \in DOMAIN q
  BY <1>1
<1> QED BY <1>1, <1>3, <1>4 DEF q

LEMMA ApplyType ==
  ASSUME session \in SessionState, toWindow \in Seq(Envelope),
         NEW q, NEW own \in BOOLEAN, q \in IF own THEN Seq(OwnAction) ELSE Seq(AgentAction),
         Apply(q, own)
  PROVE  session' \in SessionState /\ toWindow' \in Seq(Envelope)
<1>1. toWindow' = toWindow \o Envelopes(q, own) /\ session' = ReduceAll(session, q)
  BY DEF Apply, Envelopes
<1> QED BY <1>1, EnvelopesType, ReduceAllType

\* The answers that deny what the agent holds.
LEMMA DenialsType ==
  ASSUME IsFiniteSet(waiting), waiting \subseteq Request
  PROVE  /\ Denials \in Seq(Command)
         /\ \A i \in DOMAIN Denials : \E r \in waiting : Denials[i] = Answer(r, FALSE)
         /\ \A r \in waiting : \E i \in DOMAIN Denials : Denials[i] = Answer(r, FALSE)
<1> DEFINE held == SetToSeq(waiting)
<1>1. /\ held \in Seq(waiting)
      /\ \A r \in waiting : \E i \in DOMAIN held : held[i] = r
  BY SetToSeqLists
<1>2. Denials = [i \in DOMAIN held |-> Answer(held[i], FALSE)]
  BY DEF Denials
<1> HIDE DEF held
<1>3. Len(held) \in Nat /\ DOMAIN held = 1..Len(held) /\ \A i \in DOMAIN held : held[i] \in waiting
  BY <1>1
<1>4. \A r \in waiting : Answer(r, FALSE) \in Command
  BY DEF Answer, Command
<1>5. Denials \in [1..Len(held) -> Command] /\ DOMAIN Denials = DOMAIN held
  BY <1>2, <1>3, <1>4
<1>6. Denials \in Seq(Command)
  BY <1>3, <1>5
<1>7. \A i \in DOMAIN held : Denials[i] = Answer(held[i], FALSE)
  BY <1>2
<1> QED BY <1>1, <1>3, <1>5, <1>6, <1>7, Zenon

LEMMA SideEffectType ==
  ASSUME TypeInv, NEW a \in OwnAction, SideEffect(a)
  PROVE  /\ commands' \in Seq(Command) /\ routed' \subseteq Request
         /\ waiting' \subseteq waiting /\ IsFiniteSet(waiting')
<1>1. /\ commands \in Seq(Command) /\ routed \subseteq Request /\ waiting \subseteq Request
      /\ IsFiniteSet(waiting)
  BY DEF TypeInv, TypeOK, QueueTypes, AllFinite
<1>2. CASE a.type = "turnStarted"
  <2>1. [call |-> "send", turn |-> a.turn] \in Command
    BY OwnKinds DEF Command
  <2> QED BY <1>1, <1>2, <2>1 DEF SideEffect
<1>3. CASE a.type = "turnCancelled"
  <2>1. [call |-> "abort"] \in Command
    BY DEF Command
  <2>2. Denials \in Seq(Command)
    BY <1>1, DenialsType
  <2>3. Append(commands, [call |-> "abort"]) \in Seq(Command)
    BY <1>1, <2>1
  <2>4. Append(commands, [call |-> "abort"]) \o Denials \in Seq(Command)
    BY <2>2, <2>3
  <2>5. /\ commands' = Append(commands, [call |-> "abort"]) \o Denials
        /\ waiting' = {} /\ routed' = routed
    BY <1>3 DEF SideEffect
  <2> QED BY <1>1, <2>4, <2>5, FS_EmptySet
<1>4. CASE a.type = "permissionResolved"
  <2>1. Answer(a.request, a.approved) \in Command
    BY <1>4, OwnKinds DEF Answer, Command
  <2>2. IsFiniteSet(waiting \ {a.request})
    BY <1>1, FS_RemoveElement
  <2>3. Append(commands, Answer(a.request, a.approved)) \in Seq(Command)
    BY <1>1, <2>1
  <2>4. /\ routed' = routed \ {a.request}
        /\ \/ /\ waiting' = waiting \ {a.request}
              /\ commands' = Append(commands, Answer(a.request, a.approved))
           \/ waiting' = waiting /\ commands' = commands
    BY <1>4 DEF SideEffect, RoutesAfter
  <2> QED BY <1>1, <2>2, <2>3, <2>4
<1> QED BY <1>2, <1>3, <1>4, OwnKinds

\* The actions of an event that arrives.
Arriving ==
  IF session.activeTurn.id = NoTurn THEN <<>> ELSE ActionsOf(Head(events), session.activeTurn.id)

LEMMA ArrivingType ==
  ASSUME session \in SessionState, events \in Seq(Event), events # <<>>,
         Head(events).type # "sendFailed"
  PROVE  Arriving \in Seq(AgentAction)
<1>1. Head(events) \in Event
  BY HeadAndTail
<1>2. session.activeTurn.id \in Turn \cup {NoTurn}
  BY DEF SessionState, ActiveTurn
<1>3. CASE session.activeTurn.id = NoTurn
  BY <1>3 DEF Arriving
<1>4. CASE session.activeTurn.id # NoTurn
  <2>1. \/ \E a, b \in AgentAction : Arriving = <<a, b>>
        \/ \E a \in AgentAction : Arriving = <<a>>
    BY <1>1, <1>2, <1>4, ActionsOfKinds DEF Arriving
  <2>2. \A a, b \in AgentAction : <<a, b>> \in Seq(AgentAction) /\ <<a>> \in Seq(AgentAction)
    OBVIOUS
  <2> QED BY <2>1, <2>2
<1> QED BY <1>3, <1>4

LEMMA OptimisticType ==
  ASSUME NEW conf \in SessionState, NEW pend \in Seq(OwnAction)
  PROVE  Optimistic(conf, pend) \in SessionState
BY OwnTypes, ReduceAllType DEF Optimistic

\* What a window's own action does to the active turn.
LEMMA ReduceOwn ==
  ASSUME NEW st \in SessionState, NEW a \in OwnAction
  PROVE  LET new == Reduce(st, a).activeTurn IN
         /\ Reduce(st, a) \in SessionState
         /\ \/ a.type = "turnStarted" /\ new = NewTurn(a.turn)
            \/ a.type # "turnStarted" /\ a.turn # st.activeTurn.id /\ new = st.activeTurn
            \/ a.type = "turnCancelled" /\ a.turn = st.activeTurn.id /\ new = NewTurn(NoTurn)
            \/ /\ a.type = "permissionResolved" /\ a.turn = st.activeTurn.id
               /\ new.id = st.activeTurn.id
               /\ new.pendingPermissions = st.activeTurn.pendingPermissions \ {a.request}
<1>1. a \in Action /\ Reduce(st, a) \in SessionState
  BY OwnTypes, ReduceType
<1>2. CASE a.type = "turnStarted"
  BY <1>1, <1>2, ReduceStart
<1>3. CASE a.type # "turnStarted" /\ a.turn # st.activeTurn.id
  BY <1>1, <1>3, ReduceOther
<1>4. CASE a.type = "turnCancelled" /\ a.turn = st.activeTurn.id
  BY <1>1, <1>4, ReduceEnd DEF TurnEnd
<1>5. CASE a.type = "permissionResolved" /\ a.turn = st.activeTurn.id
  <2>1. st.activeTurn \in ActiveTurn /\ a.request \in Request /\ a.approved \in BOOLEAN
    BY <1>5, OwnKinds DEF SessionState
  <2> QED BY <1>1, <1>5, <2>1, ReduceResolved, ResolvePermissionType
<1> QED BY <1>1, <1>2, <1>3, <1>4, <1>5, OwnKinds

LEMMA ReduceOwnRequests ==
  ASSUME NEW st \in SessionState, NEW a \in OwnAction
  PROVE  /\ Reduce(st, a) \in SessionState
         /\ \/ Reduce(st, a).activeTurn.pendingPermissions = {}
            \/ /\ Reduce(st, a).activeTurn.id = st.activeTurn.id
               /\ Reduce(st, a).activeTurn.pendingPermissions \subseteq st.activeTurn.pendingPermissions
<1>1. NewTurn(NoTurn).pendingPermissions = {} /\ NewTurn(a.turn).pendingPermissions = {}
  BY DEF NewTurn
<1> QED BY <1>1, ReduceOwn

\* Own actions on top of a state add no permission request to it, and those
\* it has stay only with its turn.
LEMMA OptimisticRequests ==
  ASSUME NEW conf \in SessionState, NEW pend \in Seq(OwnAction)
  PROVE  LET seen == Optimistic(conf, pend).activeTurn IN
         \/ seen.pendingPermissions = {}
         \/ /\ seen.id = conf.activeTurn.id
            /\ seen.pendingPermissions \subseteq conf.activeTurn.pendingPermissions
<1> DEFINE Good(x) == \/ x.activeTurn.pendingPermissions = {}
                      \/ /\ x.activeTurn.id = conf.activeTurn.id
                         /\ x.activeTurn.pendingPermissions \subseteq conf.activeTurn.pendingPermissions
           S == {x \in SessionState : Good(x)}
<1>1. conf \in S
  OBVIOUS
<1>2. ASSUME NEW x \in S, NEW i \in 1..Len(pend)
      PROVE  Reduce(x, pend[i]) \in S
  <2>1. pend[i] \in OwnAction /\ x \in SessionState /\ Good(x)
    OBVIOUS
  <2> DEFINE new == Reduce(x, pend[i])
  <2>2. /\ new \in SessionState
        /\ \/ new.activeTurn.pendingPermissions = {}
           \/ /\ new.activeTurn.id = x.activeTurn.id
              /\ new.activeTurn.pendingPermissions \subseteq x.activeTurn.pendingPermissions
    <3> HIDE DEF S
    <3> QED BY <2>1, ReduceOwnRequests
  <2> HIDE DEF new
  <2>3. Good(new)
    BY <2>1, <2>2
  <2> QED BY <2>2, <2>3 DEF new
<1> HIDE DEF S
<1>3. FoldLeft(Reduce, conf, pend) \in S
  BY <1>1, <1>2, FoldStays
<1> QED BY <1>3 DEF S, Optimistic, ReduceAll

\* An action adds at most one request, its own.
LEMMA ReduceRequests ==
  ASSUME NEW st \in SessionState, NEW a \in Action
  PROVE  LET new == Reduce(st, a).activeTurn IN
         \/ new.pendingPermissions = {}
         \/ new.pendingPermissions \subseteq st.activeTurn.pendingPermissions /\ new.id = st.activeTurn.id
         \/ /\ a.type = "permissionRequest" /\ a.turn = st.activeTurn.id
            /\ new.pendingPermissions = st.activeTurn.pendingPermissions \cup {a.request}
            /\ new.id = st.activeTurn.id
<1> DEFINE new == Reduce(st, a).activeTurn
<1>1. NewTurn(NoTurn).pendingPermissions = {} /\ NewTurn(a.turn).pendingPermissions = {}
  BY DEF NewTurn
<1>2. st.activeTurn \in ActiveTurn
  BY DEF SessionState
<1>3. CASE a.type = "turnStarted"
  BY <1>1, <1>3, ReduceStart
<1>4. CASE a.type # "turnStarted" /\ a.turn # st.activeTurn.id
  BY <1>4, ReduceOther
<1>5. CASE a.type \in TurnEnd /\ a.turn = st.activeTurn.id
  BY <1>1, <1>5, ReduceEnd
<1>6. CASE a.type = "permissionRequest" /\ a.turn = st.activeTurn.id
  <2>1. a.request \in Request
    BY <1>6, ActionKinds DEF TurnEnd
  <2> QED BY <1>2, <1>6, <2>1, ReduceRequest, RequestPermissionType
<1>7. CASE a.type = "permissionResolved" /\ a.turn = st.activeTurn.id
  <2>1. a.request \in Request /\ a.approved \in BOOLEAN
    BY <1>7, ActionKinds DEF TurnEnd
  <2> QED BY <1>2, <1>7, <2>1, ReduceResolved, ResolvePermissionType
<1>8. CASE a.type \in ToolActionType /\ a.turn = st.activeTurn.id
  BY <1>8, ReduceTool
<1> QED BY <1>3, <1>4, <1>5, <1>6, <1>7, <1>8, ActionKinds DEF ToolActionType

LEMMA PairFinite ==
  ASSUME NEW t, NEW P, IsFiniteSet(P)
  PROVE  IsFiniteSet([turn : {t}, request : P])
<1> DEFINE T == [turn : {t}, request : P]
           f == [r \in P |-> [turn |-> t, request |-> r]]
<1>1. f \in Surjection(P, T)
  <2>1. f \in [P -> T]
    OBVIOUS
  <2>2. ASSUME NEW x \in T
        PROVE  \E r \in P : f[r] = x
    <3>1. x.request \in P /\ x = [turn |-> t, request |-> x.request]
      OBVIOUS
    <3> QED BY <3>1
  <2> QED BY <2>1, <2>2 DEF Surjection
<1> HIDE DEF T, f
<1>2. IsFiniteSet(T)
  BY <1>1, FS_Surjection
<1> QED BY <1>2 DEF T

\* What a window dispatches.
LEMMA DispatchedType ==
  ASSUME TypeInv, (\E t \in Turn : StartTurn(t)) \/ CancelTurn \/ AnswerSome
  PROVE  /\ \E q \in Seq(OwnAction) : Dispatch(q)
         /\ UNCHANGED <<session, routed, waiting, sdk, pipe, confirmed, toWindow>>
         /\ \/ \E t \in Turn \ usedTurns :
                 /\ running = NoTurn /\ running' = t /\ shown' = {}
                 /\ usedTurns' = usedTurns \cup {t} /\ prompts' = prompts
                 /\ \E a \in OwnAction :
                      a.type = "turnStarted" /\ a.turn = t /\ Dispatch(<<a>>)
            \/ /\ running \in Turn /\ running' = NoTurn /\ UNCHANGED <<shown, usedTurns>>
               /\ prompts' \subseteq prompts
               /\ \E a \in OwnAction, q \in Seq(OwnAction) :
                    /\ a.type = "turnCancelled" /\ a.turn = running /\ Dispatch(<<a>> \o q)
                    /\ \A i \in 1..Len(q) : \E p \in prompts :
                         p.turn = running /\ q[i] = Resolved(p, FALSE)
            \/ /\ UNCHANGED <<running, shown, usedTurns>>
               /\ \E p \in prompts, approved \in BOOLEAN :
                    /\ prompts' = prompts \ {p}
                    /\ Resolved(p, approved) \in OwnAction /\ Dispatch(<<Resolved(p, approved)>>)
<1> USE DEF TypeInv, TypeOK, QueueTypes, AllFinite
<1>1. CASE \E t \in Turn : StartTurn(t)
  <2>1. PICK t \in Turn : StartTurn(t)
    BY <1>1
  <2> DEFINE a == [type |-> "turnStarted", turn |-> t]
  <2>2. a \in OwnAction /\ a.type = "turnStarted" /\ a.turn = t
    BY DEF OwnAction, OwnType, Action, TurnAction
  <2>3. Dispatch(<<a>>)
    BY <2>1, Zenon DEF StartTurn
  <2>4. /\ running = NoTurn /\ t \notin usedTurns /\ running' = t /\ shown' = {}
        /\ usedTurns' = usedTurns \cup {t} /\ prompts' = prompts
        /\ UNCHANGED <<session, routed, waiting, sdk, pipe, confirmed, toWindow>>
    BY <2>1 DEF StartTurn, server
  <2> HIDE DEF a
  <2>5. <<a>> \in Seq(OwnAction)
    BY <2>2
  <2>6. t \in Turn \ usedTurns
    BY <2>4
  <2> QED BY <2>2, <2>3, <2>4, <2>5, <2>6, Zenon
<1>2. CASE CancelTurn
  <2> DEFINE ps     == {p \in prompts : p.turn = running}
             open   == SetToSeq(ps)
             denied == [i \in DOMAIN open |-> Resolved(open[i], FALSE)]
             a      == [type |-> "turnCancelled", turn |-> running]
  <2>1. /\ prompts' = prompts \ ToSet(open)
        /\ running \in Turn /\ running' = NoTurn
        /\ UNCHANGED <<session, routed, waiting, sdk, pipe, confirmed, shown, usedTurns, toWindow>>
    BY <1>2 DEF CancelTurn, server
  <2>2. Dispatch(<<a>> \o denied)
    BY <1>2, Zenon DEF CancelTurn
  <2>3. IsFiniteSet(ps)
    BY FS_Subset
  <2>4. open \in Seq(ps) /\ Len(open) \in Nat /\ DOMAIN open = 1..Len(open)
    BY <2>3, SetToSeqLists
  <2>5. a \in OwnAction /\ a.type = "turnCancelled" /\ a.turn = running
    BY <2>1 DEF OwnAction, OwnType, Action, TurnAction
  <2>6. \A p \in ps : Resolved(p, FALSE) \in OwnAction
    BY DEF Resolved, OwnAction, OwnType, Action, PermissionAction
  <2> HIDE DEF open, a
  <2>7. \A i \in 1..Len(open) : open[i] \in ps /\ denied[i] = Resolved(open[i], FALSE)
    BY <2>4
  <2>8. denied \in Seq(OwnAction) /\ Len(denied) = Len(open)
    <3>1. DOMAIN denied = 1..Len(open)
      BY <2>4
    <3>2. \A i \in 1..Len(open) : denied[i] \in OwnAction
      BY <2>6, <2>7
    <3>3. denied = [i \in 1..Len(open) |-> denied[i]]
      BY <2>4
    <3> HIDE DEF denied
    <3> QED BY <2>4, <3>2, <3>3, IsSequence
  <2> HIDE DEF denied
  <2>9. \A i \in 1..Len(denied) : \E p \in prompts : p.turn = running /\ denied[i] = Resolved(p, FALSE)
    BY <2>7, <2>8
  <2>10. <<a>> \o denied \in Seq(OwnAction)
    BY <2>5, <2>8
  <2> HIDE DEF ps
  <2>11. prompts' \subseteq prompts
    BY <2>1
  <2> QED BY <2>1, <2>2, <2>5, <2>8, <2>9, <2>10, <2>11, Zenon
<1>3. CASE AnswerSome
  <2>1. PICK p \in prompts, approved \in BOOLEAN : AnswerPrompt(p, approved)
    BY <1>3 DEF AnswerSome
  <2>2. Resolved(p, approved) \in OwnAction
    BY DEF Resolved, OwnAction, OwnType, Action, PermissionAction
  <2>3. <<Resolved(p, approved)>> \in Seq(OwnAction)
    BY <2>2
  <2>4. /\ prompts' = prompts \ {p} /\ Dispatch(<<Resolved(p, approved)>>)
        /\ UNCHANGED <<session, routed, waiting, sdk, pipe, confirmed, running, shown, usedTurns, toWindow>>
    BY <2>1, Zenon DEF AnswerPrompt, server
  <2> QED BY <2>2, <2>3, <2>4, Zenon
<1> QED BY <1>1, <1>2, <1>3

----------------------------------------------------------------------------
(* The actions a window has pending are those whose echoes are on their    *)
(* way to it, followed by those on their way to the server.  c[i] is the   *)
(* number of echoes among the first i envelopes.                           *)

Echoed(c, w, p, s) ==
  /\ c[0] = 0
  /\ \A i \in Nat : i <= Len(w) => c[i] \in Nat /\ c[i] <= c[Len(w)]
  /\ \A i \in Nat : i < Len(w) =>
       IF w[i + 1].own
       THEN c[i + 1] = c[i] + 1 /\ p[c[i] + 1] = w[i + 1].action
       ELSE c[i + 1] = c[i]
  /\ Len(p) = c[Len(w)] + Len(s)
  /\ \A j \in 1..Len(s) : p[c[Len(w)] + j] = s[j]

Echoes(w, p, s) == \E c : Echoed(c, w, p, s)
EchoInv == Echoes(toWindow, pending, toServer)

LEMMA EchoHead ==
  ASSUME NEW w \in Seq(Envelope), NEW p \in Seq(OwnAction), NEW s \in Seq(OwnAction),
         Echoes(w, p, s), w # <<>>, Head(w).own
  PROVE  p # <<>> /\ Head(p) = Head(w).action
<1>1. PICK c : Echoed(c, w, p, s)
  BY DEF Echoes
<1>2. /\ Len(w) \in Nat \ {0} /\ Head(w) = w[1]
      /\ Len(s) \in Nat /\ Len(p) \in Nat
      /\ p \in Seq(OwnAction)
  BY HeadAndTail
<1>3. c[0] = 0 /\ c[0 + 1] = c[0] + 1 /\ p[c[0] + 1] = w[0 + 1].action
  BY <1>1, <1>2 DEF Echoed
<1>4. c[1] = 1 /\ c[1] <= c[Len(w)] /\ c[Len(w)] \in Nat
  BY <1>1, <1>2, <1>3 DEF Echoed
<1>5. Len(p) >= 1
  BY <1>1, <1>2, <1>4 DEF Echoed
<1> QED BY <1>2, <1>3, <1>5

LEMMA EchoOfDispatch ==
  ASSUME NEW w \in Seq(Envelope), NEW p \in Seq(OwnAction), NEW s \in Seq(OwnAction),
         Echoes(w, p, s), NEW q \in Seq(OwnAction)
  PROVE  Echoes(w, p \o q, s \o q)
<1>1. PICK c : Echoed(c, w, p, s)
  BY DEF Echoes
<1> DEFINE p2 == p \o q
           s2 == s \o q
           n  == c[Len(w)]
           L  == Len(w)
<1>2. /\ L \in Nat /\ Len(s) \in Nat /\ Len(p) \in Nat /\ Len(q) \in Nat
      /\ Len(p2) = Len(p) + Len(q) /\ Len(s2) = Len(s) + Len(q)
      /\ \A i \in 1..Len(p) : p2[i] = p[i]
      /\ \A i \in 1..Len(q) : p2[Len(p) + i] = q[i]
      /\ \A i \in 1..Len(s) : s2[i] = s[i]
      /\ \A i \in 1..Len(q) : s2[Len(s) + i] = q[i]
  BY Concatenated
<1> HIDE DEF p2, s2
<1>3. /\ \A i \in Nat : i <= L => c[i] \in Nat /\ c[i] <= n
      /\ \A i \in Nat : i < L =>
           IF w[i + 1].own
           THEN c[i + 1] = c[i] + 1 /\ p[c[i] + 1] = w[i + 1].action
           ELSE c[i + 1] = c[i]
      /\ Len(p) = n + Len(s)
      /\ \A i \in 1..Len(s) : p[n + i] = s[i]
  BY <1>1 DEF Echoed
<1>4. n \in Nat
  BY <1>2, <1>3
<1> HIDE DEF n, L
<1>5. ASSUME NEW i \in Nat, i < L, w[i + 1].own
      PROVE  p2[c[i] + 1] = w[i + 1].action
  <2>1. c[i + 1] = c[i] + 1 /\ p[c[i] + 1] = w[i + 1].action
    BY <1>3, <1>5
  <2>2. c[i] \in Nat /\ c[i + 1] <= n
    BY <1>2, <1>3, <1>5
  <2>3. c[i] + 1 \in 1..Len(p)
    BY <1>2, <1>3, <1>4, <2>1, <2>2
  <2> QED BY <1>2, <2>1, <2>3
<1>6. ASSUME NEW j \in 1..Len(s2)
      PROVE  p2[n + j] = s2[j]
  <2>1. CASE j <= Len(s)
    <3>1. n + j \in 1..Len(p) /\ j \in 1..Len(s)
      BY <1>2, <1>3, <1>4, <2>1
    <3> QED BY <1>2, <1>3, <3>1
  <2>2. CASE j > Len(s)
    <3>1. PICK k \in 1..Len(q) : j = Len(s) + k
      <4>1. j - Len(s) \in 1..Len(q) /\ j = Len(s) + (j - Len(s))
        BY <1>2, <2>2
      <4> QED BY <4>1
    <3>2. n + j = Len(p) + k
      BY <1>2, <1>3, <1>4, <3>1
    <3> QED BY <1>2, <3>1, <3>2
  <2> QED BY <1>2, <2>1, <2>2
<1>7. Len(p2) = n + Len(s2)
  BY <1>2, <1>3, <1>4
<1>8. Echoed(c, w, p2, s2)
  BY <1>1, <1>3, <1>5, <1>6, <1>7 DEF Echoed, n, L
<1> QED BY <1>8 DEF Echoes, p2, s2

\* The envelopes grow by one that echoes the head of what the server has to
\* read, or by some that echo nothing.
LEMMA EchoOfServer ==
  ASSUME NEW w \in Seq(Envelope), NEW p \in Seq(OwnAction), NEW s \in Seq(OwnAction),
         Echoes(w, p, s), s # <<>>
  PROVE  Echoes(w \o Envelopes(<<Head(s)>>, TRUE), p, Tail(s))
<1>1. PICK c : Echoed(c, w, p, s)
  BY DEF Echoes
<1> DEFINE L == Len(w)
           n == c[L]
           a == Head(s)
           s2 == Tail(s)
           ms == Envelopes(<<a>>, TRUE)
           w2 == w \o ms
           e == [i \in 0..(L + 1) |-> IF i = L + 1 THEN n + 1 ELSE c[i]]
<1>2. /\ L \in Nat /\ Len(s) \in Nat \ {0} /\ Len(s2) + 1 = Len(s) /\ Len(s2) \in Nat
      /\ Len(p) \in Nat /\ a \in OwnAction /\ a = s[1]
      /\ \A j \in 1..Len(s2) : j + 1 \in 1..Len(s) /\ s2[j] = s[j + 1]
  BY HeadAndTail
<1>3. /\ c[0] = 0
      /\ \A i \in Nat : i <= L => c[i] \in Nat /\ c[i] <= n
      /\ \A i \in Nat : i < L =>
           IF w[i + 1].own
           THEN c[i + 1] = c[i] + 1 /\ p[c[i] + 1] = w[i + 1].action
           ELSE c[i + 1] = c[i]
      /\ Len(p) = n + Len(s)
      /\ \A j \in 1..Len(s) : p[n + j] = s[j]
  BY <1>1 DEF Echoed
<1>4. n \in Nat
  BY <1>2, <1>3
<1> HIDE DEF n, a, s2, ms
<1>5. ms \in Seq(Envelope) /\ Len(ms) = 1 /\ ms[1].own = TRUE /\ ms[1].action = a
  BY <1>2, EnvelopeOfOne DEF ms
<1>6. /\ Len(w2) = L + 1
      /\ \A i \in 1..L : w2[i] = w[i]
      /\ w2[L + 1] = ms[1]
  <2>1. 1 \in 1..Len(ms)
    BY <1>5
  <2>2. /\ Len(w2) = L + Len(ms)
        /\ \A i \in 1..L : w2[i] = w[i]
        /\ \A i \in 1..Len(ms) : w2[L + i] = ms[i]
    <3>1. w \in Seq(Envelope) /\ ms \in Seq(Envelope)
      BY <1>5
    <3> HIDE DEF L, w2
    <3>2. Len(w2) = L + Len(ms)
      BY <3>1, Concatenated DEF w2, L
    <3>3. \A i \in 1..L : w2[i] = w[i]
      BY <3>1, Concatenated DEF w2, L
    <3>4. \A i \in 1..Len(ms) : w2[L + i] = ms[i]
      BY <3>1, Concatenated DEF w2, L
    <3> QED BY <3>2, <3>3, <3>4
  <2> QED BY <1>5, <2>1, <2>2
<1>7. \A i \in Nat : i < L => i + 1 \in 1..L
  BY <1>2
<1> HIDE DEF L, w2
<1>8. /\ e[0] = 0 /\ e[L + 1] = n + 1
      /\ \A i \in Nat : i <= L => e[i] = c[i]
  <2>1. 0 \in 0..(L + 1) /\ 0 # L + 1 /\ L + 1 \in 0..(L + 1)
    BY <1>2
  <2>2. \A i \in Nat : i <= L => i \in 0..(L + 1) /\ i # L + 1
    BY <1>2
  <2> QED BY <1>3, <2>1, <2>2
<1> HIDE DEF e
<1>9. ASSUME NEW i \in Nat, i <= L + 1
      PROVE  e[i] \in Nat /\ e[i] <= e[L + 1]
  <2>1. CASE i <= L
    BY <1>3, <1>4, <1>8, <2>1
  <2>2. CASE i = L + 1
    BY <1>4, <1>8, <2>2
  <2> QED BY <1>2, <1>9, <2>1, <2>2
<1>10. ASSUME NEW i \in Nat, i < L + 1
       PROVE  IF w2[i + 1].own
              THEN e[i + 1] = e[i] + 1 /\ p[e[i] + 1] = w2[i + 1].action
              ELSE e[i + 1] = e[i]
  <2>1. CASE i < L
    <3>1. e[i] = c[i] /\ e[i + 1] = c[i + 1] /\ w2[i + 1] = w[i + 1]
      BY <1>2, <1>6, <1>7, <1>8, <2>1
    <3> QED BY <1>3, <2>1, <3>1
  <2>2. CASE i = L
    <3>1. p[n + 1] = a
      BY <1>2, <1>3
    <3>2. e[i] = n /\ e[i + 1] = n + 1 /\ w2[i + 1] = ms[1]
      BY <1>2, <1>6, <1>8, <2>2 DEF n
    <3> QED BY <1>5, <3>1, <3>2
  <2> QED BY <1>2, <1>10, <2>1, <2>2
<1>11. ASSUME NEW j \in 1..Len(s2)
       PROVE  p[e[L + 1] + j] = s2[j]
  <2>1. e[L + 1] + j = n + (j + 1)
    BY <1>2, <1>4, <1>8
  <2>2. p[n + (j + 1)] = s[j + 1] /\ s2[j] = s[j + 1]
    BY <1>2, <1>3
  <2> QED BY <2>1, <2>2
<1>12. Len(p) = e[L + 1] + Len(s2)
  <2>1. e[L + 1] = n + 1 /\ Len(p) = n + (Len(s2) + 1)
    BY <1>2, <1>3, <1>8
  <2>2. Len(s2) \in Nat
    BY <1>2
  <2>3. \A x, y \in Nat : x + (y + 1) = (x + 1) + y
    OBVIOUS
  <2> QED BY <1>4, <2>1, <2>2, <2>3
<1>13. Echoed(e, w2, p, s2)
  BY <1>6, <1>8, <1>9, <1>10, <1>11, <1>12 DEF Echoed
<1> QED BY <1>13 DEF Echoes, w2, ms, a, s2

LEMMA EchoOfAgent ==
  ASSUME NEW w \in Seq(Envelope), NEW p \in Seq(OwnAction), NEW s \in Seq(OwnAction),
         Echoes(w, p, s), NEW q \in Seq(AgentAction)
  PROVE  Echoes(w \o Envelopes(q, FALSE), p, s)
<1>1. PICK c : Echoed(c, w, p, s)
  BY DEF Echoes
<1> DEFINE L == Len(w)
           n == c[L]
           ms == Envelopes(q, FALSE)
           M == Len(ms)
           w2 == w \o ms
           e == [i \in 0..(L + M) |-> IF i <= L THEN c[i] ELSE n]
<1>2. /\ ms \in Seq(Envelope) /\ \A i \in DOMAIN ms : ms[i].own = FALSE
      /\ L \in Nat /\ M \in Nat /\ DOMAIN ms = 1..M
  <2>1. ms \in Seq(Envelope) /\ Len(ms) = Len(q) /\ \A i \in DOMAIN q : ms[i].own = FALSE
    BY EnvelopesType
  <2> HIDE DEF ms
  <2> QED BY <2>1
<1>3. /\ c[0] = 0
      /\ \A i \in Nat : i <= L => c[i] \in Nat /\ c[i] <= n
      /\ \A i \in Nat : i < L =>
           IF w[i + 1].own
           THEN c[i + 1] = c[i] + 1 /\ p[c[i] + 1] = w[i + 1].action
           ELSE c[i + 1] = c[i]
      /\ Len(p) = n + Len(s)
      /\ \A j \in 1..Len(s) : p[n + j] = s[j]
  BY <1>1 DEF Echoed
<1>4. n \in Nat
  BY <1>2, <1>3
<1> HIDE DEF n, ms
<1>5. /\ Len(w2) = L + M
      /\ \A i \in 1..L : w2[i] = w[i]
      /\ \A j \in 1..M : w2[L + j] = ms[j]
  BY <1>2, Concatenated
<1> HIDE DEF L, M, w2
<1>6. /\ e[0] = 0 /\ e[L + M] = n
      /\ \A i \in Nat : i <= L => e[i] = c[i]
      /\ \A i \in Nat : L <= i /\ i <= L + M => e[i] = n
  <2>1. \A i \in Nat : i <= L => i \in 0..(L + M)
    BY <1>2
  <2>2. \A i \in Nat : L <= i /\ i <= L + M => i \in 0..(L + M) /\ (i <= L => i = L)
    BY <1>2
  <2>3. \A i \in Nat : i <= L => e[i] = c[i]
    BY <2>1
  <2>4. \A i \in Nat : L <= i /\ i <= L + M => e[i] = n
    BY <2>2 DEF n
  <2>5. L + M \in Nat /\ L <= L + M
    BY <1>2
  <2> HIDE DEF e
  <2> QED BY <1>2, <1>3, <2>3, <2>4, <2>5
<1> HIDE DEF e
<1>7. ASSUME NEW i \in Nat, i <= L + M
      PROVE  e[i] \in Nat /\ e[i] <= e[L + M]
  <2>1. CASE i <= L
    BY <1>3, <1>4, <1>6, <2>1
  <2>2. CASE L <= i
    BY <1>4, <1>6, <1>7, <2>2
  <2> QED BY <1>2, <2>1, <2>2
<1>8. ASSUME NEW i \in Nat, i < L + M
      PROVE  IF w2[i + 1].own
             THEN e[i + 1] = e[i] + 1 /\ p[e[i] + 1] = w2[i + 1].action
             ELSE e[i + 1] = e[i]
  <2>1. CASE i < L
    <3>1. i + 1 \in 1..L /\ i + 1 \in Nat /\ i + 1 <= L /\ i <= L
      BY <1>2, <2>1
    <3>2. e[i] = c[i] /\ e[i + 1] = c[i + 1] /\ w2[i + 1] = w[i + 1]
      BY <1>5, <1>6, <3>1
    <3> QED BY <1>3, <2>1, <3>2
  <2>2. CASE L <= i
    <3>1. PICK j \in 1..M : L + j = i + 1
      <4>1. (i + 1) - L \in 1..M /\ L + ((i + 1) - L) = i + 1
        BY <1>2, <1>8, <2>2
      <4> QED BY <4>1
    <3>2. w2[i + 1].own = FALSE
      <4>1. w2[i + 1] = ms[j]
        BY <1>5, <3>1
      <4>2. ms[j].own = FALSE
        BY <1>2
      <4> QED BY <4>1, <4>2
    <3>3. e[i] = n /\ e[i + 1] = n
      BY <1>2, <1>6, <1>8, <2>2
    <3> QED BY <3>2, <3>3
  <2> QED BY <1>2, <2>1, <2>2
<1>9. Echoed(e, w2, p, s)
  BY <1>3, <1>5, <1>6, <1>7, <1>8 DEF Echoed
<1> QED BY <1>9 DEF Echoes, w2, ms

LEMMA EchoOfWindow ==
  ASSUME NEW w \in Seq(Envelope), NEW p \in Seq(OwnAction), NEW s \in Seq(OwnAction),
         Echoes(w, p, s), w # <<>>
  PROVE  Echoes(Tail(w), IF Head(w).own THEN Tail(p) ELSE p, s)
<1>1. PICK c : Echoed(c, w, p, s)
  BY DEF Echoes
<1> DEFINE w2 == Tail(w)
           p2 == IF Head(w).own THEN Tail(p) ELSE p
           L == Len(w2)
           m == Head(w)
           n == c[L + 1]
           d == c[1]
           e == [i \in 0..L |-> c[i + 1] - d]
<1>2. /\ L \in Nat /\ Len(w) = L + 1 /\ m = w[1]
      /\ \A i \in 1..L : w2[i] = w[i + 1]
      /\ Len(s) \in Nat /\ Len(p) \in Nat
  <2>1. Len(w2) \in Nat /\ DOMAIN w2 = 1..Len(w2) /\ Len(w) \in Nat
    BY HeadAndTail
  <2> HIDE DEF w2, m
  <2> QED BY <2>1, HeadAndTail DEF w2, m
<1>3. p # <<>> => /\ Len(Tail(p)) + 1 = Len(p) /\ Len(Tail(p)) \in Nat
                  /\ \A i \in 1..Len(Tail(p)) : Tail(p)[i] = p[i + 1]
  OBVIOUS
<1>4. p = <<>> => Len(p) = 0
  OBVIOUS
<1> HIDE DEF m, w2
<1>5. /\ c[0] = 0
      /\ \A i \in Nat : i <= L + 1 => c[i] \in Nat /\ c[i] <= n
      /\ \A i \in Nat : i < L + 1 =>
           IF w[i + 1].own
           THEN c[i + 1] = c[i] + 1 /\ p[c[i] + 1] = w[i + 1].action
           ELSE c[i + 1] = c[i]
      /\ Len(p) = n + Len(s)
      /\ \A j \in 1..Len(s) : p[n + j] = s[j]
  BY <1>1, <1>2 DEF Echoed
<1> HIDE DEF L
<1>6. d \in Nat /\ n \in Nat /\ d <= n /\ d = IF m.own THEN 1 ELSE 0
  <2>1. IF w[0 + 1].own THEN c[0 + 1] = c[0] + 1 ELSE c[0 + 1] = c[0]
    BY <1>2, <1>5
  <2>2. 0 + 1 = 1
    OBVIOUS
  <2>3. IF w[1].own THEN d = 1 ELSE d = 0
    BY <1>5, <2>1, <2>2
  <2>4. 1 \in Nat /\ 1 <= L + 1 /\ L + 1 \in Nat /\ L + 1 <= L + 1
    BY <1>2
  <2> QED BY <1>2, <1>5, <2>3, <2>4
<1> HIDE DEF n, d
<1>7. /\ Len(p2) + d = Len(p) /\ Len(p2) \in Nat
      /\ \A i \in 1..Len(p2) : p2[i] = p[i + d]
  <2>1. CASE m.own
    <3>1. p # <<>> /\ p2 = Tail(p) /\ d = 1
      BY <1>2, <1>4, <1>5, <1>6, <2>1 DEF m
    <3> HIDE DEF p2
    <3> QED BY <1>3, <3>1
  <2>2. CASE ~m.own
    <3>1. d = 0 /\ p2 = p
      BY <1>6, <2>2 DEF m
    <3>2. \A i \in 1..Len(p) : i + 0 = i
      OBVIOUS
    <3> HIDE DEF p2
    <3> QED BY <1>2, <3>1, <3>2
  <2> QED BY <2>1, <2>2
<1> HIDE DEF p2
<1>8. ASSUME NEW i \in Nat, i <= L
      PROVE  d <= c[i + 1] /\ c[i + 1] \in Nat /\ c[i + 1] <= n
  <2> DEFINE N == {k \in Nat : k <= L => d <= c[k + 1]}
  <2>1. 0 \in N
    <3>1. c[0 + 1] = d /\ d <= d
      BY <1>6 DEF d
    <3> QED BY <3>1
  <2>2. ASSUME NEW k \in N
        PROVE  k + 1 \in N
    <3>1. ASSUME k + 1 <= L
          PROVE  d <= c[(k + 1) + 1]
      <4>1. d <= c[k + 1] /\ k + 1 < L + 1 /\ k + 1 <= L + 1 /\ k + 1 \in Nat
        BY <1>2, <3>1
      <4>2. c[(k + 1) + 1] = c[k + 1] + 1 \/ c[(k + 1) + 1] = c[k + 1]
        BY <1>5, <4>1
      <4>3. c[k + 1] \in Nat
        BY <1>5, <4>1
      <4> QED BY <1>6, <4>1, <4>2, <4>3
    <3> QED BY <3>1
  <2> HIDE DEF N
  <2>3. \A k \in Nat : k \in N
    BY <2>1, <2>2, SetInduction
  <2>4. d <= c[i + 1]
    BY <1>8, <2>3 DEF N
  <2>5. i + 1 \in Nat /\ i + 1 <= L + 1
    BY <1>2, <1>8
  <2> QED BY <1>5, <2>4, <2>5
<1>9. ASSUME NEW i \in Nat, i <= L
      PROVE  e[i] + d = c[i + 1] /\ e[i] \in Nat /\ e[i] + d <= n
  <2>1. e[i] = c[i + 1] - d
    BY <1>2, <1>9
  <2> HIDE DEF e
  <2> QED BY <1>6, <1>8, <1>9, <2>1
<1>10. e[0] = 0 /\ e[L] + d = n /\ e[L] \in Nat
  <2>1. e[0] = c[0 + 1] - d /\ 0 \in Nat /\ 0 <= L
    BY <1>2
  <2>2. e[L] + d = c[L + 1] /\ e[L] \in Nat
    BY <1>2, <1>9
  <2>3. c[0 + 1] = d
    BY DEF d
  <2> HIDE DEF e
  <2> QED BY <1>6, <2>1, <2>2, <2>3 DEF n
<1> HIDE DEF e
<1>11. ASSUME NEW i \in Nat, i <= L
       PROVE  e[i] \in Nat /\ e[i] <= e[L]
  BY <1>6, <1>9, <1>10, <1>11
<1>12. Len(p2) = e[L] + Len(s)
  BY <1>2, <1>5, <1>6, <1>7, <1>10
<1>13. ASSUME NEW i \in Nat, i < L
       PROVE  IF w2[i + 1].own
              THEN e[i + 1] = e[i] + 1 /\ p2[e[i] + 1] = w2[i + 1].action
              ELSE e[i + 1] = e[i]
  <2>1. /\ i <= L /\ i + 1 \in Nat /\ i + 1 <= L /\ i + 1 < L + 1 /\ i + 1 \in 1..L
    BY <1>2, <1>13
  <2>2. /\ e[i] + d = c[i + 1] /\ e[i] \in Nat
        /\ e[i + 1] + d = c[(i + 1) + 1] /\ e[i + 1] \in Nat /\ e[i + 1] <= e[L]
    BY <1>9, <1>11, <2>1
  <2>3. w2[i + 1] = w[(i + 1) + 1]
    BY <1>2, <2>1
  <2>4. IF w2[i + 1].own
        THEN c[(i + 1) + 1] = c[i + 1] + 1 /\ p[c[i + 1] + 1] = w2[i + 1].action
        ELSE c[(i + 1) + 1] = c[i + 1]
    BY <1>5, <2>1, <2>3
  <2>5. CASE w2[i + 1].own
    <3>1. e[i + 1] = e[i] + 1 /\ (e[i] + 1) + d = c[i + 1] + 1
      BY <1>6, <2>2, <2>4, <2>5
    <3>2. e[i] + 1 \in 1..Len(p2)
      BY <1>2, <1>10, <1>12, <2>2, <3>1
    <3>3. p2[e[i] + 1] = p[c[i + 1] + 1]
      BY <1>7, <3>1, <3>2
    <3> QED BY <2>4, <2>5, <3>1, <3>3
  <2>6. CASE ~w2[i + 1].own
    BY <1>6, <2>2, <2>4, <2>6
  <2> QED BY <2>5, <2>6
<1>14. ASSUME NEW j \in 1..Len(s)
       PROVE  p2[e[L] + j] = s[j]
  <2>1. (e[L] + j) + d = n + j
    <3>1. j \in Nat /\ d \in Nat /\ e[L] \in Nat /\ e[L] + d = n
      BY <1>2, <1>6, <1>10
    <3>2. \A x, y, z \in Nat : (x + y) + z = (x + z) + y
      OBVIOUS
    <3> QED BY <3>1, <3>2
  <2>3. e[L] + j \in 1..Len(p2)
    BY <1>2, <1>10, <1>12
  <2>2. p2[e[L] + j] = p[n + j]
    BY <1>7, <2>1, <2>3
  <2> QED BY <1>5, <2>2
<1>15. Echoed(e, w2, p2, s)
  BY <1>10, <1>11, <1>12, <1>13, <1>14 DEF Echoed, L
<1> QED BY <1>15 DEF Echoes, w2, p2

----------------------------------------------------------------------------
(* What a window does with an envelope.  Seen is the turn it shows. *)

Seen == Optimistic(confirmed, pending).activeTurn

LEMMA SeenType == ASSUME TypeInv PROVE Seen \in ActiveTurn
<1>1. confirmed \in SessionState /\ pending \in Seq(OwnAction)
  BY DEF TypeInv, TypeOK, QueueTypes
<1> QED BY <1>1, OptimisticType DEF Seen, SessionState

LEMMA ReceiveEffect ==
  ASSUME TypeInv, EchoInv, ReceiveEnvelope
  PROVE  /\ toWindow # <<>>
         /\ Head(toWindow) \in Envelope /\ Head(toWindow).action \in Action
         /\ toWindow' = Tail(toWindow) /\ toWindow' \in Seq(Envelope)
         /\ confirmed' = Reduce(confirmed, Head(toWindow).action) /\ confirmed' \in SessionState
         /\ Head(toWindow).own =>
              pending # <<>> /\ Head(pending) = Head(toWindow).action /\ pending' = Tail(pending)
         /\ ~Head(toWindow).own => pending' = pending
         /\ pending' \in Seq(OwnAction)
         /\ Seen' \in ActiveTurn
         /\ \/ running = NoTurn /\ UNCHANGED <<running, prompts, shown>>
            \/ running # NoTurn /\ Seen'.id # running /\ running' = NoTurn /\ UNCHANGED <<prompts, shown>>
            \/ /\ running # NoTurn /\ Seen'.id = running /\ running' = running
               /\ prompts' = prompts \cup [turn : {running}, request : Seen'.pendingPermissions \ shown]
               /\ shown' = shown \cup Seen'.pendingPermissions
         /\ UNCHANGED <<session, routed, waiting, sdk, pipe, usedTurns, toServer>>
<1> DEFINE m == Head(toWindow)
<1>1. /\ toWindow # <<>> /\ toWindow \in Seq(Envelope) /\ toWindow' = Tail(toWindow)
      /\ confirmed \in SessionState /\ pending \in Seq(OwnAction) /\ toServer \in Seq(OwnAction)
  BY DEF ReceiveEnvelope, TypeInv, TypeOK, QueueTypes
<1>2. m \in Envelope /\ Tail(toWindow) \in Seq(Envelope) /\ m.action \in Action /\ m.own \in BOOLEAN
  BY <1>1, HeadAndTail, OwnTypes DEF Envelope
<1>3. confirmed' = Reduce(confirmed, m.action) /\ confirmed' \in SessionState
  BY <1>1, <1>2, ReduceType DEF ReceiveEnvelope
<1>4. pending' = IF m.own THEN Tail(pending) ELSE pending
  BY DEF ReceiveEnvelope
<1>5. m.own => pending # <<>> /\ Head(pending) = m.action
  BY <1>1, EchoHead DEF EchoInv
<1>6. pending' \in Seq(OwnAction)
  BY <1>1, <1>4, <1>5, HeadAndTail
<1>7. Seen' \in ActiveTurn
  <2>1. Optimistic(confirmed', pending') \in SessionState
    BY <1>3, <1>6, OptimisticType
  <2> QED BY <2>1 DEF Seen, SessionState
<1>8. \/ running = NoTurn /\ UNCHANGED <<running, prompts, shown>>
      \/ running # NoTurn /\ Seen'.id # running /\ running' = NoTurn /\ UNCHANGED <<prompts, shown>>
      \/ /\ running # NoTurn /\ Seen'.id = running /\ running' = running
         /\ prompts' = prompts \cup [turn : {running}, request : Seen'.pendingPermissions \ shown]
         /\ shown' = shown \cup Seen'.pendingPermissions
  BY Zenon DEF ReceiveEnvelope, Seen
<1>9. UNCHANGED <<session, routed, waiting, sdk, pipe, usedTurns, toServer>>
  BY DEF ReceiveEnvelope, server
<1> HIDE DEF m
<1>10. /\ m.own => pending # <<>> /\ Head(pending) = m.action /\ pending' = Tail(pending)
       /\ ~m.own => pending' = pending
  BY <1>4, <1>5
<1> QED BY <1>1, <1>2, <1>3, <1>6, <1>7, <1>8, <1>9, <1>10 DEF m

LEMMA ReceiveFinite ==
  ASSUME TypeInv, EchoInv, ReceiveEnvelope
  PROVE  IsFiniteSet(prompts') /\ IsFiniteSet(confirmed'.activeTurn.pendingPermissions)
<1>1. IsFiniteSet(prompts) /\ IsFiniteSet(confirmed.activeTurn.pendingPermissions)
  BY DEF TypeInv, AllFinite
<1>2. /\ confirmed \in SessionState /\ Head(toWindow).action \in Action
      /\ confirmed' = Reduce(confirmed, Head(toWindow).action) /\ confirmed' \in SessionState
      /\ pending' \in Seq(OwnAction)
  BY ReceiveEffect DEF TypeInv, TypeOK
<1>3. IsFiniteSet(confirmed'.activeTurn.pendingPermissions)
  <2>1. \/ confirmed'.activeTurn.pendingPermissions = {}
        \/ confirmed'.activeTurn.pendingPermissions \in SUBSET confirmed.activeTurn.pendingPermissions
        \/ confirmed'.activeTurn.pendingPermissions =
             confirmed.activeTurn.pendingPermissions \cup {Head(toWindow).action.request}
    BY <1>2, ReduceRequests
  <2> QED BY <1>1, <2>1, FS_EmptySet, FS_Subset, FS_AddElement
<1>4. IsFiniteSet(Seen'.pendingPermissions)
  <2>1. \/ Seen'.pendingPermissions = {}
        \/ Seen'.pendingPermissions \in SUBSET confirmed'.activeTurn.pendingPermissions
    BY <1>2, OptimisticRequests DEF Seen
  <2> QED BY <1>3, <2>1, FS_EmptySet, FS_Subset
<1>5. IsFiniteSet(Seen'.pendingPermissions \ shown)
  <2>1. (Seen'.pendingPermissions \ shown) \in SUBSET Seen'.pendingPermissions
    OBVIOUS
  <2> QED BY <1>4, <2>1, FS_Subset
<1>6. IsFiniteSet([turn : {running}, request : Seen'.pendingPermissions \ shown])
  BY <1>5, PairFinite
<1>7. IsFiniteSet(prompts \cup [turn : {running}, request : Seen'.pendingPermissions \ shown])
  BY <1>1, <1>6, FS_Union
<1>8. \/ prompts' = prompts
      \/ prompts' = prompts \cup [turn : {running}, request : Seen'.pendingPermissions \ shown]
  BY ReceiveEffect
<1> QED BY <1>1, <1>3, <1>7, <1>8

LEMMA EchoStep ==
  ASSUME TypeInv, EchoInv, [Next]_vars
  PROVE  EchoInv'
<1>1. /\ toWindow \in Seq(Envelope) /\ pending \in Seq(OwnAction) /\ toServer \in Seq(OwnAction)
      /\ session \in SessionState /\ events \in Seq(Event)
  BY DEF TypeInv, TypeOK, QueueTypes
<1>2. CASE HandleDispatchAction
  <2>1. /\ toServer # <<>> /\ toServer' = Tail(toServer) /\ pending' = pending
        /\ toWindow' = toWindow \o Envelopes(<<Head(toServer)>>, TRUE)
    BY <1>2 DEF HandleDispatchAction, Apply, Envelopes, window
  <2>2. Echoes(toWindow \o Envelopes(<<Head(toServer)>>, TRUE), pending, Tail(toServer))
    BY <1>1, <2>1, EchoOfServer DEF EchoInv
  <2> QED BY <2>1, <2>2 DEF EchoInv
<1>3. CASE HandleProgress
  <2>1. /\ toServer' = toServer /\ pending' = pending
        /\ toWindow' = toWindow \o Envelopes(Arriving, FALSE)
        /\ events # <<>> /\ Head(events).type # "sendFailed"
    BY <1>3 DEF HandleProgress, Apply, Arriving, Envelopes, window
  <2>2. Arriving \in Seq(AgentAction)
    BY <1>1, <2>1, ArrivingType
  <2>3. Echoes(toWindow \o Envelopes(Arriving, FALSE), pending, toServer)
    BY <1>1, <2>2, EchoOfAgent DEF EchoInv
  <2> QED BY <2>1, <2>3 DEF EchoInv
<1>4. CASE HandleSendFailed
  <2> DEFINE a == [type |-> "error", turn |-> Head(events).turn]
  <2>1. /\ toServer' = toServer /\ pending' = pending
        /\ toWindow' = toWindow \o Envelopes(<<a>>, FALSE)
        /\ events # <<>> /\ Head(events).type = "sendFailed"
    BY <1>4 DEF HandleSendFailed, Apply, Envelopes, window
  <2>2. a \in AgentAction
    BY <1>1, <2>1, HeadAndTail, EventKinds DEF AgentAction, OwnType, Action, TurnAction
  <2> HIDE DEF a
  <2>3. <<a>> \in Seq(AgentAction)
    BY <2>2
  <2>4. Echoes(toWindow \o Envelopes(<<a>>, FALSE), pending, toServer)
    BY <1>1, <2>3, EchoOfAgent DEF EchoInv
  <2> QED BY <2>1, <2>4 DEF EchoInv
<1>5. CASE Sdk
  BY <1>5 DEF Sdk, SdkSend, SdkAbort, SdkAnswer, SdkFinish, SdkToolStart, SdkToolComplete, SdkAsk,
     window, net, EchoInv
<1>6. CASE (\E t \in Turn : StartTurn(t)) \/ CancelTurn \/ AnswerSome
  <2>1. PICK q \in Seq(OwnAction) : Dispatch(q) /\ toWindow' = toWindow
    BY <1>6, DispatchedType
  <2>2. Echoes(toWindow, pending \o q, toServer \o q)
    BY <1>1, EchoOfDispatch DEF EchoInv
  <2> QED BY <2>1, <2>2 DEF Dispatch, EchoInv
<1>7. CASE ReceiveEnvelope
  <2>1. /\ toWindow # <<>> /\ toWindow' = Tail(toWindow) /\ toServer' = toServer
        /\ pending' = IF Head(toWindow).own THEN Tail(pending) ELSE pending
    BY <1>7 DEF ReceiveEnvelope
  <2>2. Echoes(Tail(toWindow), IF Head(toWindow).own THEN Tail(pending) ELSE pending, toServer)
    BY <1>1, <2>1, EchoOfWindow DEF EchoInv
  <2> QED BY <2>1, <2>2 DEF EchoInv
<1>8. CASE UNCHANGED vars
  BY <1>8 DEF vars, window, net, EchoInv
<1> QED BY <1>2, <1>3, <1>4, <1>5, <1>6, <1>7, <1>8 DEF Next

LEMMA TypeStep == TypeInv /\ EchoInv /\ [Next]_vars => TypeInv'
<1> SUFFICES ASSUME TypeInv, EchoInv, [Next]_vars PROVE TypeInv'
  OBVIOUS
<1> USE DEF TypeInv, TypeOK, QueueTypes, AllFinite
<1>1. CASE HandleDispatchAction
  <2> DEFINE a == Head(toServer)
  <2>1. a \in OwnAction /\ Tail(toServer) \in Seq(OwnAction) /\ toServer' = Tail(toServer)
    BY <1>1, HeadAndTail DEF HandleDispatchAction
  <2>2. session' \in SessionState /\ toWindow' \in Seq(Envelope)
    <3>1. <<a>> \in Seq(OwnAction)
      BY <2>1
    <3>2. Apply(<<a>>, TRUE)
      BY <1>1, Zenon DEF HandleDispatchAction
    <3> QED BY <3>1, <3>2, ApplyType
  <2>3. /\ commands' \in Seq(Command) /\ routed' \subseteq Request
        /\ waiting' \subseteq waiting /\ IsFiniteSet(waiting')
    BY <1>1, <2>1, SideEffectType DEF HandleDispatchAction
  <2>4. UNCHANGED <<sdk, events, window>>
    BY <1>1 DEF HandleDispatchAction
  <2>5. toServer' \in Seq(Action) /\ toWindow' \in Seq([action : Action, own : BOOLEAN])
    BY <2>1, <2>2, OwnTypes
  <2> HIDE DEF a
  <2> QED BY <2>1, <2>2, <2>3, <2>4, <2>5 DEF sdk, window
<1>2. CASE HandleProgress
  <2>1. /\ Head(events) \in Event /\ Tail(events) \in Seq(Event) /\ events' = Tail(events)
        /\ events # <<>> /\ Head(events).type # "sendFailed"
    BY <1>2, HeadAndTail DEF HandleProgress
  <2>2. session' \in SessionState /\ toWindow' \in Seq(Envelope)
    <3>1. Apply(Arriving, FALSE)
      BY <1>2 DEF HandleProgress, Arriving
    <3> QED BY <2>1, <3>1, ArrivingType, ApplyType
  <2>3. /\ waiting' \subseteq Request /\ routed' \subseteq Request /\ IsFiniteSet(waiting')
    <3>1. CASE Head(events).type = "permission_request"
      <4>1. /\ waiting' = waiting \cup {Head(events).request}
            /\ routed' = routed \cup {Head(events).request}
            /\ Head(events).request \in Request
        BY <1>2, <2>1, <3>1, EventKinds DEF HandleProgress
      <4> QED BY <4>1, FS_AddElement
    <3>2. CASE Head(events).type # "permission_request"
      BY <1>2, <3>2 DEF HandleProgress
    <3> QED BY <3>1, <3>2
  <2>4. UNCHANGED <<sdk, commands, window, toServer>>
    BY <1>2 DEF HandleProgress
  <2>5. toWindow' \in Seq([action : Action, own : BOOLEAN])
    BY <2>2, OwnTypes
  <2> QED BY <2>1, <2>2, <2>3, <2>4, <2>5 DEF sdk, window
<1>3. CASE HandleSendFailed
  <2> DEFINE a == [type |-> "error", turn |-> Head(events).turn]
  <2>1. /\ Head(events) \in Event /\ Tail(events) \in Seq(Event) /\ events' = Tail(events)
        /\ Head(events).turn \in Turn
    BY <1>3, HeadAndTail, EventKinds DEF HandleSendFailed
  <2>2. session' \in SessionState /\ toWindow' \in Seq(Envelope)
    <3>1. a \in AgentAction
      BY <2>1 DEF AgentAction, OwnType, Action, TurnAction
    <3>2. <<a>> \in Seq(AgentAction)
      BY <3>1
    <3>3. Apply(<<a>>, FALSE)
      BY <1>3, Zenon DEF HandleSendFailed
    <3> QED BY <3>2, <3>3, ApplyType
  <2>4. UNCHANGED <<routed, waiting, sdk, commands, window, toServer>>
    BY <1>3 DEF HandleSendFailed
  <2>5. toWindow' \in Seq([action : Action, own : BOOLEAN])
    BY <2>2, OwnTypes
  <2> HIDE DEF a
  <2> QED BY <2>1, <2>2, <2>4, <2>5 DEF sdk, window
<1>4. CASE Sdk
  <2>1. /\ commands' \in Seq(Command) /\ events' \in Seq(Event)
        /\ work' \in Turn \cup {NoTurn} /\ queue' \in Seq(Turn)
        /\ tools' \subseteq Tool /\ blocked' \subseteq Request
        /\ usedTools' \subseteq Tool /\ usedRequests' \subseteq Request
    <3> USE HeadAndTail DEF Notify, NextPrompt, Called, server, window, net
    <3>1. [type |-> "idle"] \in Event /\ [type |-> "error"] \in Event
      BY DEF Event
    <3>2. CASE SdkSend
      <4>1. Head(commands) \in Command /\ Tail(commands) \in Seq(Command) /\ Head(commands).call = "send"
        BY <3>2 DEF SdkSend
      <4>2. Head(commands).turn \in Turn
        BY <4>1 DEF Command
      <4>3. [type |-> "sendFailed", turn |-> Head(commands).turn] \in Event
        BY <4>2 DEF Event
      <4>4. Append(events, [type |-> "sendFailed", turn |-> Head(commands).turn]) \in Seq(Event)
        BY <4>3
      <4>5. Append(queue, Head(commands).turn) \in Seq(Turn)
        BY <4>2
      <4>6. Head(<<Head(commands).turn>>) = Head(commands).turn /\ Tail(<<Head(commands).turn>>) = <<>>
        OBVIOUS
      <4>7. /\ commands' = Tail(commands)
            /\ \/ /\ \/ work' = Head(commands).turn /\ queue' = <<>>
                     \/ queue' = Append(queue, Head(commands).turn) /\ work' = work
                  /\ events' = events
               \/ /\ events' = Append(events, [type |-> "sendFailed", turn |-> Head(commands).turn])
                  /\ work' = work /\ queue' = queue
            /\ UNCHANGED <<tools, blocked, usedTools, usedRequests>>
        BY <3>2, <4>6 DEF SdkSend
      <4>8. <<>> \in Seq(Turn)
        OBVIOUS
      <4>9. work' \in Turn \cup {NoTurn} /\ queue' \in Seq(Turn) /\ events' \in Seq(Event)
        <5> HIDE DEF Called, Notify, NextPrompt
        <5> QED BY <4>2, <4>4, <4>5, <4>7, <4>8
      <4> QED BY <4>1, <4>7, <4>9
    <3>3. CASE SdkAbort
      <4>1. Tail(commands) \in Seq(Command) /\ Append(events, [type |-> "idle"]) \in Seq(Event)
        BY <3>1, <3>3 DEF SdkAbort
      <4>2. queue # <<>> => Head(queue) \in Turn /\ Tail(queue) \in Seq(Turn)
        OBVIOUS
      <4> QED BY <3>3, <4>1, <4>2 DEF SdkAbort
    <3>4. CASE SdkAnswer
      BY <3>4 DEF SdkAnswer
    <3>5. CASE SdkFinish
      <4>1. Append(events, [type |-> "idle"]) \in Seq(Event) /\ Append(events, [type |-> "error"]) \in Seq(Event)
        BY <3>1
      <4>2. queue # <<>> => Head(queue) \in Turn /\ Tail(queue) \in Seq(Turn)
        OBVIOUS
      <4> QED BY <3>5, <4>1, <4>2 DEF SdkFinish
    <3>6. CASE \E k \in Tool : SdkToolStart(k)
      <4>1. PICK k \in Tool : SdkToolStart(k)
        BY <3>6
      <4>2. [type |-> "tool_start", tool |-> k] \in Event
        BY DEF Event
      <4> QED BY <4>1, <4>2 DEF SdkToolStart
    <3>7. CASE \E k \in Tool : SdkToolComplete(k)
      <4>1. PICK k \in Tool : SdkToolComplete(k)
        BY <3>7
      <4>2. [type |-> "tool_complete", tool |-> k] \in Event
        BY DEF Event
      <4> QED BY <4>1, <4>2 DEF SdkToolComplete
    <3>8. CASE \E r \in Request : SdkAsk(r)
      <4>1. PICK r \in Request : SdkAsk(r)
        BY <3>8
      <4>2. [type |-> "permission_request", request |-> r] \in Event
        BY DEF Event
      <4> QED BY <4>1, <4>2 DEF SdkAsk
    <3> QED BY <1>4, <3>2, <3>3, <3>4, <3>5, <3>6, <3>7, <3>8 DEF Sdk
  <2>2. UNCHANGED <<server, window, net>>
    BY <1>4 DEF Sdk, SdkSend, SdkAbort, SdkAnswer, SdkFinish, SdkToolStart, SdkToolComplete, SdkAsk
  <2> QED BY <2>1, <2>2 DEF server, window, net
<1>5. CASE (\E t \in Turn : StartTurn(t)) \/ CancelTurn \/ AnswerSome
  <2>1. PICK q \in Seq(OwnAction) : Dispatch(q)
    BY <1>5, DispatchedType
  <2>2. toServer' \in Seq(OwnAction) /\ pending' \in Seq(OwnAction)
    BY <2>1 DEF Dispatch
  <2>3. toServer' \in Seq(Action) /\ pending' \in Seq(Action)
    BY <2>2, OwnTypes
  <2>4. /\ running' \in Turn \cup {NoTurn} /\ usedTurns' \subseteq Turn
        /\ shown' \subseteq Request /\ prompts' \in SUBSET prompts
        /\ UNCHANGED <<session, routed, waiting, sdk, pipe, confirmed, toWindow>>
    BY <1>5, DispatchedType
  <2>5. IsFiniteSet(prompts')
    BY <2>4, FS_Subset
  <2> QED BY <2>2, <2>3, <2>4, <2>5 DEF sdk, pipe
<1>6. CASE ReceiveEnvelope
  <2>1. IsFiniteSet(prompts') /\ IsFiniteSet(confirmed'.activeTurn.pendingPermissions)
    BY <1>6, ReceiveFinite
  <2>2. pending' \in Seq(Action) /\ toWindow' \in Seq([action : Action, own : BOOLEAN])
    BY <1>6, ReceiveEffect, OwnTypes
  <2>3. /\ pending' \in Seq(OwnAction) /\ toWindow' \in Seq(Envelope) /\ confirmed' \in SessionState
        /\ UNCHANGED <<session, routed, waiting, sdk, pipe, usedTurns, toServer>>
        /\ running' \in Turn \cup {NoTurn}
    BY <1>6, ReceiveEffect
  <2>4. prompts' \subseteq [turn : Turn, request : Request] /\ shown' \subseteq Request
    <3>1. Seen'.pendingPermissions \subseteq Request
      BY <1>6, ReceiveEffect DEF ActiveTurn
    <3>2. running # NoTurn =>
            [turn : {running}, request : Seen'.pendingPermissions \ shown] \subseteq [turn : Turn, request : Request]
      BY <3>1
    <3>3. \/ UNCHANGED <<prompts, shown>>
          \/ /\ running # NoTurn
             /\ prompts' = prompts \cup [turn : {running}, request : Seen'.pendingPermissions \ shown]
             /\ shown' = shown \cup Seen'.pendingPermissions
      BY <1>6, ReceiveEffect
    <3> QED BY <3>1, <3>2, <3>3
  <2> QED BY <2>1, <2>2, <2>3, <2>4 DEF sdk, pipe
<1>9. CASE UNCHANGED vars
  BY <1>9 DEF vars, server, sdk, pipe, window, net
<1> QED BY <1>1, <1>2, <1>3, <1>4, <1>5, <1>6, <1>9 DEF Next

LEMMA TypeInit == Init => TypeInv /\ EchoInv
<1> SUFFICES ASSUME Init PROVE TypeInv /\ EchoInv
  OBVIOUS
<1>1. TypeInv
  <2>1. /\ EmptySession \in SessionState
        /\ EmptySession.activeTurn.pendingPermissions = {}
    BY EmptySessionType DEF EmptySession, NewTurn
  <2>2. /\ session = EmptySession /\ confirmed = EmptySession
        /\ routed = {} /\ waiting = {} /\ commands = <<>> /\ events = <<>>
        /\ work = NoTurn /\ queue = <<>> /\ tools = {} /\ blocked = {}
        /\ toServer = <<>> /\ toWindow = <<>> /\ pending = <<>>
        /\ running = NoTurn /\ prompts = {} /\ shown = {}
        /\ usedTurns = {} /\ usedTools = {} /\ usedRequests = {}
    BY DEF Init
  <2>3. AllFinite
    BY <2>1, <2>2, FS_EmptySet DEF AllFinite
  <2>4. TypeOK
    BY <2>1, <2>2 DEF TypeOK
  <2>5. QueueTypes
    BY <2>2 DEF QueueTypes
  <2> QED BY <2>3, <2>4, <2>5 DEF TypeInv
<1>2. EchoInv
  <2> DEFINE c == [i \in {0} |-> 0]
  <2>1. toWindow = <<>> /\ pending = <<>> /\ toServer = <<>>
    BY DEF Init
  <2>2. Len(<<>>) = 0 /\ c[0] = 0
    OBVIOUS
  <2> HIDE DEF c
  <2>3. \A i \in Nat : (i <= 0 => i = 0) /\ ~(i < 0)
    OBVIOUS
  <2>4. Echoed(c, <<>>, <<>>, <<>>)
    BY <2>2, <2>3 DEF Echoed
  <2> QED BY <2>1, <2>4 DEF EchoInv, Echoes
<1> QED BY <1>1, <1>2

LEMMA TypesHold == Spec => [](TypeInv /\ EchoInv)
<1>1. TypeInv /\ EchoInv /\ [Next]_vars => (TypeInv /\ EchoInv)'
  BY TypeStep, EchoStep
<1> QED BY TypeInit, <1>1, PTL DEF Spec

\* The variables keep the types of TypeOK, with every turn, tool call and
\* permission request an action, an event or a call refers to.
THEOREM TypeCorrect == Spec => []TypeOK
<1>1. TypeInv => TypeOK
  BY DEF TypeInv
<1> QED BY TypesHold, <1>1, PTL

----------------------------------------------------------------------------
(* Membership of queues *)

LEMMA InTail ==
  ASSUME NEW E, NEW q \in Seq(E), q # <<>>, NEW x \in ToSet(q)
  PROVE  x = Head(q) \/ x \in ToSet(Tail(q))
<1>1. PICK i \in DOMAIN q : q[i] = x
  BY DEF ToSet
<1>2. CASE i = 1
  BY <1>1, <1>2
<1>3. CASE i # 1
  <2>1. i - 1 \in DOMAIN Tail(q) /\ Tail(q)[i - 1] = q[i]
    BY <1>3
  <2> QED BY <1>1, <2>1 DEF ToSet
<1> QED BY <1>2, <1>3

LEMMA InHeadOrTail ==
  ASSUME NEW E, NEW q \in Seq(E), q # <<>>
  PROVE  Head(q) \in ToSet(q) /\ ToSet(Tail(q)) \subseteq ToSet(q)
<1>1. 1 \in DOMAIN q /\ Head(q) = q[1]
  OBVIOUS
<1>2. ASSUME NEW i \in DOMAIN Tail(q)
      PROVE  i + 1 \in DOMAIN q /\ Tail(q)[i] = q[i + 1]
  OBVIOUS
<1> QED BY <1>1, <1>2 DEF ToSet

LEMMA InConcat ==
  ASSUME NEW E, NEW p \in Seq(E), NEW q \in Seq(E)
  PROVE  ToSet(p \o q) = ToSet(p) \cup ToSet(q)
<1>1. ASSUME NEW i \in DOMAIN (p \o q)
      PROVE  (p \o q)[i] \in ToSet(p) \cup ToSet(q)
  <2>1. CASE i <= Len(p)
    BY <2>1 DEF ToSet
  <2>2. CASE i > Len(p)
    <3>1. i - Len(p) \in DOMAIN q /\ (p \o q)[i] = q[i - Len(p)]
      BY <2>2
    <3> QED BY <3>1 DEF ToSet
  <2> QED BY <2>1, <2>2
<1>2. ASSUME NEW i \in DOMAIN p
      PROVE  p[i] \in ToSet(p \o q)
  <2>1. i \in DOMAIN (p \o q) /\ (p \o q)[i] = p[i]
    OBVIOUS
  <2> QED BY <2>1 DEF ToSet
<1>3. ASSUME NEW i \in DOMAIN q
      PROVE  q[i] \in ToSet(p \o q)
  <2>1. Len(p) + i \in DOMAIN (p \o q) /\ (p \o q)[Len(p) + i] = q[i]
    OBVIOUS
  <2> QED BY <2>1 DEF ToSet
<1> QED BY <1>1, <1>2, <1>3 DEF ToSet

LEMMA InOneAndMore ==
  ASSUME NEW E, NEW e \in E, NEW q \in Seq(E)
  PROVE  /\ <<e>> \o q \in Seq(E)
         /\ ToSet(<<e>> \o q) = {e} \cup ToSet(q)
<1> DEFINE one == <<e>>
<1>1. one \in Seq(E) /\ DOMAIN one = {1} /\ one[1] = e
  OBVIOUS
<1> HIDE DEF one
<1>2. ToSet(one) = {e}
  BY <1>1 DEF ToSet
<1>3. one \o q \in Seq(E)
  BY <1>1
<1>4. ToSet(one \o q) = ToSet(one) \cup ToSet(q)
  BY <1>1, InConcat
<1> QED BY <1>2, <1>3, <1>4 DEF one

LEMMA OneAndMore ==
  ASSUME NEW E, NEW e \in E, NEW q \in Seq(E)
  PROVE  /\ <<e>> \o q \in Seq(E) /\ Len(<<e>> \o q) = 1 + Len(q) /\ Len(q) \in Nat
         /\ (<<e>> \o q)[1] = e
         /\ \A i \in 1..Len(q) : (<<e>> \o q)[1 + i] = q[i]
<1> DEFINE one == <<e>>
<1>1. one \in Seq(E)
  OBVIOUS
<1>2. Len(one) = 1 /\ one[1] = e
  OBVIOUS
<1> HIDE DEF one
<1>3. one \o q \in Seq(E) /\ Len(one \o q) = Len(one) + Len(q) /\ Len(q) \in Nat
  BY <1>1, Concatenated
<1>4. \A i \in 1..Len(one) : (one \o q)[i] = one[i]
  BY <1>1, Concatenated
<1>5. \A i \in 1..Len(q) : (one \o q)[Len(one) + i] = q[i]
  BY <1>1, Concatenated
<1>6. (one \o q)[1] = e
  BY <1>2, <1>4
<1>7. \A i \in 1..Len(q) : (one \o q)[1 + i] = q[i]
  BY <1>2, <1>5, Zenon
<1> QED BY <1>2, <1>3, <1>6, <1>7 DEF one

LEMMA InAppend ==
  ASSUME NEW E, NEW q \in Seq(E), NEW e \in E
  PROVE  ToSet(Append(q, e)) = ToSet(q) \cup {e}
<1>1. DOMAIN Append(q, e) = (DOMAIN q) \cup {Len(q) + 1}
  OBVIOUS
<1>2. \A i \in DOMAIN q : Append(q, e)[i] = q[i]
  OBVIOUS
<1>3. Append(q, e)[Len(q) + 1] = e
  OBVIOUS
<1> QED BY <1>1, <1>2, <1>3 DEF ToSet

----------------------------------------------------------------------------
(* The requests the SDK waits for *)

AskEvent(r) == [type |-> "permission_request", request |-> r]

LEMMA HeldStep == TypeInv /\ HeldRequests /\ [Next]_vars => HeldRequests'
<1> SUFFICES ASSUME TypeInv, HeldRequests, [Next]_vars,
                    NEW r \in blocked'
             PROVE  \/ r \in waiting'
                    \/ AskEvent(r) \in ToSet(events')
                    \/ \E approved \in BOOLEAN : Answer(r, approved) \in ToSet(commands')
  BY DEF HeldRequests, AskEvent
<1>1. /\ commands \in Seq(Command) /\ events \in Seq(Event) /\ toServer \in Seq(OwnAction)
      /\ waiting \subseteq Request /\ blocked \subseteq Request /\ IsFiniteSet(waiting)
  BY DEF TypeInv, TypeOK, QueueTypes, AllFinite
<1>2. r \in blocked =>
        \/ r \in waiting
        \/ AskEvent(r) \in ToSet(events)
        \/ \E approved \in BOOLEAN : Answer(r, approved) \in ToSet(commands)
  BY DEF HeldRequests, AskEvent
<1>3. CASE HandleDispatchAction
  <2> DEFINE a == Head(toServer)
  <2>1. SideEffect(a) /\ a \in OwnAction /\ UNCHANGED <<blocked, events>>
    BY <1>1, <1>3, HeadAndTail DEF HandleDispatchAction, sdk
  <2> HIDE DEF a
  <2>2. CASE a.type = "turnStarted"
    <3>1. /\ commands' = Append(commands, [call |-> "send", turn |-> a.turn]) /\ waiting' = waiting
          /\ [call |-> "send", turn |-> a.turn] \in Command
      BY <2>1, <2>2, OwnKinds DEF SideEffect, Command
    <3>2. ToSet(commands) \subseteq ToSet(commands')
      BY <1>1, <3>1, InAppend
    <3> QED BY <1>2, <2>1, <3>1, <3>2
  <2>3. CASE a.type = "turnCancelled"
    <3>1. commands' = Append(commands, [call |-> "abort"]) \o Denials /\ [call |-> "abort"] \in Command
      BY <2>1, <2>3 DEF SideEffect, Command
    <3>2. /\ Denials \in Seq(Command)
          /\ \A x \in waiting : \E i \in DOMAIN Denials : Denials[i] = Answer(x, FALSE)
      BY <1>1, DenialsType
    <3>3. Append(commands, [call |-> "abort"]) \in Seq(Command)
      BY <1>1, <3>1
    <3>4. ToSet(commands) \subseteq ToSet(commands') /\ ToSet(Denials) \subseteq ToSet(commands')
      <4> DEFINE before == Append(commands, [call |-> "abort"])
      <4>1. ToSet(commands) \subseteq ToSet(before)
        BY <1>1, <3>1, InAppend
      <4>2. before \in Seq(Command) /\ commands' = before \o Denials
        BY <3>1, <3>3
      <4> HIDE DEF before
      <4>3. ToSet(before \o Denials) = ToSet(before) \cup ToSet(Denials)
        BY <3>2, <4>2, InConcat
      <4> QED BY <4>1, <4>2, <4>3
    <3>5. r \in waiting => Answer(r, FALSE) \in ToSet(Denials)
      BY <3>2 DEF ToSet
    <3> QED BY <1>2, <2>1, <3>4, <3>5
  <2>4. CASE a.type = "permissionResolved"
    <3>1. Answer(a.request, a.approved) \in Command /\ a.approved \in BOOLEAN
      BY <2>1, <2>4, OwnKinds DEF Answer, Command
    <3>2. \/ waiting' = waiting /\ commands' = commands
          \/ /\ waiting' = waiting \ {a.request}
             /\ commands' = Append(commands, Answer(a.request, a.approved))
      BY <2>1, <2>4 DEF SideEffect
    <3>3. \/ waiting' = waiting /\ commands' = commands
          \/ /\ waiting' = waiting \ {a.request} /\ ToSet(commands) \subseteq ToSet(commands')
             /\ Answer(a.request, a.approved) \in ToSet(commands')
      <4>1. ToSet(Append(commands, Answer(a.request, a.approved)))
              = ToSet(commands) \cup {Answer(a.request, a.approved)}
        BY <1>1, <3>1, InAppend
      <4> QED BY <3>2, <4>1
    <3> QED BY <1>2, <2>1, <3>1, <3>3
  <2> QED BY <2>1, <2>2, <2>3, <2>4, OwnKinds
<1>4. CASE HandleProgress
  <2>1. /\ events # <<>> /\ events' = Tail(events) /\ UNCHANGED <<blocked, commands>>
        /\ waiting' = waiting \cup
             (IF Head(events).type = "permission_request" THEN {Head(events).request} ELSE {})
    BY <1>4 DEF HandleProgress, sdk
  <2>2. ASSUME AskEvent(r) \in ToSet(events)
        PROVE  r \in waiting' \/ AskEvent(r) \in ToSet(events')
    <3>1. CASE AskEvent(r) = Head(events)
      BY <2>1, <3>1 DEF AskEvent
    <3> QED BY <1>1, <2>1, <2>2, <3>1, InTail
  <2> QED BY <1>2, <2>1, <2>2
<1>5. CASE HandleSendFailed
  <2>1. /\ events # <<>> /\ events' = Tail(events) /\ UNCHANGED <<blocked, commands, waiting>>
        /\ Head(events).type = "sendFailed"
    BY <1>5 DEF HandleSendFailed, sdk
  <2>2. AskEvent(r) # Head(events)
    BY <2>1 DEF AskEvent
  <2> QED BY <1>1, <1>2, <2>1, <2>2, InTail
<1>6. CASE Sdk
  <2>1. waiting' = waiting
    BY <1>6 DEF Sdk, SdkSend, SdkAbort, SdkAnswer, SdkFinish, SdkToolStart, SdkToolComplete, SdkAsk, server
  <2>2. ASSUME NEW e \in Event, Notify(e)
        PROVE  ToSet(events') = ToSet(events) \cup {e}
    BY <1>1, <2>2, InAppend DEF Notify
  <2>3. [type |-> "idle"] \in Event /\ [type |-> "error"] \in Event
    BY DEF Event
  <2>4. ASSUME commands # <<>>, commands' = Tail(commands), Head(commands).call # "answer",
               NEW approved \in BOOLEAN, Answer(r, approved) \in ToSet(commands)
        PROVE  Answer(r, approved) \in ToSet(commands')
    <3>1. Answer(r, approved) # Head(commands)
      BY <2>4 DEF Answer
    <3> QED BY <1>1, <2>4, <3>1, InTail
  <2>5. CASE SdkSend
    <3>1. /\ commands # <<>> /\ commands' = Tail(commands) /\ Head(commands).call = "send"
          /\ blocked' = blocked
          /\ \/ events' = events
             \/ Notify([type |-> "sendFailed", turn |-> Head(commands).turn])
      BY <2>5 DEF SdkSend, Called
    <3>2. [type |-> "sendFailed", turn |-> Head(commands).turn] \in Event
      BY <1>1, <3>1, HeadAndTail DEF Command, Event
    <3>3. ToSet(events) \subseteq ToSet(events')
      BY <2>2, <3>1, <3>2
    <3>4. Head(commands).call # "answer"
      BY <3>1
    <3> QED BY <1>2, <2>1, <2>4, <3>1, <3>3, <3>4
  <2>6. CASE SdkAbort
    <3>1. /\ commands # <<>> /\ commands' = Tail(commands) /\ Head(commands).call = "abort"
          /\ blocked' = blocked
          /\ events' = events \/ Notify([type |-> "idle"])
      BY <2>6 DEF SdkAbort, Called
    <3>2. ToSet(events) \subseteq ToSet(events')
      BY <2>2, <2>3, <3>1
    <3>3. Head(commands).call # "answer"
      BY <3>1
    <3> QED BY <1>2, <2>1, <2>4, <3>1, <3>2, <3>3
  <2>7. CASE SdkAnswer
    <3>1. /\ commands # <<>> /\ commands' = Tail(commands)
          /\ blocked' = blocked \ {Head(commands).request} /\ events' = events
      BY <2>7 DEF SdkAnswer, Called
    <3>2. ASSUME NEW approved \in BOOLEAN, Answer(r, approved) \in ToSet(commands)
          PROVE  Answer(r, approved) \in ToSet(commands')
      <4>1. Answer(r, approved) # Head(commands)
        BY <3>1 DEF Answer
      <4> QED BY <1>1, <3>1, <3>2, <4>1, InTail
    <3> QED BY <1>2, <2>1, <3>1, <3>2
  <2>8. CASE SdkFinish
    <3>1. /\ UNCHANGED <<blocked, commands>>
          /\ events' = events \/ Notify([type |-> "idle"]) \/ Notify([type |-> "error"])
      BY <2>8 DEF SdkFinish
    <3>2. ToSet(events) \subseteq ToSet(events')
      BY <2>2, <2>3, <3>1
    <3> QED BY <1>2, <2>1, <3>1, <3>2
  <2>9. CASE \E k \in Tool : SdkToolStart(k) \/ SdkToolComplete(k)
    <3>1. PICK k \in Tool : SdkToolStart(k) \/ SdkToolComplete(k)
      BY <2>9
    <3>2. /\ UNCHANGED <<blocked, commands>>
          /\ \/ Notify([type |-> "tool_start", tool |-> k])
             \/ Notify([type |-> "tool_complete", tool |-> k])
      BY <3>1 DEF SdkToolStart, SdkToolComplete
    <3>3. [type |-> "tool_start", tool |-> k] \in Event /\ [type |-> "tool_complete", tool |-> k] \in Event
      BY DEF Event
    <3>4. ToSet(events) \subseteq ToSet(events')
      BY <2>2, <3>2, <3>3
    <3> QED BY <1>2, <2>1, <3>2, <3>4
  <2>10. CASE \E x \in Request : SdkAsk(x)
    <3>1. PICK x \in Request : SdkAsk(x)
      BY <2>10
    <3>2. commands' = commands /\ blocked' = blocked \cup {x} /\ Notify(AskEvent(x))
      BY <3>1 DEF SdkAsk, AskEvent
    <3>3. AskEvent(x) \in Event
      BY DEF Event, AskEvent
    <3>4. ToSet(events') = ToSet(events) \cup {AskEvent(x)}
      BY <2>2, <3>2, <3>3
    <3> QED BY <1>2, <2>1, <3>2, <3>4
  <2> QED BY <1>6, <2>5, <2>6, <2>7, <2>8, <2>9, <2>10 DEF Sdk
<1>7. CASE (\E t \in Turn : StartTurn(t)) \/ CancelTurn \/ AnswerSome
  BY <1>2, <1>7, DispatchedType DEF sdk, pipe
<1>8. CASE ReceiveEnvelope
  BY <1>2, <1>8 DEF ReceiveEnvelope, server, sdk, pipe
<1>9. CASE UNCHANGED vars
  BY <1>2, <1>9 DEF vars, server, sdk, pipe
<1> QED BY <1>3, <1>4, <1>5, <1>6, <1>7, <1>8, <1>9 DEF Next

\* However answers and cancellations cross, the SDK waits only for a request
\* that is on its way to the agent, held there, or answered already.
THEOREM WaitsForTheHeld == Spec => []HeldRequests
<1>1. Init => HeldRequests
  BY DEF Init, HeldRequests
<1> QED BY TypesHold, HeldStep, <1>1, PTL DEF Spec

----------------------------------------------------------------------------
(* What is on its way at most once *)

Among(q, X) == \E x \in ToSet(q) : x \in X
AtMostOnce(q, X) == \A i, j \in DOMAIN q : q[i] \in X /\ q[j] \in X => i = j

LEMMA OnceInTail ==
  ASSUME NEW E, NEW q \in Seq(E), q # <<>>, NEW X
  PROVE  /\ Among(Tail(q), X) => Among(q, X)
         /\ Head(q) \in X => Among(q, X)
         /\ AtMostOnce(q, X) => /\ AtMostOnce(Tail(q), X)
                                /\ Head(q) \in X => ~Among(Tail(q), X)
<1>1. ASSUME NEW i \in DOMAIN Tail(q)
      PROVE  i + 1 \in DOMAIN q /\ Tail(q)[i] = q[i + 1] /\ i \in Nat /\ i + 1 # 1
  OBVIOUS
<1>2. 1 \in DOMAIN q /\ Head(q) = q[1]
  OBVIOUS
<1>3. Head(q) \in ToSet(q) /\ ToSet(Tail(q)) \subseteq ToSet(q)
  BY InHeadOrTail
<1>4. ASSUME AtMostOnce(q, X)
      PROVE  AtMostOnce(Tail(q), X)
  <2>1. SUFFICES ASSUME NEW i \in DOMAIN Tail(q), NEW j \in DOMAIN Tail(q),
                        Tail(q)[i] \in X, Tail(q)[j] \in X
                 PROVE  i = j
    BY DEF AtMostOnce
  <2>2. i + 1 = j + 1
    BY <1>1, <1>4, <2>1 DEF AtMostOnce
  <2> QED BY <1>1, <2>2
<1>5. ASSUME AtMostOnce(q, X), Head(q) \in X, NEW i \in DOMAIN Tail(q), Tail(q)[i] \in X
      PROVE  FALSE
  <2>1. i + 1 \in DOMAIN q /\ q[i + 1] \in X /\ q[1] \in X /\ i + 1 # 1
    BY <1>1, <1>2, <1>5
  <2> QED BY <1>2, <1>5, <2>1 DEF AtMostOnce
<1> QED BY <1>3, <1>4, <1>5 DEF Among, ToSet

LEMMA OnceInAppend ==
  ASSUME NEW E, NEW q \in Seq(E), NEW e \in E, NEW X
  PROVE  /\ Among(Append(q, e), X) <=> Among(q, X) \/ e \in X
         /\ AtMostOnce(q, X) /\ (e \in X => ~Among(q, X)) => AtMostOnce(Append(q, e), X)
<1>1. ToSet(Append(q, e)) = ToSet(q) \cup {e}
  BY InAppend
<1>2. ASSUME AtMostOnce(q, X), e \in X => ~Among(q, X),
             NEW i \in DOMAIN Append(q, e), NEW j \in DOMAIN Append(q, e),
             Append(q, e)[i] \in X, Append(q, e)[j] \in X
      PROVE  i = j
  <2>1. \A k \in DOMAIN Append(q, e) :
          \/ k \in DOMAIN q /\ Append(q, e)[k] = q[k]
          \/ k = Len(q) + 1 /\ Append(q, e)[k] = e
    OBVIOUS
  <2>2. \A k \in DOMAIN q : q[k] \in X => Among(q, X)
    BY DEF Among, ToSet
  <2> QED BY <1>2, <2>1, <2>2 DEF AtMostOnce
<1> QED BY <1>1, <1>2 DEF Among, AtMostOnce

LEMMA OnceInConcat ==
  ASSUME NEW E, NEW p \in Seq(E), NEW q \in Seq(E), NEW X
  PROVE  /\ Among(p \o q, X) <=> Among(p, X) \/ Among(q, X)
         /\ AtMostOnce(p, X) /\ ~Among(q, X) => AtMostOnce(p \o q, X)
         /\ AtMostOnce(q, X) /\ ~Among(p, X) => AtMostOnce(p \o q, X)
<1>1. ToSet(p \o q) = ToSet(p) \cup ToSet(q)
  BY InConcat
<1>2. \A k \in DOMAIN (p \o q) :
        \/ k \in DOMAIN p /\ (p \o q)[k] = p[k]
        \/ \E l \in DOMAIN q : k = Len(p) + l /\ (p \o q)[k] = q[l]
  <2>1. ASSUME NEW k \in DOMAIN (p \o q), k \notin DOMAIN p
        PROVE  k - Len(p) \in DOMAIN q /\ k = Len(p) + (k - Len(p)) /\ (p \o q)[k] = q[k - Len(p)]
    BY <2>1
  <2>2. \A k \in DOMAIN p : (p \o q)[k] = p[k]
    OBVIOUS
  <2> QED BY <2>1, <2>2
<1>3. /\ \A k \in DOMAIN p : p[k] \in X => Among(p, X)
      /\ \A k \in DOMAIN q : q[k] \in X => Among(q, X)
  BY DEF Among, ToSet
<1>4. AtMostOnce(p, X) /\ ~Among(q, X) => AtMostOnce(p \o q, X)
  BY <1>2, <1>3 DEF AtMostOnce
<1>5. AtMostOnce(q, X) /\ ~Among(p, X) => AtMostOnce(p \o q, X)
  BY <1>2, <1>3 DEF AtMostOnce
<1> QED BY <1>1, <1>4, <1>5 DEF Among

----------------------------------------------------------------------------
(* The turns recorded *)

Started(t) == {a \in OwnAction : a.type = "turnStarted" /\ a.turn = t}
Recorded(st) == {st.turns[i].id : i \in DOMAIN st.turns}
DistinctTurns(st) == \A i, j \in DOMAIN st.turns : st.turns[i].id = st.turns[j].id => i = j

\* s holds the actions that have not reached the server, used the turns ever
\* started.
TurnsOnce(st, s, used) ==
  /\ st.activeTurn.id \in used \cup {NoTurn}
  /\ Recorded(st) \subseteq used /\ st.activeTurn.id \notin Recorded(st)
  /\ DistinctTurns(st)
  /\ \A t \in Turn :
       /\ AtMostOnce(s, Started(t))
       /\ Among(s, Started(t)) => t \in used /\ t # st.activeTurn.id /\ t \notin Recorded(st)

TurnInv == TurnsOnce(session, toServer, usedTurns)

\* An action other than the start of a turn leaves the turns as they are, or
\* records the active one.
LEMMA ReduceTurns ==
  ASSUME NEW st \in SessionState, NEW a \in Action, a.type # "turnStarted"
  PROVE  /\ Reduce(st, a) \in SessionState
         /\ \/ Reduce(st, a).activeTurn.id = st.activeTurn.id /\ Reduce(st, a).turns = st.turns
            \/ /\ Reduce(st, a).activeTurn.id = NoTurn
               /\ \E e \in FinishedTurn :
                    e.id = st.activeTurn.id /\ Reduce(st, a).turns = Append(st.turns, e)
<1>1. Reduce(st, a) \in SessionState
  BY ReduceType
<1>2. st.activeTurn \in ActiveTurn /\ NewTurn(NoTurn).id = NoTurn
  BY DEF SessionState, NewTurn
<1>3. CASE a.turn # st.activeTurn.id
  BY <1>1, <1>3, ReduceOther
<1>4. CASE a.turn = st.activeTurn.id /\ a.type \in TurnEnd
  BY <1>1, <1>2, <1>4, ReduceEnd
<1>5. CASE a.turn = st.activeTurn.id /\ a.type = "permissionRequest"
  <2>1. a.request \in Request
    BY <1>5, ActionKinds DEF TurnEnd
  <2> QED BY <1>1, <1>2, <1>5, <2>1, ReduceRequest, RequestPermissionType
<1>6. CASE a.turn = st.activeTurn.id /\ a.type = "permissionResolved"
  <2>1. a.request \in Request /\ a.approved \in BOOLEAN
    BY <1>6, ActionKinds DEF TurnEnd
  <2> QED BY <1>1, <1>2, <1>6, <2>1, ReduceResolved, ResolvePermissionType
<1>7. CASE a.turn = st.activeTurn.id /\ a.type \in ToolActionType
  BY <1>1, <1>7, ReduceTool
<1> QED BY <1>3, <1>4, <1>5, <1>6, <1>7, ActionKinds DEF ToolActionType

LEMMA OnceReduced ==
  ASSUME NEW st \in SessionState, NEW s \in Seq(OwnAction), NEW used \in SUBSET Turn,
         TurnsOnce(st, s, used), NEW a \in Action, a.type # "turnStarted"
  PROVE  TurnsOnce(Reduce(st, a), s, used)
<1>1. CASE Reduce(st, a).activeTurn.id = st.activeTurn.id /\ Reduce(st, a).turns = st.turns
  BY <1>1 DEF TurnsOnce, Recorded, DistinctTurns
<1>2. ASSUME NEW e \in FinishedTurn, e.id = st.activeTurn.id,
             Reduce(st, a).turns = Append(st.turns, e), Reduce(st, a).activeTurn.id = NoTurn
      PROVE  TurnsOnce(Reduce(st, a), s, used)
  <2> DEFINE new == Reduce(st, a)
             q   == st.turns
  <2>1. e.id \in Turn /\ e.id \in used /\ q \in Seq(FinishedTurn)
    BY <1>2 DEF FinishedTurn, TurnsOnce, SessionState
  <2>2. \A k \in DOMAIN Append(q, e) :
          \/ k \in DOMAIN q /\ Append(q, e)[k] = q[k]
          \/ k = Len(q) + 1 /\ Append(q, e)[k] = e
    BY <2>1
  <2>3. \A k \in DOMAIN q : q[k].id # e.id
    BY <1>2 DEF TurnsOnce, Recorded
  <2>4. Recorded(new) \subseteq Recorded(st) \cup {e.id}
    BY <1>2, <2>2 DEF Recorded
  <2>5. DistinctTurns(new)
    BY <1>2, <2>2, <2>3 DEF DistinctTurns, TurnsOnce
  <2>6. NoTurn \notin used
    OBVIOUS
  <2> QED BY <1>2, <2>1, <2>4, <2>5, <2>6 DEF TurnsOnce
<1> QED BY <1>1, <1>2, ReduceTurns

LEMMA OnceHandled ==
  ASSUME NEW st \in SessionState, NEW s \in Seq(OwnAction), NEW used \in SUBSET Turn,
         TurnsOnce(st, s, used), s # <<>>
  PROVE  TurnsOnce(Reduce(st, Head(s)), Tail(s), used)
<1> DEFINE a == Head(s)
<1>1. a \in OwnAction /\ Tail(s) \in Seq(OwnAction) /\ a \in Action
  BY HeadAndTail, OwnTypes
<1>2. \A t \in Turn :
        /\ AtMostOnce(Tail(s), Started(t))
        /\ Among(Tail(s), Started(t)) => Among(s, Started(t))
        /\ a \in Started(t) => Among(s, Started(t)) /\ ~Among(Tail(s), Started(t))
  BY OnceInTail DEF TurnsOnce
<1> HIDE DEF a
<1>3. TurnsOnce(st, Tail(s), used)
  BY <1>2 DEF TurnsOnce
<1>4. CASE a.type = "turnStarted"
  <2> DEFINE new == Reduce(st, a)
  <2>1. new.activeTurn.id = a.turn /\ new.turns = st.turns
    <3>1. new.activeTurn = NewTurn(a.turn) /\ new.turns = st.turns
      BY <1>1, <1>4, ReduceStart
    <3> HIDE DEF new
    <3> QED BY <3>1 DEF NewTurn
  <2> HIDE DEF new
  <2>2. Recorded(new) = Recorded(st) /\ (DistinctTurns(new) <=> DistinctTurns(st))
    BY <2>1 DEF Recorded, DistinctTurns
  <2>3. a \in Started(a.turn) /\ a.turn \in Turn
    BY <1>1, <1>4, OwnKinds DEF Started
  <2>4. a.turn \in used /\ a.turn \notin Recorded(st)
    BY <1>2, <2>3 DEF TurnsOnce
  <2>5. ~Among(Tail(s), Started(a.turn))
    BY <1>2, <2>3
  <2>6. DistinctTurns(new) /\ Recorded(st) \subseteq used
    BY <1>3, <2>2 DEF TurnsOnce
  <2>7. ASSUME NEW t \in Turn, Among(Tail(s), Started(t))
        PROVE  t \in used /\ t # a.turn /\ t \notin Recorded(st)
    BY <1>3, <2>5, <2>7 DEF TurnsOnce
  <2>8. \A t \in Turn : AtMostOnce(Tail(s), Started(t))
    BY <1>3 DEF TurnsOnce
  <2>9. TurnsOnce(new, Tail(s), used)
    BY <2>1, <2>2, <2>4, <2>6, <2>7, <2>8 DEF TurnsOnce
  <2> QED BY <2>9 DEF new, a
<1>5. CASE a.type # "turnStarted"
  BY <1>1, <1>3, <1>5, OnceReduced DEF a
<1> QED BY <1>4, <1>5

LEMMA TurnStep == TypeInv /\ TurnInv /\ [Next]_vars => TurnInv'
<1> SUFFICES ASSUME TypeInv, TurnInv, [Next]_vars PROVE TurnInv'
  OBVIOUS
<1>1. /\ session \in SessionState /\ toServer \in Seq(OwnAction) /\ usedTurns \in SUBSET Turn
      /\ events \in Seq(Event) /\ running \in Turn \cup {NoTurn}
      /\ TurnsOnce(session, toServer, usedTurns)
  BY DEF TypeInv, TypeOK, QueueTypes, TurnInv
<1>2. CASE HandleDispatchAction
  <2>1. /\ toServer # <<>> /\ toServer' = Tail(toServer) /\ usedTurns' = usedTurns
        /\ session' = ReduceAll(session, <<Head(toServer)>>)
    BY <1>2 DEF HandleDispatchAction, Apply, window
  <2>2. session' = Reduce(session, Head(toServer))
    BY <1>1, <2>1, HeadAndTail, ReduceOne
  <2>3. TurnsOnce(Reduce(session, Head(toServer)), Tail(toServer), usedTurns)
    BY <1>1, <2>1, OnceHandled
  <2> QED BY <2>1, <2>2, <2>3 DEF TurnInv
<1>3. CASE HandleProgress
  <2>1. /\ events # <<>> /\ Head(events).type # "sendFailed" /\ Head(events) \in Event
        /\ UNCHANGED <<toServer, usedTurns>>
        /\ session' = ReduceAll(session, Arriving)
    BY <1>1, <1>3, HeadAndTail DEF HandleProgress, Apply, Arriving, window
  <2>2. Arriving \in Seq(AgentAction)
    BY <1>1, <2>1, ArrivingType
  <2> DEFINE S == {st \in SessionState : TurnsOnce(st, toServer, usedTurns)}
  <2>3. ASSUME NEW st \in S, NEW i \in 1..Len(Arriving)
        PROVE  Reduce(st, Arriving[i]) \in S
    <3>1. Arriving[i] \in Action /\ Arriving[i].type # "turnStarted"
      BY <2>2 DEF AgentAction, OwnType
    <3> QED BY <1>1, <3>1, OnceReduced, ReduceType
  <2>4. session \in S
    BY <1>1
  <2> HIDE DEF S
  <2>5. session' \in S
    BY <2>1, <2>2, <2>3, <2>4, FoldStays DEF ReduceAll
  <2> QED BY <2>1, <2>5 DEF S, TurnInv
<1>4. CASE HandleSendFailed
  <2> DEFINE a == [type |-> "error", turn |-> Head(events).turn]
  <2>1. /\ events # <<>> /\ Head(events).type = "sendFailed" /\ Head(events) \in Event
        /\ UNCHANGED <<toServer, usedTurns>> /\ session' = ReduceAll(session, <<a>>)
    BY <1>1, <1>4, HeadAndTail DEF HandleSendFailed, Apply, window
  <2>2. a \in Action /\ a.type # "turnStarted"
    BY <2>1, EventKinds DEF Action, TurnAction
  <2> HIDE DEF a
  <2>3. session' = Reduce(session, a)
    BY <2>1, <2>2, ReduceOne
  <2> QED BY <1>1, <2>1, <2>2, <2>3, OnceReduced DEF TurnInv
<1>5. CASE Sdk
  BY <1>1, <1>5 DEF Sdk, SdkSend, SdkAbort, SdkAnswer, SdkFinish, SdkToolStart, SdkToolComplete, SdkAsk,
     server, window, net, TurnInv
<1>6. ASSUME NEW q \in Seq(OwnAction), Dispatch(q), session' = session,
             NEW t \in Turn \ usedTurns, usedTurns' = usedTurns \cup {t},
             NEW a \in OwnAction, a.type = "turnStarted", a.turn = t, q = <<a>>
      PROVE  TurnInv'
  <2>1. toServer' = toServer \o <<a>> /\ <<a>> \in Seq(OwnAction) /\ a \in Started(t)
    BY <1>6 DEF Dispatch, Started
  <2>2. \A x \in Turn : x # t => a \notin Started(x)
    BY <1>6 DEF Started
  <2>3. toServer' = Append(toServer, a)
    BY <1>1, <2>1
  <2>4. ~Among(toServer, Started(t)) /\ t \notin Recorded(session) /\ t # session.activeTurn.id
    BY <1>1 DEF TurnsOnce
  <2>5. \A x \in Turn :
          /\ Among(toServer', Started(x)) <=> Among(toServer, Started(x)) \/ x = t
          /\ AtMostOnce(toServer', Started(x))
    <3>1. SUFFICES ASSUME NEW x \in Turn
                   PROVE  /\ Among(toServer', Started(x)) <=> Among(toServer, Started(x)) \/ x = t
                          /\ AtMostOnce(toServer', Started(x))
      OBVIOUS
    <3>2. a \in Started(x) <=> x = t
      BY <2>1, <2>2
    <3>3. AtMostOnce(toServer, Started(x))
      BY <1>1 DEF TurnsOnce
    <3> QED BY <1>1, <2>3, <2>4, <3>2, <3>3, OnceInAppend
  <2> QED BY <1>1, <1>6, <2>4, <2>5 DEF TurnsOnce, TurnInv
<1>7. ASSUME NEW q \in Seq(OwnAction), Dispatch(q), session' = session, usedTurns' = usedTurns,
             \A i \in DOMAIN q : q[i].type # "turnStarted"
      PROVE  TurnInv'
  <2>1. toServer' = toServer \o q
    BY <1>7 DEF Dispatch
  <2>2. \A x \in Turn : ~Among(q, Started(x))
    BY <1>7 DEF Among, ToSet, Started
  <2>3. \A x \in Turn :
          /\ Among(toServer', Started(x)) <=> Among(toServer, Started(x))
          /\ AtMostOnce(toServer', Started(x))
    BY <1>1, <2>1, <2>2, OnceInConcat DEF TurnsOnce
  <2> QED BY <1>1, <1>7, <2>3 DEF TurnsOnce, TurnInv
<1>8. CASE (\E t \in Turn : StartTurn(t)) \/ CancelTurn \/ AnswerSome
  <2>1. \A p : Resolved(p, TRUE).type # "turnStarted" /\ Resolved(p, FALSE).type # "turnStarted"
    BY DEF Resolved
  <2>2. session' = session
    BY <1>8, DispatchedType
  <2>3. CASE \E t \in Turn \ usedTurns :
               /\ usedTurns' = usedTurns \cup {t}
               /\ \E a \in OwnAction : a.type = "turnStarted" /\ a.turn = t /\ Dispatch(<<a>>)
    <3>1. PICK t \in Turn \ usedTurns, a \in OwnAction :
                 /\ usedTurns' = usedTurns \cup {t}
                 /\ a.type = "turnStarted" /\ a.turn = t /\ Dispatch(<<a>>)
      BY <2>3
    <3>2. <<a>> \in Seq(OwnAction)
      OBVIOUS
    <3> QED BY <1>6, <2>2, <3>1, <3>2
  <2>4. CASE /\ usedTurns' = usedTurns
             /\ \E a \in OwnAction, q \in Seq(OwnAction) :
                  /\ a.type = "turnCancelled" /\ a.turn = running /\ Dispatch(<<a>> \o q)
                  /\ \A i \in 1..Len(q) : \E p \in prompts :
                       p.turn = running /\ q[i] = Resolved(p, FALSE)
    <3>1. PICK a \in OwnAction, q \in Seq(OwnAction) :
                 /\ a.type = "turnCancelled" /\ Dispatch(<<a>> \o q)
                 /\ \A i \in 1..Len(q) : \E p \in prompts : q[i] = Resolved(p, FALSE)
      BY <2>4
    <3>3. <<a>> \o q \in Seq(OwnAction) /\ ToSet(<<a>> \o q) = {a} \cup ToSet(q)
      BY InOneAndMore
    <3>4. \A x \in ToSet(q) : x.type # "turnStarted"
      <4>1. ASSUME NEW i \in DOMAIN q
            PROVE  q[i].type # "turnStarted"
        <5>1. i \in 1..Len(q)
          OBVIOUS
        <5>2. PICK p \in prompts : q[i] = Resolved(p, FALSE)
          BY <3>1, <5>1
        <5> QED BY <2>1, <5>2
      <4> QED BY <4>1 DEF ToSet
    <3>5. \A i \in DOMAIN (<<a>> \o q) : (<<a>> \o q)[i].type # "turnStarted"
      BY <3>1, <3>3, <3>4 DEF ToSet
    <3> QED BY <1>7, <2>2, <2>4, <3>1, <3>3, <3>5
  <2>5. CASE /\ usedTurns' = usedTurns
             /\ \E p \in prompts, approved \in BOOLEAN :
                  Resolved(p, approved) \in OwnAction /\ Dispatch(<<Resolved(p, approved)>>)
    <3>1. PICK p \in prompts, approved \in BOOLEAN :
                 Resolved(p, approved) \in OwnAction /\ Dispatch(<<Resolved(p, approved)>>)
      BY <2>5
    <3> DEFINE a == Resolved(p, approved)
    <3>2. a \in OwnAction /\ a.type # "turnStarted" /\ Dispatch(<<a>>)
      BY <3>1, Zenon DEF Resolved
    <3> HIDE DEF a
    <3>3. <<a>> \in Seq(OwnAction) /\ \A i \in DOMAIN <<a>> : <<a>>[i].type # "turnStarted"
      BY <3>2
    <3> QED BY <1>7, <2>2, <2>5, <3>2, <3>3
  <2>6. \/ \E t \in Turn \ usedTurns :
             /\ usedTurns' = usedTurns \cup {t}
             /\ \E a \in OwnAction : a.type = "turnStarted" /\ a.turn = t /\ Dispatch(<<a>>)
        \/ /\ usedTurns' = usedTurns
           /\ \E a \in OwnAction, q \in Seq(OwnAction) :
                /\ a.type = "turnCancelled" /\ a.turn = running /\ Dispatch(<<a>> \o q)
                /\ \A i \in 1..Len(q) : \E p \in prompts :
                     p.turn = running /\ q[i] = Resolved(p, FALSE)
        \/ /\ usedTurns' = usedTurns
           /\ \E p \in prompts, approved \in BOOLEAN :
                Resolved(p, approved) \in OwnAction /\ Dispatch(<<Resolved(p, approved)>>)
    BY <1>8, DispatchedType, Zenon
  <2> QED BY <2>3, <2>4, <2>5, <2>6
<1>9. CASE ReceiveEnvelope
  BY <1>1, <1>9 DEF ReceiveEnvelope, server, TurnInv
<1>10. CASE UNCHANGED vars
  BY <1>1, <1>10 DEF vars, server, window, net, TurnInv
<1> QED BY <1>2, <1>3, <1>4, <1>5, <1>8, <1>9, <1>10 DEF Next

LEMMA TurnInit == Init => TurnInv
<1> SUFFICES ASSUME Init PROVE TurnInv
  OBVIOUS
<1>1. /\ session.activeTurn.id = NoTurn /\ session.turns = <<>> /\ toServer = <<>>
  BY DEF Init, EmptySession, NewTurn
<1>2. DOMAIN <<>> = {}
  OBVIOUS
<1> QED BY <1>1, <1>2 DEF TurnInv, TurnsOnce, Recorded, DistinctTurns, AtMostOnce, Among, ToSet

LEMMA TurnsHold == Spec => []TurnInv
BY TypesHold, TurnInit, TurnStep, PTL DEF Spec

\* Whatever ends a turn first, the agent, a failed send or a cancellation that
\* crosses them, it is recorded once, and not while it is still active.
THEOREM EveryTurnIsRecordedOnce == Spec => []TurnsRecordedOnce
<1>1. TurnInv => TurnsRecordedOnce
  BY DEF TurnInv, TurnsOnce, DistinctTurns, Recorded, TurnsRecordedOnce
<1> QED BY TurnsHold, <1>1, PTL

----------------------------------------------------------------------------
(* The tool calls *)

\* What the SDK reports in a step of its own.
LEMMA SdkReports ==
  ASSUME TypeInv, Sdk
  PROVE  /\ UNCHANGED <<session, routed, waiting, window, toServer, toWindow>>
         /\ \/ UNCHANGED <<events, usedTools, usedRequests>>
            \/ \E e \in Event :
                 /\ events' = Append(events, e)
                 /\ \/ /\ e.type = "tool_start" /\ e.tool \in Tool \ usedTools
                       /\ usedTools' = usedTools \cup {e.tool} /\ usedRequests' = usedRequests
                    \/ /\ e.type = "permission_request" /\ e.request \in Request \ usedRequests
                       /\ usedRequests' = usedRequests \cup {e.request} /\ usedTools' = usedTools
                    \/ /\ e.type \notin {"tool_start", "permission_request"}
                       /\ UNCHANGED <<usedTools, usedRequests>>
<1> DEFINE Reports(e) ==
             /\ events' = Append(events, e)
             /\ \/ /\ e.type = "tool_start" /\ e.tool \in Tool \ usedTools
                   /\ usedTools' = usedTools \cup {e.tool} /\ usedRequests' = usedRequests
                \/ /\ e.type = "permission_request" /\ e.request \in Request \ usedRequests
                   /\ usedRequests' = usedRequests \cup {e.request} /\ usedTools' = usedTools
                \/ /\ e.type \notin {"tool_start", "permission_request"}
                   /\ UNCHANGED <<usedTools, usedRequests>>
           Goal == UNCHANGED <<events, usedTools, usedRequests>> \/ \E e \in Event : Reports(e)
<1>1. UNCHANGED <<session, routed, waiting, window, toServer, toWindow>>
  BY DEF Sdk, SdkSend, SdkAbort, SdkAnswer, SdkFinish, SdkToolStart, SdkToolComplete, SdkAsk, server, net
<1> SUFFICES Goal
  BY <1>1
<1>2. [type |-> "idle"] \in Event /\ [type |-> "error"] \in Event
  BY DEF Event
<1>9. ASSUME NEW e \in Event, e.type \notin {"tool_start", "permission_request"},
             events' = events \/ events' = Append(events, e),
             UNCHANGED <<usedTools, usedRequests>>
      PROVE  Goal
  <2>1. CASE events' = events
    BY <1>9, <2>1
  <2>2. CASE events' = Append(events, e)
    <3>1. Reports(e)
      BY <1>9, <2>2
    <3> HIDE DEF Reports
    <3> QED BY <3>1
  <2> QED BY <1>9, <2>1, <2>2
<1>3. CASE SdkSend
  <2> DEFINE e == [type |-> "sendFailed", turn |-> Head(commands).turn]
  <2>1. commands \in Seq(Command) /\ commands # <<>> /\ Head(commands).call = "send"
    BY <1>3 DEF SdkSend, Called, TypeInv, QueueTypes
  <2>2. e \in Event
    BY <2>1, HeadAndTail DEF Command, Event
  <2>3. /\ events' = events \/ events' = Append(events, e)
        /\ UNCHANGED <<usedTools, usedRequests>> /\ e.type = "sendFailed"
    BY <1>3 DEF SdkSend, Notify
  <2> HIDE DEF e, Goal
  <2> QED BY <1>9, <2>2, <2>3
<1>4. CASE SdkAbort \/ SdkFinish
  <2> DEFINE e == [type |-> "idle"]
             f == [type |-> "error"]
  <2>1. e \in Event /\ f \in Event /\ e.type = "idle" /\ f.type = "error"
    BY <1>2
  <2>2. /\ UNCHANGED <<usedTools, usedRequests>>
        /\ events' = events \/ events' = Append(events, e) \/ events' = Append(events, f)
    BY <1>4 DEF SdkAbort, SdkFinish, Notify
  <2> HIDE DEF e, f, Goal
  <2> QED BY <1>9, <2>1, <2>2
<1>5. CASE SdkAnswer
  BY <1>5 DEF SdkAnswer
<1>6. ASSUME NEW k \in Tool, SdkToolStart(k)
      PROVE  Goal
  <2> DEFINE e == [type |-> "tool_start", tool |-> k]
  <2>1. e \in Event /\ e.type = "tool_start" /\ e.tool = k
    BY DEF Event
  <2>2. /\ events' = Append(events, e) /\ k \notin usedTools
        /\ usedTools' = usedTools \cup {k} /\ usedRequests' = usedRequests
    BY <1>6 DEF SdkToolStart, Notify
  <2> HIDE DEF e
  <2> QED BY <2>1, <2>2
<1>7. ASSUME NEW k \in Tool, SdkToolComplete(k)
      PROVE  Goal
  <2> DEFINE e == [type |-> "tool_complete", tool |-> k]
  <2>1. e \in Event /\ e.type = "tool_complete"
    BY DEF Event
  <2>2. events' = Append(events, e) /\ UNCHANGED <<usedTools, usedRequests>>
    BY <1>7 DEF SdkToolComplete, Notify
  <2> HIDE DEF e
  <2> QED BY <2>1, <2>2
<1>8. ASSUME NEW r \in Request, SdkAsk(r)
      PROVE  Goal
  <2> DEFINE e == [type |-> "permission_request", request |-> r]
  <2>1. e \in Event /\ e.type = "permission_request" /\ e.request = r
    BY DEF Event
  <2>2. /\ events' = Append(events, e) /\ r \notin usedRequests
        /\ usedRequests' = usedRequests \cup {r} /\ usedTools' = usedTools
    BY <1>8 DEF SdkAsk, Notify
  <2> HIDE DEF e
  <2> QED BY <2>1, <2>2
<1> HIDE DEF Goal
<1> QED BY <1>3, <1>4, <1>5, <1>6, <1>7, <1>8 DEF Sdk

LEMMA AbsentStays ==
  ASSUME NEW st \in SessionState, NEW a \in Action, NEW k \in Tool,
         st.activeTurn.toolCalls[k] = "absent", ~(a.type = "toolCallStart" /\ a.tool = k)
  PROVE  Reduce(st, a).activeTurn.toolCalls[k] = "absent"
<1>1. NewTurn(NoTurn).toolCalls[k] = "absent" /\ NewTurn(a.turn).toolCalls[k] = "absent"
  BY DEF NewTurn
<1>2. st.activeTurn \in ActiveTurn
  BY DEF SessionState
<1>3. CASE a.type = "turnStarted"
  BY <1>1, <1>3, ReduceStart
<1>4. CASE a.type # "turnStarted" /\ a.turn # st.activeTurn.id
  BY <1>4, ReduceOther
<1>5. CASE a.type \in TurnEnd /\ a.turn = st.activeTurn.id
  BY <1>1, <1>5, ReduceEnd
<1>6. CASE a.type = "permissionRequest" /\ a.turn = st.activeTurn.id
  <2>1. a.request \in Request
    BY <1>6, ActionKinds DEF TurnEnd
  <2> QED BY <1>2, <1>6, <2>1, ReduceRequest, RequestPermissionType DEF Settled
<1>7. CASE a.type = "permissionResolved" /\ a.turn = st.activeTurn.id
  <2>1. a.request \in Request /\ a.approved \in BOOLEAN
    BY <1>7, ActionKinds DEF TurnEnd
  <2> QED BY <1>2, <1>7, <2>1, ReduceResolved, ResolvePermissionType DEF Settled
<1>8. CASE a.type \in ToolActionType /\ a.turn = st.activeTurn.id
  <2>1. a.tool \in Tool /\ st.activeTurn.toolCalls \in [Tool -> ToolStatus]
    BY <1>2, <1>8, ActionKinds DEF ToolActionType, TurnEnd, ActiveTurn
  <2>2. a.tool = k => ToolAfter(st.activeTurn.toolCalls[k], a) = "absent"
    BY <1>8 DEF ToolAfter, ToolActionType
  <2>3. Reduce(st, a).activeTurn.toolCalls = [st.activeTurn.toolCalls EXCEPT ![a.tool] = ToolAfter(@, a)]
    BY <1>8, ReduceTool
  <2> QED BY <2>1, <2>2, <2>3
<1> QED BY <1>3, <1>4, <1>5, <1>6, <1>7, <1>8, ActionKinds DEF ToolActionType

LEMMA SettledStays ==
  ASSUME NEW st \in SessionState, NEW a \in Action, NEW k \in Tool,
         st.activeTurn.toolCalls[k] \in Settled,
         a.type # "turnStarted" \/ a.turn # st.activeTurn.id,
         ~(a.type \in {"toolCallStart", "toolCallReady"} /\ a.tool = k),
         Reduce(st, a).activeTurn.id = st.activeTurn.id
  PROVE  Reduce(st, a).activeTurn.toolCalls[k] = st.activeTurn.toolCalls[k]
<1>1. NewTurn(NoTurn).id = NoTurn /\ NewTurn(a.turn).id = a.turn /\ a.turn \in Turn
  BY ActionKinds DEF NewTurn
<1>2. st.activeTurn \in ActiveTurn
  BY DEF SessionState
<1>3. CASE a.type = "turnStarted"
  BY <1>1, <1>3, ReduceStart
<1>4. CASE a.type # "turnStarted" /\ a.turn # st.activeTurn.id
  BY <1>4, ReduceOther
<1>5. CASE a.type \in TurnEnd /\ a.turn = st.activeTurn.id
  BY <1>1, <1>5, ReduceEnd
<1>6. CASE a.type = "permissionRequest" /\ a.turn = st.activeTurn.id
  <2>1. a.request \in Request
    BY <1>6, ActionKinds DEF TurnEnd
  <2> QED BY <1>2, <1>6, <2>1, ReduceRequest, RequestPermissionType DEF Settled
<1>7. CASE a.type = "permissionResolved" /\ a.turn = st.activeTurn.id
  <2>1. a.request \in Request /\ a.approved \in BOOLEAN
    BY <1>7, ActionKinds DEF TurnEnd
  <2> QED BY <1>2, <1>7, <2>1, ReduceResolved, ResolvePermissionType DEF Settled
<1>8. CASE a.type \in ToolActionType /\ a.turn = st.activeTurn.id
  <2>1. a.tool \in Tool /\ st.activeTurn.toolCalls \in [Tool -> ToolStatus]
    BY <1>2, <1>8, ActionKinds DEF ToolActionType, TurnEnd, ActiveTurn
  <2>2. a.tool = k => ToolAfter(st.activeTurn.toolCalls[k], a) = st.activeTurn.toolCalls[k]
    <3>1. a.tool = k => a.type = "toolCallComplete"
      BY <1>8 DEF ToolActionType
    <3>2. st.activeTurn.toolCalls[k] \in ToolStatus
      BY <2>1
    <3> QED BY <3>1, <3>2, ToolAfterType
  <2>3. Reduce(st, a).activeTurn.toolCalls = [st.activeTurn.toolCalls EXCEPT ![a.tool] = ToolAfter(@, a)]
    BY <1>8, ReduceTool
  <2> QED BY <2>1, <2>2, <2>3
<1> QED BY <1>3, <1>4, <1>5, <1>6, <1>7, <1>8, ActionKinds DEF ToolActionType

\* A tool call that has not started, or whose start is on its way, is unknown
\* to the session.
ToolStarts(k) == {e \in Event : e.type = "tool_start" /\ e.tool = k}
ToolsFresh(st, ev, used) ==
  \A k \in Tool :
    /\ AtMostOnce(ev, ToolStarts(k))
    /\ Among(ev, ToolStarts(k)) => k \in used
    /\ k \notin used \/ Among(ev, ToolStarts(k)) => st.activeTurn.toolCalls[k] = "absent"

ToolInv == ToolsFresh(session, events, usedTools)

LEMMA ToolStep == TypeInv /\ ToolInv /\ [Next]_vars => ToolInv'
<1> SUFFICES ASSUME TypeInv, ToolInv, [Next]_vars PROVE ToolInv'
  OBVIOUS
<1>1. /\ session \in SessionState /\ toServer \in Seq(OwnAction) /\ events \in Seq(Event)
      /\ usedTools \subseteq Tool /\ ToolsFresh(session, events, usedTools)
      /\ session.activeTurn \in ActiveTurn
  BY DEF TypeInv, TypeOK, QueueTypes, ToolInv, SessionState
<1>2. CASE HandleDispatchAction
  <2>1. /\ toServer # <<>> /\ UNCHANGED <<events, usedTools>>
        /\ session' = ReduceAll(session, <<Head(toServer)>>)
    BY <1>2 DEF HandleDispatchAction, Apply, sdk
  <2>2. Head(toServer) \in OwnAction /\ Head(toServer) \in Action
    BY <1>1, <2>1, HeadAndTail, OwnTypes
  <2>3. session' = Reduce(session, Head(toServer)) /\ Head(toServer).type # "toolCallStart"
    BY <2>1, <2>2, ReduceOne, OwnKinds
  <2> QED BY <1>1, <2>1, <2>2, <2>3, AbsentStays DEF ToolsFresh, ToolInv
<1>3. CASE HandleProgress
  <2> DEFINE e == Head(events)
             ev == Tail(events)
  <2>1. /\ events # <<>> /\ e.type # "sendFailed" /\ e \in Event
        /\ events' = ev /\ UNCHANGED usedTools /\ session' = ReduceAll(session, Arriving)
    BY <1>1, <1>3, HeadAndTail DEF HandleProgress, Apply, Arriving, sdk
  <2>2. \A k \in Tool :
          /\ AtMostOnce(ev, ToolStarts(k))
          /\ Among(ev, ToolStarts(k)) => Among(events, ToolStarts(k))
          /\ e \in ToolStarts(k) => Among(events, ToolStarts(k)) /\ ~Among(ev, ToolStarts(k))
    BY <1>1, <2>1, OnceInTail DEF ToolsFresh
  <2>3. ASSUME NEW k \in Tool, session.activeTurn.toolCalls[k] = "absent", e \notin ToolStarts(k)
        PROVE  session'.activeTurn.toolCalls[k] = "absent"
    <3> DEFINE S == {st \in SessionState : st.activeTurn.toolCalls[k] = "absent"}
    <3>1. Arriving \in Seq(AgentAction)
      BY <1>1, <2>1, ArrivingType
    <3>2. \A i \in 1..Len(Arriving) :
            Arriving[i] \in Action /\ ~(Arriving[i].type = "toolCallStart" /\ Arriving[i].tool = k)
      <4>1. CASE session.activeTurn.id = NoTurn
        <5>1. Arriving = <<>> /\ Len(<<>>) = 0
          BY <4>1 DEF Arriving
        <5> QED BY <5>1
      <4>2. CASE session.activeTurn.id # NoTurn
        <5>1. session.activeTurn.id \in Turn /\ Arriving = ActionsOf(e, session.activeTurn.id)
          BY <1>1, <4>2 DEF Arriving, ActiveTurn
        <5> HIDE DEF e
        <5>2. \/ e.type = "tool_start" /\ \E a, b \in AgentAction : Arriving = <<a, b>> /\ a.tool = e.tool /\ b.type = "toolCallReady"
              \/ \E a \in AgentAction : Arriving = <<a>> /\ a.type # "toolCallStart"
          BY <2>1, <5>1, ActionsOfKinds DEF TurnEnd
        <5>3. CASE \E a \in AgentAction : Arriving = <<a>> /\ a.type # "toolCallStart"
          BY <5>3, OwnTypes
        <5>4. CASE e.type = "tool_start" /\ \E a, b \in AgentAction : Arriving = <<a, b>> /\ a.tool = e.tool /\ b.type = "toolCallReady"
          <6>1. e.tool # k
            BY <2>1, <2>3, <5>4 DEF ToolStarts
          <6> QED BY <5>4, <6>1, OwnTypes
        <5> QED BY <5>2, <5>3, <5>4
      <4> QED BY <4>1, <4>2
    <3>3. \A st \in S : \A i \in 1..Len(Arriving) : Reduce(st, Arriving[i]) \in S
      BY <3>2, AbsentStays, ReduceType
    <3>4. session \in S
      BY <1>1, <2>3
    <3> HIDE DEF S
    <3>5. session' \in S
      BY <2>1, <3>1, <3>3, <3>4, FoldStays DEF ReduceAll
    <3> QED BY <3>5 DEF S
  <2> HIDE DEF e, ev
  <2> QED BY <1>1, <2>1, <2>2, <2>3 DEF ToolsFresh, ToolInv
<1>4. CASE HandleSendFailed
  <2> DEFINE a == [type |-> "error", turn |-> Head(events).turn]
  <2>1. /\ events # <<>> /\ Head(events).type = "sendFailed" /\ Head(events) \in Event
        /\ events' = Tail(events)
        /\ UNCHANGED usedTools /\ session' = ReduceAll(session, <<a>>)
    BY <1>1, <1>4, HeadAndTail DEF HandleSendFailed, Apply, sdk
  <2>2. a \in Action /\ a.type # "toolCallStart"
    BY <2>1, EventKinds DEF Action, TurnAction
  <2> HIDE DEF a
  <2>3. session' = Reduce(session, a)
    BY <2>1, <2>2, ReduceOne
  <2>4. \A k \in Tool : AtMostOnce(Tail(events), ToolStarts(k))
    BY <1>1, <2>1, OnceInTail DEF ToolsFresh
  <2>5. \A k \in Tool : Among(Tail(events), ToolStarts(k)) => Among(events, ToolStarts(k))
    BY <1>1, <2>1, OnceInTail
  <2>6. \A k \in Tool : session.activeTurn.toolCalls[k] = "absent" => session'.activeTurn.toolCalls[k] = "absent"
    BY <1>1, <2>2, <2>3, AbsentStays
  <2> QED BY <1>1, <2>1, <2>4, <2>5, <2>6 DEF ToolsFresh, ToolInv
<1>5. CASE Sdk
  <2>1. session' = session
    BY <1>5, SdkReports
  <2>2. CASE UNCHANGED <<events, usedTools>>
    BY <1>1, <2>1, <2>2 DEF ToolInv
  <2>3. ASSUME NEW e \in Event, events' = Append(events, e), e.type # "tool_start", usedTools' = usedTools
        PROVE  ToolInv'
    <3>1. \A k \in Tool : e \notin ToolStarts(k)
      BY <2>3 DEF ToolStarts
    <3>2. \A k \in Tool : /\ Among(events', ToolStarts(k)) <=> Among(events, ToolStarts(k))
                          /\ AtMostOnce(events', ToolStarts(k))
      BY <1>1, <2>3, <3>1, OnceInAppend DEF ToolsFresh
    <3> QED BY <1>1, <2>1, <2>3, <3>2 DEF ToolsFresh, ToolInv
  <2>4. ASSUME NEW e \in Event, events' = Append(events, e), e.type = "tool_start",
               e.tool \in Tool \ usedTools, usedTools' = usedTools \cup {e.tool}
        PROVE  ToolInv'
    <3>1. \A k \in Tool : e \in ToolStarts(k) <=> k = e.tool
      BY <2>4 DEF ToolStarts
    <3>2. ~Among(events, ToolStarts(e.tool)) /\ session.activeTurn.toolCalls[e.tool] = "absent"
      BY <1>1, <2>4 DEF ToolsFresh
    <3>3. ASSUME NEW k \in Tool
          PROVE  /\ Among(events', ToolStarts(k)) <=> Among(events, ToolStarts(k)) \/ k = e.tool
                 /\ AtMostOnce(events', ToolStarts(k))
      <4>1. AtMostOnce(events, ToolStarts(k))
        BY <1>1 DEF ToolsFresh
      <4> QED BY <1>1, <2>4, <3>1, <3>2, <4>1, OnceInAppend
    <3> QED BY <1>1, <2>1, <2>4, <3>2, <3>3 DEF ToolsFresh, ToolInv
  <2> QED BY <1>5, <2>2, <2>3, <2>4, SdkReports
<1>6. CASE (\E t \in Turn : StartTurn(t)) \/ CancelTurn \/ AnswerSome
  BY <1>1, <1>6, DispatchedType DEF sdk, pipe, ToolInv
<1>7. CASE ReceiveEnvelope
  BY <1>1, <1>7 DEF ReceiveEnvelope, server, sdk, pipe, ToolInv
<1>8. CASE UNCHANGED vars
  BY <1>1, <1>8 DEF vars, server, sdk, pipe, ToolInv
<1> QED BY <1>2, <1>3, <1>4, <1>5, <1>6, <1>7, <1>8 DEF Next

LEMMA OutcomeStep ==
  ASSUME TypeInv, TurnInv, ToolInv, [Next]_vars,
         session'.activeTurn.id = session.activeTurn.id,
         NEW k \in Tool, session.activeTurn.toolCalls[k] \in Settled
  PROVE  session'.activeTurn.toolCalls[k] = session.activeTurn.toolCalls[k]
<1>1. /\ session \in SessionState /\ toServer \in Seq(OwnAction) /\ events \in Seq(Event)
      /\ ToolsFresh(session, events, usedTools) /\ TurnsOnce(session, toServer, usedTurns)
      /\ session.activeTurn \in ActiveTurn
  BY DEF TypeInv, TypeOK, QueueTypes, ToolInv, TurnInv, SessionState
<1>2. CASE HandleDispatchAction
  <2> DEFINE a == Head(toServer)
  <2>1. toServer # <<>> /\ session' = ReduceAll(session, <<a>>)
    BY <1>2 DEF HandleDispatchAction, Apply
  <2>2. a \in OwnAction /\ a \in Action
    BY <1>1, <2>1, HeadAndTail, OwnTypes
  <2>3. session' = Reduce(session, a) /\ a.type \notin {"toolCallStart", "toolCallReady"}
    BY <2>1, <2>2, ReduceOne, OwnKinds
  <2>4. ASSUME a.type = "turnStarted"
        PROVE  a.turn # session.activeTurn.id
    <3>1. a.turn \in Turn /\ a \in Started(a.turn)
      BY <2>2, <2>4, OwnKinds DEF Started
    <3>2. Among(toServer, Started(a.turn))
      BY <1>1, <2>1, <3>1, OnceInTail
    <3> QED BY <1>1, <3>1, <3>2 DEF TurnsOnce
  <2> HIDE DEF a
  <2> QED BY <1>1, <2>2, <2>3, <2>4, SettledStays
<1>3. CASE HandleProgress
  <2> DEFINE e == Head(events)
             id == session.activeTurn.id
  <2>1. events # <<>> /\ e.type # "sendFailed" /\ e \in Event /\ session' = ReduceAll(session, Arriving)
    BY <1>1, <1>3, HeadAndTail DEF HandleProgress, Apply, Arriving
  <2>2. CASE id = NoTurn
    <3>1. Arriving = <<>>
      BY <2>2 DEF Arriving
    <3>2. session' = session
      BY <2>1, <3>1, FoldEmpty DEF ReduceAll
    <3> QED BY <3>2
  <2>3. CASE id # NoTurn
    <3>1. id \in Turn /\ Arriving = ActionsOf(e, id)
      BY <1>1, <2>3 DEF Arriving, ActiveTurn
    <3> HIDE DEF e, id
    <3>2. \/ /\ e.type = "tool_start"
             /\ \E a, b \in AgentAction :
                  /\ Arriving = <<a, b>>
                  /\ a.turn = id /\ a.type = "toolCallStart" /\ a.tool = e.tool
                  /\ b.turn = id /\ b.type = "toolCallReady" /\ b.tool = e.tool
          \/ \E a \in AgentAction : Arriving = <<a>> /\ a.type \notin {"toolCallStart", "toolCallReady"}
      BY <2>1, <3>1, ActionsOfKinds DEF TurnEnd
    <3>3. CASE \E a \in AgentAction : Arriving = <<a>> /\ a.type \notin {"toolCallStart", "toolCallReady"}
      <4>1. PICK a \in AgentAction : Arriving = <<a>> /\ a.type \notin {"toolCallStart", "toolCallReady"}
        BY <3>3
      <4>2. session' = Reduce(session, a) /\ a \in Action /\ a.type # "turnStarted"
        BY <2>1, <4>1, ReduceOne, OwnTypes DEF AgentAction, OwnType
      <4> QED BY <1>1, <4>1, <4>2, SettledStays
    <3>4. CASE /\ e.type = "tool_start"
               /\ \E a, b \in AgentAction :
                    /\ Arriving = <<a, b>>
                    /\ a.turn = id /\ a.type = "toolCallStart" /\ a.tool = e.tool
                    /\ b.turn = id /\ b.type = "toolCallReady" /\ b.tool = e.tool
      <4>1. PICK a, b \in AgentAction :
                    /\ Arriving = <<a, b>>
                    /\ a.turn = id /\ a.type = "toolCallStart" /\ a.tool = e.tool
                    /\ b.turn = id /\ b.type = "toolCallReady" /\ b.tool = e.tool
        BY <3>4
      <4>2. a \in Action /\ b \in Action /\ session' = Reduce(Reduce(session, a), b)
        BY <2>1, <4>1, ReduceTwo, OwnTypes
      <4>3. e.tool # k
        <5>1. e.tool \in Tool /\ e \in ToolStarts(e.tool)
          BY <2>1, <3>4, EventKinds DEF ToolStarts
        <5>2. Among(events, ToolStarts(e.tool))
          BY <1>1, <2>1, <5>1, OnceInTail DEF e
        <5>3. session.activeTurn.toolCalls[e.tool] = "absent"
          BY <1>1, <5>1, <5>2 DEF ToolsFresh
        <5> QED BY <5>3 DEF Settled
      <4> DEFINE mid == Reduce(session, a)
      <4>4. mid \in SessionState /\ mid.activeTurn.id = session.activeTurn.id
        BY <1>1, <4>1, <4>2, ReduceTool DEF ToolActionType, id
      <4>5. mid.activeTurn.toolCalls[k] = session.activeTurn.toolCalls[k]
        BY <1>1, <4>1, <4>2, <4>3, <4>4, SettledStays
      <4> HIDE DEF mid
      <4>6. Reduce(mid, b).activeTurn.id = mid.activeTurn.id
        BY <4>2, <4>4 DEF mid
      <4>7. Reduce(mid, b).activeTurn.toolCalls[k] = mid.activeTurn.toolCalls[k]
        BY <4>1, <4>2, <4>3, <4>4, <4>5, <4>6, SettledStays
      <4> QED BY <4>2, <4>5, <4>7 DEF mid
    <3> QED BY <3>2, <3>3, <3>4
  <2> QED BY <2>2, <2>3
<1>4. CASE HandleSendFailed
  <2> DEFINE a == [type |-> "error", turn |-> Head(events).turn]
  <2>1. events # <<>> /\ Head(events).type = "sendFailed" /\ Head(events) \in Event /\ session' = ReduceAll(session, <<a>>)
    BY <1>1, <1>4, HeadAndTail DEF HandleSendFailed, Apply
  <2>2. a \in Action /\ a.type = "error"
    BY <2>1, EventKinds DEF Action, TurnAction
  <2> HIDE DEF a
  <2>3. session' = Reduce(session, a)
    BY <2>1, <2>2, ReduceOne
  <2> QED BY <1>1, <2>2, <2>3, SettledStays
<1>5. CASE Sdk
  BY <1>5, SdkReports
<1>6. CASE (\E t \in Turn : StartTurn(t)) \/ CancelTurn \/ AnswerSome
  BY <1>6, DispatchedType
<1>7. CASE ReceiveEnvelope
  BY <1>7 DEF ReceiveEnvelope, server
<1>8. CASE UNCHANGED vars
  BY <1>8 DEF vars, server
<1> QED BY <1>2, <1>3, <1>4, <1>5, <1>6, <1>7, <1>8 DEF Next

LEMMA ToolsHold == Spec => []ToolInv
<1>1. Init => ToolInv
  <2> SUFFICES ASSUME Init PROVE ToolInv
    OBVIOUS
  <2>1. events = <<>> /\ usedTools = {} /\ \A k \in Tool : session.activeTurn.toolCalls[k] = "absent"
    BY DEF Init, EmptySession, NewTurn
  <2>2. DOMAIN <<>> = {}
    OBVIOUS
  <2> QED BY <2>1, <2>2 DEF ToolInv, ToolsFresh, AtMostOnce, Among, ToSet
<1> QED BY TypesHold, ToolStep, <1>1, PTL DEF Spec

\* While its turn is active the outcome of a tool call stays: no event and no
\* answer that comes later undoes a denial or a result.
THEOREM OutcomesStay == Spec => ToolOutcomeSticks
<1> DEFINE Sticks ==
      session'.activeTurn.id = session.activeTurn.id =>
        \A k \in Tool : session.activeTurn.toolCalls[k] \in Settled =>
          session'.activeTurn.toolCalls[k] = session.activeTurn.toolCalls[k]
<1>1. TypeInv /\ TurnInv /\ ToolInv /\ [Next]_vars => [Sticks]_vars
  <2> SUFFICES ASSUME TypeInv, TurnInv, ToolInv, [Next]_vars PROVE Sticks
    OBVIOUS
  <2> QED BY OutcomeStep
<1> QED BY TypesHold, TurnsHold, ToolsHold, <1>1, PTL DEF Spec, ToolOutcomeSticks

----------------------------------------------------------------------------
(* The window's copy: with what is on its way to it, it is the session *)

Actions(w) == [i \in DOMAIN w |-> w[i].action]
SyncInv == ReduceAll(confirmed, Actions(toWindow)) = session

LEMMA ActionsType ==
  ASSUME NEW w \in Seq(Envelope)
  PROVE  Actions(w) \in Seq(Action) /\ Len(Actions(w)) = Len(w)
<1>1. /\ Len(w) \in Nat /\ DOMAIN w = 1..Len(w)
      /\ \A i \in DOMAIN w : w[i].action \in Action
  BY OwnTypes
<1>2. DOMAIN Actions(w) = 1..Len(w)
  BY <1>1 DEF Actions
<1>3. \A i \in 1..Len(w) : Actions(w)[i] \in Action
  BY <1>1 DEF Actions
<1>4. Actions(w) = [i \in 1..Len(w) |-> Actions(w)[i]]
  BY <1>1 DEF Actions
<1> QED BY <1>1, <1>3, <1>4, IsSequence

LEMMA ActionsTail ==
  ASSUME NEW w \in Seq(Envelope), w # <<>>
  PROVE  /\ Actions(w) # <<>> /\ Head(Actions(w)) = Head(w).action
         /\ Tail(Actions(w)) = Actions(Tail(w))
<1>1. /\ Len(w) \in Nat \ {0} /\ Tail(w) \in Seq(Envelope) /\ Len(Tail(w)) + 1 = Len(w)
      /\ Head(w) = w[1]
      /\ \A i \in DOMAIN Tail(w) : i + 1 \in DOMAIN w /\ Tail(w)[i] = w[i + 1]
  BY HeadAndTail
<1> DEFINE A == Actions(w)
           B == Actions(Tail(w))
<1>2. /\ A \in Seq(Action) /\ Len(A) = Len(w) /\ B \in Seq(Action) /\ Len(B) = Len(Tail(w))
  BY <1>1, ActionsType
<1>3. /\ \A i \in DOMAIN w : A[i] = w[i].action
      /\ \A i \in DOMAIN Tail(w) : B[i] = Tail(w)[i].action
  BY DEF Actions
<1>4. DOMAIN w = 1..Len(w) /\ DOMAIN Tail(w) = 1..Len(Tail(w))
  BY <1>1
<1> HIDE DEF A, B
<1>5. A # <<>>
  BY <1>1, <1>2
<1>6. /\ Tail(A) \in Seq(Action) /\ Len(Tail(A)) + 1 = Len(A) /\ Head(A) = A[1]
      /\ \A i \in DOMAIN Tail(A) : Tail(A)[i] = A[i + 1]
  BY <1>2, <1>5, HeadAndTail
<1>7. Head(A) = Head(w).action
  <2>1. 1 \in DOMAIN w
    BY <1>1, <1>4
  <2> QED BY <1>1, <1>3, <1>6, <2>1
<1>8. Len(Tail(A)) = Len(B)
  <2>1. Len(Tail(A)) \in Nat /\ Len(B) \in Nat
    BY <1>2, <1>6
  <2> QED BY <1>1, <1>2, <1>6, <2>1
<1>9. ASSUME NEW i \in 1..Len(Tail(A))
      PROVE  Tail(A)[i] = B[i]
  <2>1. i \in DOMAIN Tail(A) /\ i \in DOMAIN Tail(w)
    BY <1>2, <1>4, <1>6, <1>8
  <2> QED BY <1>1, <1>3, <1>6, <2>1
<1>10. Tail(A) = B
  BY <1>2, <1>6, <1>8, <1>9, SeqEqual
<1> QED BY <1>5, <1>7, <1>10 DEF A, B

LEMMA ActionsConcat ==
  ASSUME NEW w \in Seq(Envelope), NEW ms \in Seq(Envelope), NEW q \in Seq(Action),
         Len(ms) = Len(q), \A i \in 1..Len(q) : ms[i].action = q[i]
  PROVE  Actions(w \o ms) = Actions(w) \o q
<1> DEFINE wm == w \o ms
           A == Actions(wm)
           v == Actions(w)
           B == v \o q
<1>1. /\ wm \in Seq(Envelope) /\ Len(w) \in Nat /\ Len(q) \in Nat
      /\ Len(wm) = Len(w) + Len(q)
      /\ \A i \in 1..Len(w) : wm[i] = w[i]
      /\ \A i \in 1..Len(q) : wm[Len(w) + i] = ms[i]
  <2>1. /\ w \o ms \in Seq(Envelope) /\ Len(w) \in Nat /\ Len(ms) \in Nat
        /\ Len(w \o ms) = Len(w) + Len(ms)
    BY Concatenated
  <2>2. \A i \in 1..Len(w) : (w \o ms)[i] = w[i]
    BY Concatenated
  <2>3. \A i \in 1..Len(ms) : (w \o ms)[Len(w) + i] = ms[i]
    BY Concatenated
  <2> QED BY <2>1, <2>2, <2>3
<1>2. v \in Seq(Action) /\ Len(v) = Len(w)
  BY ActionsType
<1>3. \A i \in 1..Len(w) : v[i] = w[i].action
  BY DEF Actions
<1> HIDE DEF wm
<1>4. A \in Seq(Action) /\ Len(A) = Len(w) + Len(q)
  BY <1>1, ActionsType
<1>5. \A i \in 1..Len(wm) : A[i] = wm[i].action
  BY <1>1 DEF Actions
<1> HIDE DEF v, A
<1>6. /\ B \in Seq(Action) /\ Len(B) = Len(w) + Len(q)
      /\ \A i \in 1..Len(w) : B[i] = v[i]
      /\ \A i \in 1..Len(q) : B[Len(w) + i] = q[i]
  <2>1. v \in Seq(Action)
    BY <1>2
  <2>2. /\ v \o q \in Seq(Action) /\ Len(v \o q) = Len(v) + Len(q)
        /\ \A i \in 1..Len(v) : (v \o q)[i] = v[i]
        /\ \A i \in 1..Len(q) : (v \o q)[Len(v) + i] = q[i]
    BY <2>1, Concatenated
  <2> QED BY <1>2, <2>2
<1> HIDE DEF B
<1>7. ASSUME NEW i \in 1..Len(A)
      PROVE  A[i] = B[i]
  <2>1. i \in 1..Len(wm)
    BY <1>1, <1>4
  <2>2. CASE i <= Len(w)
    <3>1. i \in 1..Len(w)
      BY <1>1, <2>2
    <3>2. A[i] = w[i].action
      BY <1>1, <1>5, <2>1, <3>1
    <3>3. B[i] = w[i].action
      BY <1>3, <1>6, <3>1
    <3> QED BY <3>2, <3>3
  <2>3. CASE i > Len(w)
    <3>1. PICK j \in 1..Len(q) : i = Len(w) + j
      <4>1. i - Len(w) \in 1..Len(q) /\ i = Len(w) + (i - Len(w))
        BY <1>1, <1>4, <2>3
      <4> QED BY <4>1
    <3> QED BY <1>1, <1>5, <1>6, <2>1, <3>1
  <2> QED BY <1>1, <2>2, <2>3
<1>8. A = B
  BY <1>4, <1>6, <1>7, SeqEqual
<1> QED BY <1>8 DEF A, B, v, wm

LEMMA SyncOfApply ==
  ASSUME confirmed \in SessionState, toWindow \in Seq(Envelope), SyncInv, UNCHANGED confirmed,
         NEW q, NEW own \in BOOLEAN, q \in IF own THEN Seq(OwnAction) ELSE Seq(AgentAction),
         Apply(q, own)
  PROVE  SyncInv'
<1>1. toWindow' = toWindow \o Envelopes(q, own) /\ session' = ReduceAll(session, q)
  BY DEF Apply, Envelopes
<1>2. Actions(toWindow \o Envelopes(q, own)) = Actions(toWindow) \o q
  <2> DEFINE ms == Envelopes(q, own)
  <2>1. /\ ms \in Seq(Envelope) /\ q \in Seq(Action) /\ Len(ms) = Len(q)
        /\ \A i \in DOMAIN q : ms[i].action = q[i]
    BY EnvelopesType
  <2>2. DOMAIN q = 1..Len(q)
    BY <2>1
  <2> HIDE DEF ms
  <2>3. Actions(toWindow \o ms) = Actions(toWindow) \o q
    BY <2>1, <2>2, ActionsConcat
  <2> QED BY <2>3 DEF ms
<1>3. Actions(toWindow) \in Seq(Action) /\ q \in Seq(Action)
  BY ActionsType, EnvelopesType
<1>4. ReduceAll(confirmed, Actions(toWindow) \o q) = ReduceAll(ReduceAll(confirmed, Actions(toWindow)), q)
  BY <1>3, FoldConcat DEF ReduceAll
<1>5. Actions(toWindow') = Actions(toWindow) \o q
  BY <1>1, <1>2
<1> QED BY <1>1, <1>4, <1>5 DEF SyncInv

LEMMA SyncStep == TypeInv /\ EchoInv /\ SyncInv /\ [Next]_vars => SyncInv'
<1> SUFFICES ASSUME TypeInv, EchoInv, SyncInv, [Next]_vars PROVE SyncInv'
  OBVIOUS
<1>1. /\ confirmed \in SessionState /\ toWindow \in Seq(Envelope) /\ session \in SessionState
      /\ toServer \in Seq(OwnAction) /\ events \in Seq(Event)
  BY DEF TypeInv, TypeOK, QueueTypes
<1>2. CASE HandleDispatchAction
  <2>1. /\ Apply(<<Head(toServer)>>, TRUE) /\ toServer # <<>> /\ UNCHANGED confirmed
    BY <1>2, Zenon DEF HandleDispatchAction, window
  <2>2. <<Head(toServer)>> \in Seq(OwnAction)
    <3>1. Head(toServer) \in OwnAction
      BY <1>1, <2>1, HeadAndTail
    <3> QED BY <3>1
  <2> QED BY <1>1, <2>1, <2>2, SyncOfApply
<1>3. CASE HandleProgress
  <2>1. Apply(Arriving, FALSE) /\ UNCHANGED confirmed /\ events # <<>> /\ Head(events).type # "sendFailed"
    BY <1>3 DEF HandleProgress, Arriving, window
  <2>2. Arriving \in Seq(AgentAction)
    BY <1>1, <2>1, ArrivingType
  <2> QED BY <1>1, <2>1, <2>2, SyncOfApply
<1>4. CASE HandleSendFailed
  <2> DEFINE a == [type |-> "error", turn |-> Head(events).turn]
  <2>1. Apply(<<a>>, FALSE) /\ UNCHANGED confirmed /\ events # <<>> /\ Head(events).type = "sendFailed"
    BY <1>4, Zenon DEF HandleSendFailed, window
  <2>2. a \in AgentAction
    BY <1>1, <2>1, HeadAndTail, EventKinds DEF AgentAction, OwnType, Action, TurnAction
  <2> HIDE DEF a
  <2>3. <<a>> \in Seq(AgentAction)
    BY <2>2
  <2> QED BY <1>1, <2>1, <2>3, SyncOfApply
<1>5. CASE Sdk
  BY <1>5, SdkReports DEF window, SyncInv
<1>6. CASE (\E t \in Turn : StartTurn(t)) \/ CancelTurn \/ AnswerSome
  BY <1>6, DispatchedType DEF SyncInv
<1>7. CASE ReceiveEnvelope
  <2>1. /\ toWindow # <<>> /\ toWindow' = Tail(toWindow) /\ session' = session
        /\ confirmed' = Reduce(confirmed, Head(toWindow).action)
    BY <1>7, ReceiveEffect
  <2> DEFINE A == Actions(toWindow)
  <2>2. A \in Seq(Action) /\ A # <<>> /\ Head(A) = Head(toWindow).action /\ Tail(A) = Actions(Tail(toWindow))
    BY <1>1, <2>1, ActionsType, ActionsTail
  <2> HIDE DEF A
  <2>3. ReduceAll(confirmed, A) = ReduceAll(Reduce(confirmed, Head(A)), Tail(A))
    BY <2>2, FoldCons DEF ReduceAll
  <2>4. Tail(A) = Actions(toWindow')
    BY <2>1, <2>2
  <2> QED BY <2>1, <2>2, <2>3, <2>4 DEF SyncInv, A
<1>8. CASE UNCHANGED vars
  BY <1>8 DEF vars, server, window, net, SyncInv
<1> QED BY <1>2, <1>3, <1>4, <1>5, <1>6, <1>7, <1>8 DEF Next

----------------------------------------------------------------------------
(* What a window sees when an action of the agent reaches it *)

\* An action of the agent adds the request it is about, ends the turn it is
\* about, or changes neither the turn nor the requests.
LEMMA ReduceAgent ==
  ASSUME NEW st \in SessionState, NEW a \in AgentAction
  PROVE  LET old == st.activeTurn
             new == Reduce(st, a).activeTurn
         IN /\ Reduce(st, a) \in SessionState
            /\ \/ new.id = old.id /\ new.pendingPermissions = old.pendingPermissions
               \/ /\ a.type = "permissionRequest" /\ a.request \in Request /\ a.turn = old.id
                  /\ new.id = old.id
                  /\ new.pendingPermissions = old.pendingPermissions \cup {a.request}
               \/ a.type # "permissionRequest" /\ a.turn = old.id /\ new = NewTurn(NoTurn)
<1>1. a \in Action /\ a.type \notin OwnType /\ Reduce(st, a) \in SessionState
  BY ReduceType DEF AgentAction
<1>2. st.activeTurn \in ActiveTurn
  BY DEF SessionState
<1>3. CASE a.turn # st.activeTurn.id
  <2>1. a.type # "turnStarted"
    BY <1>1 DEF OwnType
  <2> QED BY <1>1, <1>3, <2>1, ReduceOther
<1>4. CASE a.type \in TurnEnd /\ a.turn = st.activeTurn.id
  BY <1>1, <1>4, ReduceEnd DEF TurnEnd
<1>5. CASE a.type = "permissionRequest" /\ a.turn = st.activeTurn.id
  <2>1. a.request \in Request
    BY <1>1, <1>5, ActionKinds DEF TurnEnd
  <2> QED BY <1>1, <1>2, <1>5, <2>1, ReduceRequest, RequestPermissionType
<1>6. CASE a.type \in ToolActionType /\ a.turn = st.activeTurn.id
  BY <1>1, <1>6, ReduceTool
<1> QED BY <1>1, <1>3, <1>4, <1>5, <1>6, ActionKinds DEF OwnType, ToolActionType

\* How the states before and after it differ, and still differ under the
\* actions the window has pending.
Differ(a, x, y) ==
  /\ x \in SessionState /\ y \in SessionState
  /\ \/ /\ x.activeTurn.id = y.activeTurn.id
        /\ x.activeTurn.pendingPermissions = y.activeTurn.pendingPermissions
     \/ /\ a.type = "permissionRequest"
        /\ x.activeTurn.id = y.activeTurn.id
        /\ y.activeTurn.pendingPermissions = x.activeTurn.pendingPermissions \cup {a.request}
     \/ /\ a.type # "permissionRequest"
        /\ x.activeTurn.id = a.turn /\ y.activeTurn = NewTurn(NoTurn)

LEMMA StillDiffer ==
  ASSUME NEW a \in AgentAction, NEW x, NEW y, Differ(a, x, y), NEW b \in OwnAction
  PROVE  Differ(a, Reduce(x, b), Reduce(y, b))
<1> DEFINE u == Reduce(x, b)
           v == Reduce(y, b)
<1>1. x \in SessionState /\ y \in SessionState
  BY DEF Differ
<1>2. /\ u \in SessionState
      /\ \/ b.type = "turnStarted" /\ u.activeTurn = NewTurn(b.turn)
         \/ b.type # "turnStarted" /\ b.turn # x.activeTurn.id /\ u.activeTurn = x.activeTurn
         \/ b.type = "turnCancelled" /\ b.turn = x.activeTurn.id /\ u.activeTurn = NewTurn(NoTurn)
         \/ /\ b.type = "permissionResolved" /\ b.turn = x.activeTurn.id
            /\ u.activeTurn.id = x.activeTurn.id
            /\ u.activeTurn.pendingPermissions = x.activeTurn.pendingPermissions \ {b.request}
  BY <1>1, ReduceOwn
<1>3. /\ v \in SessionState
      /\ \/ b.type = "turnStarted" /\ v.activeTurn = NewTurn(b.turn)
         \/ b.type # "turnStarted" /\ b.turn # y.activeTurn.id /\ v.activeTurn = y.activeTurn
         \/ b.type = "turnCancelled" /\ b.turn = y.activeTurn.id /\ v.activeTurn = NewTurn(NoTurn)
         \/ /\ b.type = "permissionResolved" /\ b.turn = y.activeTurn.id
            /\ v.activeTurn.id = y.activeTurn.id
            /\ v.activeTurn.pendingPermissions = y.activeTurn.pendingPermissions \ {b.request}
  BY <1>1, ReduceOwn
<1>4. b.turn \in Turn /\ NewTurn(NoTurn).id = NoTurn
  BY OwnKinds DEF NewTurn
<1> SUFFICES Differ(a, u, v)
  OBVIOUS
<1> HIDE DEF u, v
<1>8. ASSUME u.activeTurn.id = v.activeTurn.id,
             u.activeTurn.pendingPermissions = v.activeTurn.pendingPermissions
      PROVE  Differ(a, u, v)
  BY <1>2, <1>3, <1>8 DEF Differ
<1>9. ASSUME a.type = "permissionRequest", u.activeTurn.id = v.activeTurn.id,
             v.activeTurn.pendingPermissions = u.activeTurn.pendingPermissions \cup {a.request}
      PROVE  Differ(a, u, v)
  BY <1>2, <1>3, <1>9 DEF Differ
<1>10. ASSUME a.type # "permissionRequest", u.activeTurn.id = a.turn, v.activeTurn = NewTurn(NoTurn)
       PROVE  Differ(a, u, v)
  BY <1>2, <1>3, <1>10 DEF Differ
<1>11. \/ /\ x.activeTurn.id = y.activeTurn.id
          /\ x.activeTurn.pendingPermissions = y.activeTurn.pendingPermissions
       \/ /\ a.type = "permissionRequest"
          /\ x.activeTurn.id = y.activeTurn.id
          /\ y.activeTurn.pendingPermissions = x.activeTurn.pendingPermissions \cup {a.request}
       \/ /\ a.type # "permissionRequest"
          /\ x.activeTurn.id = a.turn /\ y.activeTurn = NewTurn(NoTurn)
  BY DEF Differ
<1>5. CASE b.type = "turnStarted"
  <2>1. u.activeTurn = NewTurn(b.turn) /\ v.activeTurn = NewTurn(b.turn)
    BY <1>2, <1>3, <1>5
  <2> QED BY <1>8, <2>1
<1>6. CASE b.type # "turnStarted" /\ x.activeTurn.id = y.activeTurn.id
  <2>1. CASE b.turn # x.activeTurn.id
    <3>1. u.activeTurn = x.activeTurn /\ v.activeTurn = y.activeTurn
      BY <1>2, <1>3, <1>6, <2>1
    <3> QED BY <1>8, <1>9, <1>10, <1>11, <3>1
  <2>2. CASE b.turn = x.activeTurn.id /\ b.type = "turnCancelled"
    <3>1. u.activeTurn = NewTurn(NoTurn) /\ v.activeTurn = NewTurn(NoTurn)
      BY <1>2, <1>3, <1>6, <2>2
    <3> QED BY <1>8, <3>1
  <2>3. CASE b.turn = x.activeTurn.id /\ b.type # "turnCancelled"
    <3>1. /\ u.activeTurn.id = v.activeTurn.id
          /\ u.activeTurn.pendingPermissions = x.activeTurn.pendingPermissions \ {b.request}
          /\ v.activeTurn.pendingPermissions = y.activeTurn.pendingPermissions \ {b.request}
      BY <1>2, <1>3, <1>6, <2>3
    <3>2. \/ x.activeTurn.pendingPermissions = y.activeTurn.pendingPermissions
          \/ /\ a.type = "permissionRequest"
             /\ y.activeTurn.pendingPermissions = x.activeTurn.pendingPermissions \cup {a.request}
      BY <1>4, <1>6, <1>11, <2>3
    <3>3. \/ u.activeTurn.pendingPermissions = v.activeTurn.pendingPermissions
          \/ /\ a.type = "permissionRequest"
             /\ v.activeTurn.pendingPermissions = u.activeTurn.pendingPermissions \cup {a.request}
      BY <3>1, <3>2
    <3> QED BY <1>8, <1>9, <3>1, <3>3
  <2> QED BY <2>1, <2>2, <2>3
<1>7. CASE b.type # "turnStarted" /\ x.activeTurn.id # y.activeTurn.id
  <2>1. a.type # "permissionRequest" /\ x.activeTurn.id = a.turn /\ y.activeTurn = NewTurn(NoTurn)
    BY <1>7, <1>11
  <2>2. v.activeTurn = NewTurn(NoTurn)
    BY <1>3, <1>4, <1>7, <2>1
  <2>3. u.activeTurn.id = a.turn \/ u.activeTurn = NewTurn(NoTurn)
    BY <1>2, <1>7, <2>1
  <2> QED BY <1>8, <1>10, <2>1, <2>2, <2>3
<1> QED BY <1>5, <1>6, <1>7

LEMMA StepsDiffer ==
  ASSUME NEW conf \in SessionState, NEW pend \in Seq(OwnAction), NEW a \in AgentAction,
         NEW t, Steps(conf, pend, t), NEW u, Steps(Reduce(conf, a), pend, u),
         NEW i \in Nat, i <= Len(pend)
  PROVE  Differ(a, t[i], u[i])
<1> DEFINE R == {z \in SessionState \X SessionState : Differ(a, z[1], z[2])}
<1>1. \A x, y : <<x, y>> \in R <=> Differ(a, x, y)
  BY DEF Differ
<1>2. Differ(a, conf, Reduce(conf, a))
  BY ReduceAgent DEF Differ
<1> HIDE DEF R
<1>3. ASSUME NEW x, NEW y, <<x, y>> \in R, NEW k \in 1..Len(pend)
      PROVE  <<Reduce(x, pend[k]), Reduce(y, pend[k])>> \in R
  <2>1. pend[k] \in OwnAction
    OBVIOUS
  <2> QED BY <1>1, <1>3, <2>1, StillDiffer
<1>4. <<t[i], u[i]>> \in R
  BY <1>1, <1>2, <1>3, StepsRelate
<1> QED BY <1>1, <1>4

LEMMA SeenDiffer ==
  ASSUME NEW conf \in SessionState, NEW pend \in Seq(OwnAction), NEW a \in AgentAction
  PROVE  Differ(a, Optimistic(conf, pend), Optimistic(Reduce(conf, a), pend))
<1>1. PICK t : Steps(conf, pend, t) /\ FoldLeft(Reduce, conf, pend) = t[Len(pend)]
  BY FoldSteps
<1>2. PICK u : Steps(Reduce(conf, a), pend, u) /\ FoldLeft(Reduce, Reduce(conf, a), pend) = u[Len(pend)]
  BY FoldSteps
<1>3. Len(pend) \in Nat /\ Len(pend) <= Len(pend)
  OBVIOUS
<1>4. Differ(a, t[Len(pend)], u[Len(pend)])
  BY <1>1, <1>2, <1>3, StepsDiffer
<1> QED BY <1>1, <1>2, <1>4 DEF Optimistic, ReduceAll

----------------------------------------------------------------------------
(* A request is on its way to the window at most once, and unknown to it   *)
(* until it arrives.                                                       *)

AskEvents(r) == {e \in Event : e.type = "permission_request" /\ e.request = r}
Asks(r) == {m \in Envelope : m.action.type = "permissionRequest" /\ m.action.request = r}

\* ev and w are the events and the envelopes on their way, used the requests
\* ever made, known those the window has heard of.
RequestsFresh(ev, w, used, known) ==
  \A r \in Request :
    /\ AtMostOnce(ev, AskEvents(r)) /\ AtMostOnce(w, Asks(r))
    /\ ~(Among(ev, AskEvents(r)) /\ Among(w, Asks(r)))
    /\ Among(ev, AskEvents(r)) \/ Among(w, Asks(r)) => r \in used
    /\ r \notin used \/ Among(ev, AskEvents(r)) \/ Among(w, Asks(r)) => r \notin known

\* The requests the window has heard of: in its copy of the session, shown to
\* the user, or answered.
Answers(q) == {a.request : a \in {b \in ToSet(q) : b.type = "permissionResolved"}}
Known ==
  confirmed.activeTurn.pendingPermissions \cup shown \cup {p.request : p \in prompts}
  \cup Answers(pending)
AskInv == RequestsFresh(events, toWindow, usedRequests, Known)

\* The envelopes of an event ask for the request of that event.
LEMMA ArrivingAsks ==
  ASSUME TypeInv, events # <<>>, Head(events).type # "sendFailed", NEW r \in Request
  PROVE  /\ Envelopes(Arriving, FALSE) \in Seq(Envelope)
         /\ AtMostOnce(Envelopes(Arriving, FALSE), Asks(r))
         /\ Among(Envelopes(Arriving, FALSE), Asks(r)) => Head(events) \in AskEvents(r)
<1> DEFINE e  == Head(events)
           q  == Arriving
           ms == Envelopes(q, FALSE)
<1>1. session \in SessionState /\ events \in Seq(Event) /\ e \in Event
  BY HeadAndTail DEF TypeInv, TypeOK, QueueTypes
<1>2. q \in Seq(AgentAction)
  BY <1>1, ArrivingType
<1>3. \/ Len(q) = 0
      \/ \E t \in Turn : q = ActionsOf(e, t)
  <2>1. CASE session.activeTurn.id = NoTurn
    BY <2>1 DEF Arriving
  <2>2. CASE session.activeTurn.id # NoTurn
    BY <1>1, <2>2 DEF Arriving, SessionState, ActiveTurn
  <2> QED BY <2>1, <2>2
<1> HIDE DEF q, e
<1>4. /\ ms \in Seq(Envelope) /\ Len(ms) = Len(q) /\ Len(q) \in Nat
      /\ \A i \in 1..Len(q) : ms[i].action = q[i]
  <2>1. q \in IF FALSE THEN Seq(OwnAction) ELSE Seq(AgentAction)
    BY <1>2
  <2>2. /\ ms \in Seq(Envelope) /\ Len(ms) = Len(q)
        /\ \A i \in DOMAIN q : ms[i].action = q[i]
    BY <2>1, EnvelopesType
  <2>3. DOMAIN q = 1..Len(q) /\ Len(q) \in Nat
    BY <1>2
  <2> QED BY <2>2, <2>3
<1> HIDE DEF ms
<1>5. \/ \A i \in 1..Len(q) : q[i].type # "permissionRequest"
      \/ Len(q) = 1 /\ e.type = "permission_request" /\ q[1].request = e.request
  <2>1. CASE Len(q) = 0
    BY <2>1
  <2>2. ASSUME NEW t \in Turn, q = ActionsOf(e, t)
        PROVE  \/ \A i \in 1..Len(q) : q[i].type # "permissionRequest"
               \/ Len(q) = 1 /\ e.type = "permission_request" /\ q[1].request = e.request
    <3>1. e.type # "sendFailed"
      BY DEF e
    <3>2. \/ \E a, b : q = <<a, b>> /\ a.type = "toolCallStart" /\ b.type = "toolCallReady"
          \/ \E a : q = <<a>> /\ a.type = "toolCallComplete"
          \/ \E a : q = <<a>> /\ e.type = "permission_request" /\ a.request = e.request
          \/ \E a : q = <<a>> /\ a.type \in TurnEnd
      BY <1>1, <2>2, <3>1, ActionsOfKinds
    <3>3. CASE \E a, b : q = <<a, b>> /\ a.type = "toolCallStart" /\ b.type = "toolCallReady"
      BY <3>3
    <3>4. CASE \E a : q = <<a>> /\ a.type = "toolCallComplete"
      BY <3>4
    <3>5. CASE \E a : q = <<a>> /\ e.type = "permission_request" /\ a.request = e.request
      BY <3>5
    <3>6. CASE \E a : q = <<a>> /\ a.type \in TurnEnd
      BY <3>6 DEF TurnEnd
    <3> QED BY <3>2, <3>3, <3>4, <3>5, <3>6
  <2> QED BY <1>3, <2>1, <2>2
<1>6. DOMAIN ms = 1..Len(q)
  BY <1>4
<1>7. CASE \A i \in 1..Len(q) : q[i].type # "permissionRequest"
  <2>1. \A i \in DOMAIN ms : ms[i] \notin Asks(r)
    BY <1>4, <1>6, <1>7 DEF Asks
  <2> QED BY <1>4, <2>1 DEF AtMostOnce, Among, ToSet, ms, q
<1>8. CASE Len(q) = 1 /\ e.type = "permission_request" /\ q[1].request = e.request
  <2>1. \A i, j \in DOMAIN ms : i = j
    BY <1>6, <1>8
  <2>2. \A i \in DOMAIN ms : ms[i] \in Asks(r) => e \in AskEvents(r)
    <3>1. \A i \in DOMAIN ms : ms[i].action.request = e.request
      BY <1>4, <1>6, <1>8
    <3> QED BY <1>1, <1>8, <3>1 DEF Asks, AskEvents
  <2> QED BY <1>4, <2>1, <2>2 DEF AtMostOnce, Among, ToSet, ms, q, e
<1> QED BY <1>5, <1>7, <1>8

\* Envelopes that ask for nothing change nothing.
LEMMA AskNothing ==
  ASSUME NEW w \in Seq(Envelope), NEW ms \in Seq(Envelope), NEW r,
         \A i \in DOMAIN ms : ms[i] \notin Asks(r)
  PROVE  /\ Among(w \o ms, Asks(r)) <=> Among(w, Asks(r))
         /\ AtMostOnce(w, Asks(r)) => AtMostOnce(w \o ms, Asks(r))
<1>1. ~Among(ms, Asks(r))
  BY DEF Among, ToSet
<1> QED BY <1>1, OnceInConcat

\* What a window dispatches: a cancellation of the turn it waits for, if any,
\* comes first, and an answer is to one of the prompts.
LEMMA DispatchedActions ==
  ASSUME TypeInv, (\E t \in Turn : StartTurn(t)) \/ CancelTurn \/ AnswerSome
  PROVE  /\ prompts' \subseteq prompts
         /\ \E q \in Seq(OwnAction) :
              /\ Dispatch(q)
              /\ \A i \in 1..Len(q) :
                   /\ q[i].type = "turnCancelled" => i = 1 /\ q[i].turn = running
                   /\ q[i].type = "permissionResolved" =>
                        \E p \in prompts : q[i].turn = p.turn /\ q[i].request = p.request
<1> DEFINE Fits(q) ==
             \A i \in 1..Len(q) :
               /\ q[i].type = "turnCancelled" => i = 1 /\ q[i].turn = running
               /\ q[i].type = "permissionResolved" =>
                    \E p \in prompts : q[i].turn = p.turn /\ q[i].request = p.request
           Goal == prompts' \subseteq prompts /\ \E q \in Seq(OwnAction) : Dispatch(q) /\ Fits(q)
<1>1. \A p, approved :
        /\ Resolved(p, approved).type = "permissionResolved"
        /\ Resolved(p, approved).turn = p.turn /\ Resolved(p, approved).request = p.request
  BY DEF Resolved
<1>2. ASSUME NEW a \in OwnAction, a.type = "turnStarted", Dispatch(<<a>>), prompts' = prompts
      PROVE  Goal
  <2>1. <<a>> \in Seq(OwnAction) /\ Fits(<<a>>)
    BY <1>2
  <2> HIDE DEF Fits
  <2> QED BY <1>2, <2>1
<1>3. ASSUME NEW a \in OwnAction, NEW q \in Seq(OwnAction),
             a.type = "turnCancelled", a.turn = running, Dispatch(<<a>> \o q), prompts' \subseteq prompts,
             \A i \in 1..Len(q) : \E p \in prompts : p.turn = running /\ q[i] = Resolved(p, FALSE)
      PROVE  Goal
  <2> DEFINE all == <<a>> \o q
  <2>2. /\ all \in Seq(OwnAction) /\ Len(all) = 1 + Len(q) /\ Len(q) \in Nat
        /\ all[1] = a /\ \A i \in 1..Len(q) : all[1 + i] = q[i]
    BY OneAndMore
  <2> HIDE DEF all
  <2>3. ASSUME NEW i \in 1..Len(all)
        PROVE  \/ i = 1 /\ all[i] = a
               \/ \E p \in prompts : all[i] = Resolved(p, FALSE)
    <3>1. CASE i = 1
      BY <2>2, <3>1
    <3>2. CASE i # 1
      <4>1. i - 1 \in 1..Len(q) /\ i = 1 + (i - 1)
        BY <2>2, <3>2
      <4>2. all[i] = q[i - 1]
        BY <2>2, <4>1
      <4> QED BY <1>3, <4>1, <4>2
    <3> QED BY <3>1, <3>2
  <2>4. Fits(all)
    <3>1. ASSUME NEW i \in 1..Len(all), i = 1, all[i] = a
          PROVE  /\ all[i].type = "turnCancelled" /\ all[i].turn = running
      BY <1>3, <3>1
    <3>2. ASSUME NEW i \in 1..Len(all), NEW p \in prompts, all[i] = Resolved(p, FALSE)
          PROVE  all[i].type = "permissionResolved" /\ all[i].turn = p.turn /\ all[i].request = p.request
      BY <1>1, <3>2
    <3> QED BY <2>3, <3>1, <3>2
  <2>5. Dispatch(all)
    BY <1>3 DEF all
  <2> HIDE DEF Fits
  <2> QED BY <1>3, <2>2, <2>4, <2>5
<1>4. ASSUME NEW p \in prompts, NEW approved, prompts' = prompts \ {p},
             Resolved(p, approved) \in OwnAction, Dispatch(<<Resolved(p, approved)>>)
      PROVE  Goal
  <2> DEFINE a == Resolved(p, approved)
  <2>1. a.type = "permissionResolved" /\ a.turn = p.turn /\ a.request = p.request /\ a \in OwnAction
    BY <1>1, <1>4
  <2>2. Dispatch(<<a>>)
    BY <1>4
  <2> HIDE DEF a
  <2>3. <<a>> \in Seq(OwnAction) /\ Fits(<<a>>)
    BY <2>1
  <2> HIDE DEF Fits
  <2> QED BY <1>4, <2>2, <2>3
<1> HIDE DEF Goal
<1>5. Goal
  BY <1>2, <1>3, <1>4, DispatchedType
<1> QED BY <1>5 DEF Goal

LEMMA DispatchedAnswers ==
  ASSUME TypeInv, (\E t \in Turn : StartTurn(t)) \/ CancelTurn \/ AnswerSome
  PROVE  Answers(pending') \subseteq Answers(pending) \cup {p.request : p \in prompts}
<1>1. PICK q \in Seq(OwnAction) :
        /\ Dispatch(q)
        /\ \A i \in 1..Len(q) : q[i].type = "permissionResolved" =>
             \E p \in prompts : q[i].turn = p.turn /\ q[i].request = p.request
  BY DispatchedActions
<1>2. pending' = pending \o q /\ pending \in Seq(OwnAction)
  BY <1>1 DEF Dispatch, TypeInv, QueueTypes
<1>3. ToSet(pending') = ToSet(pending) \cup ToSet(q)
  BY <1>2, InConcat
<1>4. Answers(q) \subseteq {p.request : p \in prompts}
  <2>1. DOMAIN q = 1..Len(q)
    OBVIOUS
  <2> QED BY <1>1, <2>1 DEF Answers, ToSet
<1> QED BY <1>3, <1>4 DEF Answers

LEMMA ReceivedAnswers ==
  ASSUME TypeInv, EchoInv, ReceiveEnvelope
  PROVE  ToSet(pending') \subseteq ToSet(pending) /\ Answers(pending') \subseteq Answers(pending)
<1>1. pending \in Seq(OwnAction) /\ (pending' = pending \/ (pending # <<>> /\ pending' = Tail(pending)))
  <2>1. pending \in Seq(OwnAction)
    BY DEF TypeInv, QueueTypes
  <2>2. pending' = pending \/ (pending # <<>> /\ pending' = Tail(pending))
    <3>1. CASE Head(toWindow).own
      BY <3>1, ReceiveEffect
    <3>2. CASE ~Head(toWindow).own
      BY <3>2, ReceiveEffect
    <3> QED BY <3>1, <3>2
  <2> QED BY <2>1, <2>2
<1>2. ToSet(pending') \subseteq ToSet(pending)
  BY <1>1, InHeadOrTail
<1> QED BY <1>2 DEF Answers

LEMMA AskStep == TypeInv /\ EchoInv /\ AskInv /\ [Next]_vars => AskInv'
<1> SUFFICES ASSUME TypeInv, EchoInv, AskInv, [Next]_vars PROVE AskInv'
  OBVIOUS
<1>1. /\ events \in Seq(Event) /\ toWindow \in Seq(Envelope) /\ toServer \in Seq(OwnAction)
      /\ session \in SessionState /\ confirmed \in SessionState
      /\ usedRequests \subseteq Request
      /\ RequestsFresh(events, toWindow, usedRequests, Known)
  BY DEF TypeInv, TypeOK, QueueTypes, AskInv
<1>2. CASE HandleDispatchAction
  <2> DEFINE a  == Head(toServer)
             ms == Envelopes(<<a>>, TRUE)
  <2>1. /\ toServer # <<>> /\ UNCHANGED <<events, usedRequests, confirmed, shown, prompts, pending>>
        /\ toWindow' = toWindow \o ms
    <3>1. Apply(<<a>>, TRUE) /\ toServer # <<>> /\ UNCHANGED <<events, sdk, window>>
      BY <1>2, Zenon DEF HandleDispatchAction
    <3> QED BY <3>1 DEF Apply, Envelopes, sdk, window
  <2>2. a \in OwnAction
    BY <1>1, <2>1, HeadAndTail
  <2> HIDE DEF a
  <2>3. ms \in Seq(Envelope) /\ Len(ms) = 1 /\ ms[1].action = a
    BY <2>2, EnvelopeOfOne
  <2> HIDE DEF ms
  <2>4. ASSUME NEW r \in Request
        PROVE  \A i \in DOMAIN ms : ms[i] \notin Asks(r)
    BY <2>2, <2>3, OwnKinds DEF Asks
  <2>5. ASSUME NEW r \in Request
        PROVE  /\ Among(toWindow', Asks(r)) <=> Among(toWindow, Asks(r))
               /\ AtMostOnce(toWindow, Asks(r)) => AtMostOnce(toWindow', Asks(r))
    BY <1>1, <2>1, <2>3, <2>4, AskNothing
  <2>6. Known' = Known
    BY <2>1 DEF Known
  <2> QED BY <1>1, <2>1, <2>5, <2>6 DEF RequestsFresh, AskInv
<1>3. CASE HandleProgress
  <2> DEFINE ms == Envelopes(Arriving, FALSE)
  <2>1. /\ events # <<>> /\ Head(events).type # "sendFailed" /\ events' = Tail(events)
        /\ UNCHANGED <<usedRequests, confirmed, shown, prompts, pending>> /\ toWindow' = toWindow \o ms
    BY <1>3 DEF HandleProgress, Apply, Arriving, Envelopes, sdk, window
  <2>2. Known' = Known
    BY <2>1 DEF Known
  <2>3. ASSUME NEW r \in Request
        PROVE  /\ ms \in Seq(Envelope) /\ AtMostOnce(ms, Asks(r))
               /\ Among(ms, Asks(r)) => Head(events) \in AskEvents(r)
    BY <2>1, ArrivingAsks
  <2> HIDE DEF ms
  <2>4. ASSUME NEW r \in Request
        PROVE  /\ AtMostOnce(events', AskEvents(r)) /\ AtMostOnce(toWindow', Asks(r))
               /\ ~(Among(events', AskEvents(r)) /\ Among(toWindow', Asks(r)))
               /\ Among(events', AskEvents(r)) \/ Among(toWindow', Asks(r)) =>
                    Among(events, AskEvents(r)) \/ Among(toWindow, Asks(r))
    <3>1. /\ AtMostOnce(events, AskEvents(r)) /\ AtMostOnce(toWindow, Asks(r))
          /\ ~(Among(events, AskEvents(r)) /\ Among(toWindow, Asks(r)))
      BY <1>1 DEF RequestsFresh
    <3>2. /\ Among(events', AskEvents(r)) => Among(events, AskEvents(r))
          /\ Head(events) \in AskEvents(r) => Among(events, AskEvents(r)) /\ ~Among(events', AskEvents(r))
          /\ AtMostOnce(events', AskEvents(r))
      BY <1>1, <2>1, <3>1, OnceInTail
    <3>3. /\ Among(toWindow', Asks(r)) <=> Among(toWindow, Asks(r)) \/ Among(ms, Asks(r))
          /\ ~Among(ms, Asks(r)) => AtMostOnce(toWindow', Asks(r))
          /\ ~Among(toWindow, Asks(r)) => AtMostOnce(toWindow', Asks(r))
      BY <1>1, <2>1, <2>3, <3>1, OnceInConcat
    <3> QED BY <2>3, <3>1, <3>2, <3>3
  <2> QED BY <1>1, <2>1, <2>2, <2>4 DEF RequestsFresh, AskInv
<1>4. CASE HandleSendFailed
  <2> DEFINE a  == [type |-> "error", turn |-> Head(events).turn]
             ms == Envelopes(<<a>>, FALSE)
  <2>1. /\ events # <<>> /\ Head(events).type = "sendFailed" /\ events' = Tail(events)
        /\ UNCHANGED <<usedRequests, confirmed, shown, prompts, pending>> /\ toWindow' = toWindow \o ms
    <3>1. /\ Apply(<<a>>, FALSE) /\ events # <<>> /\ Head(events).type = "sendFailed"
          /\ events' = Tail(events) /\ UNCHANGED <<sdk, window>>
      BY <1>4, Zenon DEF HandleSendFailed
    <3> QED BY <3>1 DEF Apply, Envelopes, sdk, window
  <2>2. a \in AgentAction /\ a.type = "error"
    BY <1>1, <2>1, HeadAndTail, EventKinds DEF AgentAction, OwnType, Action, TurnAction
  <2> HIDE DEF a
  <2>3. ms \in Seq(Envelope) /\ DOMAIN ms = {1} /\ ms[1].action = a
    <3> DEFINE q == <<a>>
    <3>1. q \in Seq(AgentAction) /\ Len(q) = 1 /\ DOMAIN q = 1..1 /\ q[1] = a
      BY <2>2
    <3>2. ms = Envelopes(q, FALSE)
      OBVIOUS
    <3> HIDE DEF q, ms
    <3>3. q \in IF FALSE THEN Seq(OwnAction) ELSE Seq(AgentAction)
      BY <3>1
    <3>4. ms \in Seq(Envelope) /\ Len(ms) = Len(q) /\ \A i \in DOMAIN q : ms[i].action = q[i]
      BY <3>2, <3>3, EnvelopesType
    <3>5. 1 \in DOMAIN q
      BY <3>1
    <3> QED BY <3>1, <3>4, <3>5
  <2> HIDE DEF ms
  <2>4. ASSUME NEW r \in Request
        PROVE  \A i \in DOMAIN ms : ms[i] \notin Asks(r)
    BY <2>2, <2>3 DEF Asks
  <2>5. ASSUME NEW r \in Request
        PROVE  /\ Among(toWindow', Asks(r)) <=> Among(toWindow, Asks(r))
               /\ AtMostOnce(toWindow, Asks(r)) => AtMostOnce(toWindow', Asks(r))
    BY <1>1, <2>1, <2>3, <2>4, AskNothing
  <2>6. ASSUME NEW r \in Request
        PROVE  /\ Among(events', AskEvents(r)) => Among(events, AskEvents(r))
               /\ AtMostOnce(events, AskEvents(r)) => AtMostOnce(events', AskEvents(r))
    BY <1>1, <2>1, OnceInTail
  <2>7. Known' = Known
    BY <2>1 DEF Known
  <2> QED BY <1>1, <2>1, <2>5, <2>6, <2>7 DEF RequestsFresh, AskInv
<1>5. CASE Sdk
  <2>1. UNCHANGED <<confirmed, shown, prompts, pending, toWindow>>
    BY <1>5, SdkReports DEF window
  <2>2. Known' = Known
    BY <2>1 DEF Known
  <2>3. CASE UNCHANGED <<events, usedRequests>>
    BY <1>1, <2>1, <2>2, <2>3 DEF AskInv
  <2>4. ASSUME NEW e \in Event, events' = Append(events, e), e.type # "permission_request",
               usedRequests' = usedRequests
        PROVE  AskInv'
    <3>1. \A r \in Request : e \notin AskEvents(r)
      BY <2>4 DEF AskEvents
    <3>2. \A r \in Request :
            /\ Among(events', AskEvents(r)) <=> Among(events, AskEvents(r))
            /\ AtMostOnce(events', AskEvents(r))
      BY <1>1, <2>4, <3>1, OnceInAppend DEF RequestsFresh
    <3> QED BY <1>1, <2>1, <2>2, <2>4, <3>2 DEF RequestsFresh, AskInv
  <2>5. ASSUME NEW e \in Event, events' = Append(events, e), e.type = "permission_request",
               e.request \in Request \ usedRequests, usedRequests' = usedRequests \cup {e.request}
        PROVE  AskInv'
    <3>1. \A r \in Request : e \in AskEvents(r) <=> r = e.request
      BY <2>5 DEF AskEvents
    <3>2. /\ ~Among(events, AskEvents(e.request)) /\ ~Among(toWindow, Asks(e.request))
          /\ e.request \notin Known
      BY <1>1, <2>5 DEF RequestsFresh
    <3>3. ASSUME NEW r \in Request
          PROVE  /\ Among(events', AskEvents(r)) <=> Among(events, AskEvents(r)) \/ r = e.request
                 /\ AtMostOnce(events', AskEvents(r))
      <4>1. AtMostOnce(events, AskEvents(r))
        BY <1>1 DEF RequestsFresh
      <4> QED BY <1>1, <2>5, <3>1, <3>2, <4>1, OnceInAppend
    <3> QED BY <1>1, <2>1, <2>2, <2>5, <3>2, <3>3 DEF RequestsFresh, AskInv
  <2> QED BY <1>5, <2>3, <2>4, <2>5, SdkReports
<1>6. CASE (\E t \in Turn : StartTurn(t)) \/ CancelTurn \/ AnswerSome
  <2>1. /\ UNCHANGED <<events, usedRequests, confirmed, toWindow>>
        /\ shown' = {} \/ shown' = shown
    BY <1>6, DispatchedType DEF sdk, pipe
  <2>2. Known' \subseteq Known
    <3>1. Answers(pending') \subseteq Answers(pending) \cup {p.request : p \in prompts}
      BY <1>6, DispatchedAnswers
    <3>2. prompts' \subseteq prompts
      BY <1>6, DispatchedType
    <3> QED BY <2>1, <3>1, <3>2 DEF Known
  <2> QED BY <1>1, <2>1, <2>2 DEF RequestsFresh, AskInv
<1>7. CASE ReceiveEnvelope
  <2> DEFINE m == Head(toWindow)
             a == Head(toWindow).action
  <2>1. /\ toWindow # <<>> /\ m \in Envelope /\ a \in Action /\ a = m.action
        /\ toWindow' = Tail(toWindow) /\ UNCHANGED <<events, usedRequests>>
        /\ confirmed' = Reduce(confirmed, a) /\ confirmed' \in SessionState
        /\ pending' \in Seq(OwnAction)
        /\ shown' = shown \/ shown' = shown \cup Seen'.pendingPermissions
        /\ \/ prompts' = prompts
           \/ prompts' = prompts \cup [turn : {running}, request : Seen'.pendingPermissions \ shown]
    BY <1>7, ReceiveEffect DEF sdk, pipe
  <2> HIDE DEF m, a
  <2>2. Known' \subseteq Known \cup confirmed'.activeTurn.pendingPermissions
    <3>1. Seen'.pendingPermissions \subseteq confirmed'.activeTurn.pendingPermissions
      BY <2>1, OptimisticRequests DEF Seen
    <3>2. Answers(pending') \subseteq Answers(pending)
      BY <1>7, ReceivedAnswers
    <3>3. {p.request : p \in prompts'} \subseteq {p.request : p \in prompts} \cup Seen'.pendingPermissions
      BY <2>1
    <3> QED BY <2>1, <3>1, <3>2, <3>3 DEF Known
  <2>3. ASSUME NEW r \in Request, r \in Known', m \notin Asks(r)
        PROVE  r \in Known
    <3>1. a.type # "permissionRequest" \/ a.request # r
      BY <2>1, <2>3 DEF Asks
    <3>2. \/ confirmed'.activeTurn.pendingPermissions \subseteq confirmed.activeTurn.pendingPermissions
          \/ /\ a.type = "permissionRequest"
             /\ confirmed'.activeTurn.pendingPermissions =
                  confirmed.activeTurn.pendingPermissions \cup {a.request}
      BY <1>1, <2>1, ReduceRequests
    <3> QED BY <2>2, <2>3, <3>1, <3>2 DEF Known
  <2>4. ASSUME NEW r \in Request
        PROVE  /\ AtMostOnce(toWindow', Asks(r))
               /\ Among(toWindow', Asks(r)) => Among(toWindow, Asks(r))
               /\ m \in Asks(r) => Among(toWindow, Asks(r)) /\ ~Among(toWindow', Asks(r))
    <3>1. AtMostOnce(toWindow, Asks(r))
      BY <1>1 DEF RequestsFresh
    <3> QED BY <1>1, <2>1, <3>1, OnceInTail DEF m
  <2>5. ASSUME NEW r \in Request
        PROVE  /\ ~(Among(events', AskEvents(r)) /\ Among(toWindow', Asks(r)))
               /\ Among(events', AskEvents(r)) \/ Among(toWindow', Asks(r)) => r \in usedRequests'
               /\ r \notin usedRequests' \/ Among(events', AskEvents(r)) \/ Among(toWindow', Asks(r)) =>
                    r \notin Known'
    <3>1. /\ ~(Among(events, AskEvents(r)) /\ Among(toWindow, Asks(r)))
          /\ Among(events, AskEvents(r)) \/ Among(toWindow, Asks(r)) => r \in usedRequests
          /\ r \notin usedRequests \/ Among(events, AskEvents(r)) \/ Among(toWindow, Asks(r)) =>
               r \notin Known
      BY <1>1 DEF RequestsFresh
    <3> QED BY <2>1, <2>3, <2>4, <3>1
  <2> QED BY <1>1, <2>1, <2>4, <2>5 DEF RequestsFresh, AskInv
<1>8. CASE UNCHANGED vars
  BY <1>1, <1>8 DEF vars, server, sdk, pipe, window, net, AskInv, Known
<1> QED BY <1>2, <1>3, <1>4, <1>5, <1>6, <1>7, <1>8 DEF Next

----------------------------------------------------------------------------
(* What the window shows and what it has put before the user *)

PromptsOf(ps, t) == {p.request : p \in {q \in ps : q.turn = t}}

\* The request that runs waits for the turn the window shows, and the prompts
\* of that turn are the permissions it waits for.
Showing(seen, t, ps, sh, used) ==
  /\ seen.id = t
  /\ seen.pendingPermissions = PromptsOf(ps, t)
  /\ t # NoTurn => seen.pendingPermissions \subseteq sh
  /\ t \in used \cup {NoTurn}
  /\ \A p \in ps : p.turn \in used

SeenInv ==
  /\ Showing(Seen, running, prompts, shown, usedTurns)
  /\ confirmed.activeTurn.id = NoTurn => confirmed.activeTurn.pendingPermissions = {}

\* A window with no turn to show has no permissions to show.
LEMMA SeenNothing ==
  ASSUME NEW conf \in SessionState, NEW pend \in Seq(OwnAction),
         conf.activeTurn.id = NoTurn => conf.activeTurn.pendingPermissions = {},
         Optimistic(conf, pend).activeTurn.id = NoTurn
  PROVE  Optimistic(conf, pend).activeTurn.pendingPermissions = {}
BY OptimisticRequests

\* What a window shows once it has dispatched one action more, or several.
LEMMA SeenAfter ==
  ASSUME TypeInv, UNCHANGED confirmed, NEW q \in Seq(OwnAction), Dispatch(q)
  PROVE  Seen' = ReduceAll(Optimistic(confirmed, pending), q).activeTurn
<1>1. pending \in Seq(OwnAction) /\ pending' = pending \o q
  BY DEF TypeInv, QueueTypes, Dispatch
<1> QED BY <1>1, FoldConcat DEF Seen, Optimistic, ReduceAll

LEMMA SeenAfterOne ==
  ASSUME TypeInv, UNCHANGED confirmed, NEW a \in OwnAction, Dispatch(<<a>>)
  PROVE  Seen' = Reduce(Optimistic(confirmed, pending), a).activeTurn
<1>1. <<a>> \in Seq(OwnAction)
  OBVIOUS
<1>2. ReduceAll(Optimistic(confirmed, pending), <<a>>) = Reduce(Optimistic(confirmed, pending), a)
  BY ReduceOne
<1> QED BY <1>1, <1>2, SeenAfter

\* The cancellation of the turn that is shown leaves none, whatever denials
\* follow it.
LEMMA SeenAfterCancel ==
  ASSUME TypeInv, UNCHANGED confirmed, NEW a \in OwnAction, a.type = "turnCancelled",
         a.turn = Seen.id, NEW q \in Seq(OwnAction), Dispatch(<<a>> \o q),
         \A i \in 1..Len(q) : q[i].type = "permissionResolved" /\ q[i].turn # NoTurn
  PROVE  Seen' = NewTurn(NoTurn)
<1> DEFINE st  == Optimistic(confirmed, pending)
           new == Reduce(st, a)
           one == <<a>>
<1>1. st \in SessionState /\ st.activeTurn = Seen
  BY OptimisticType DEF TypeInv, TypeOK, QueueTypes, Seen
<1>2. a.turn \in Turn /\ a \in OwnAction
  BY OwnKinds
<1> HIDE DEF st
<1>3. new \in SessionState /\ new.activeTurn = NewTurn(NoTurn)
  BY <1>1, <1>2, ReduceOwn
<1>4. one \in Seq(OwnAction) /\ one \o q \in Seq(OwnAction)
  OBVIOUS
<1>5. Seen' = ReduceAll(st, one \o q).activeTurn
  BY <1>4, SeenAfter DEF st
<1>6. ReduceAll(st, one) = new
  BY ReduceOne
<1> HIDE DEF one, new
<1>7. ReduceAll(st, one \o q) = ReduceAll(new, q)
  <2>1. FoldLeft(Reduce, st, one \o q) = FoldLeft(Reduce, FoldLeft(Reduce, st, one), q)
    BY <1>4, FoldConcat
  <2> QED BY <1>6, <2>1 DEF ReduceAll
<1> DEFINE S == {x \in SessionState : x.activeTurn = NewTurn(NoTurn)}
<1>8. ASSUME NEW x \in S, NEW i \in 1..Len(q)
      PROVE  Reduce(x, q[i]) \in S
  <2>1. q[i].type # "turnStarted" /\ q[i].turn # x.activeTurn.id
    BY <1>8 DEF NewTurn
  <2> QED BY <1>8, <2>1, ReduceOther
<1>9. new \in S
  BY <1>3
<1> HIDE DEF S
<1>10. FoldLeft(Reduce, new, q) \in S
  BY <1>8, <1>9, FoldStays
<1> QED BY <1>5, <1>7, <1>10 DEF ReduceAll, S

LEMMA SeenOfDispatch ==
  ASSUME TypeInv, SeenInv, (\E t \in Turn : StartTurn(t)) \/ CancelTurn \/ AnswerSome
  PROVE  SeenInv'
<1>1. /\ Seen.id = running /\ Seen.pendingPermissions = PromptsOf(prompts, running)
      /\ running # NoTurn => Seen.pendingPermissions \subseteq shown
      /\ running \in usedTurns \cup {NoTurn}
      /\ \A p \in prompts : p.turn \in usedTurns
      /\ prompts \subseteq [turn : Turn, request : Request]
      /\ usedTurns \subseteq Turn
  BY DEF SeenInv, Showing, TypeInv, TypeOK, QueueTypes
<1>2. UNCHANGED confirmed
  BY DispatchedType
<1> DEFINE st == Optimistic(confirmed, pending)
<1>3. st \in SessionState /\ st.activeTurn = Seen
  BY OptimisticType DEF TypeInv, TypeOK, QueueTypes, Seen
<1> SUFFICES Showing(Seen', running', prompts', shown', usedTurns')
  BY <1>2 DEF SeenInv
<1> HIDE DEF st
<1>4. ASSUME NEW t \in Turn \ usedTurns, running' = t, shown' = {},
             usedTurns' = usedTurns \cup {t}, prompts' = prompts,
             NEW a \in OwnAction, a.type = "turnStarted", a.turn = t, Dispatch(<<a>>)
      PROVE  Showing(Seen', running', prompts', shown', usedTurns')
  <2>1. Seen' = NewTurn(t)
    BY <1>2, <1>3, <1>4, SeenAfterOne, ReduceOwn DEF st
  <2>2. Seen'.id = t /\ Seen'.pendingPermissions = {}
    BY <2>1 DEF NewTurn
  <2>3. PromptsOf(prompts, t) = {}
    BY <1>1 DEF PromptsOf
  <2> QED BY <1>1, <1>4, <2>2, <2>3 DEF Showing
<1>5. ASSUME running \in Turn, running' = NoTurn, UNCHANGED <<shown, usedTurns>>,
             prompts' \subseteq prompts,
             NEW a \in OwnAction, NEW q \in Seq(OwnAction),
             a.type = "turnCancelled", a.turn = running, Dispatch(<<a>> \o q),
             \A i \in 1..Len(q) : \E p \in prompts : p.turn = running /\ q[i] = Resolved(p, FALSE)
      PROVE  Showing(Seen', running', prompts', shown', usedTurns')
  <2>1. \A i \in 1..Len(q) : q[i].type = "permissionResolved" /\ q[i].turn # NoTurn
    <3>1. \A p : Resolved(p, FALSE).type = "permissionResolved" /\ Resolved(p, FALSE).turn = p.turn
      BY DEF Resolved
    <3> QED BY <1>5, <3>1
  <2>2. Seen' = NewTurn(NoTurn)
    BY <1>1, <1>2, <1>5, <2>1, SeenAfterCancel
  <2>3. Seen'.id = NoTurn /\ Seen'.pendingPermissions = {}
    BY <2>2 DEF NewTurn
  <2>4. PromptsOf(prompts', NoTurn) = {}
    BY <1>1, <1>5 DEF PromptsOf
  <2> QED BY <1>1, <1>5, <2>3, <2>4 DEF Showing
<1>6. ASSUME UNCHANGED <<running, shown, usedTurns>>, NEW p \in prompts, NEW approved \in BOOLEAN,
             prompts' = prompts \ {p}, Resolved(p, approved) \in OwnAction,
             Dispatch(<<Resolved(p, approved)>>)
      PROVE  Showing(Seen', running', prompts', shown', usedTurns')
  <2> DEFINE a == Resolved(p, approved)
  <2>1. a.type = "permissionResolved" /\ a.turn = p.turn /\ a.request = p.request
    BY DEF Resolved
  <2>2. a \in OwnAction /\ Dispatch(<<a>>)
    BY <1>6
  <2> HIDE DEF a
  <2>3. Seen' = Reduce(st, a).activeTurn
    BY <1>2, <2>2, SeenAfterOne DEF st
  <2>4. /\ Seen'.id = Seen.id
        /\ p.turn # running => Seen'.pendingPermissions = Seen.pendingPermissions
        /\ p.turn = running => Seen'.pendingPermissions = Seen.pendingPermissions \ {p.request}
    BY <1>1, <1>3, <2>1, <2>2, <2>3, ReduceOwn
  <2>5. p.turn # running => PromptsOf(prompts', running) = PromptsOf(prompts, running)
    BY <1>6 DEF PromptsOf
  <2>6. p.turn = running => PromptsOf(prompts', running) = PromptsOf(prompts, running) \ {p.request}
    <3>1. \A x \in prompts : x.turn = p.turn /\ x.request = p.request => x = p
      BY <1>1
    <3> QED BY <1>6, <3>1 DEF PromptsOf
  <2> QED BY <1>1, <1>6, <2>4, <2>5, <2>6 DEF Showing
<1> QED BY <1>4, <1>5, <1>6, DispatchedType

----------------------------------------------------------------------------
\* The window receives an envelope: nothing new to see in an echo of its own
\* action, whose effect it shows already.
LEMMA SeenInEcho ==
  ASSUME TypeInv, EchoInv, ReceiveEnvelope, Head(toWindow).own
  PROVE  Seen' = Seen
<1> DEFINE a == Head(toWindow).action
<1>1. /\ confirmed' = Reduce(confirmed, a) /\ pending # <<>>
      /\ Head(pending) = a /\ pending' = Tail(pending) /\ pending \in Seq(OwnAction)
  BY ReceiveEffect DEF TypeInv, QueueTypes
<1> HIDE DEF a
<1>2. ReduceAll(confirmed, pending) = ReduceAll(Reduce(confirmed, Head(pending)), Tail(pending))
  BY <1>1, FoldCons DEF ReduceAll
<1> QED BY <1>1, <1>2 DEF Seen, Optimistic

LEMMA SeenInNews ==
  ASSUME TypeInv, EchoInv, ReceiveEnvelope, ~Head(toWindow).own
  PROVE  LET a == Head(toWindow).action IN
         /\ a \in AgentAction
         /\ \/ Seen'.id = Seen.id /\ Seen'.pendingPermissions = Seen.pendingPermissions
            \/ /\ a.type = "permissionRequest" /\ a.request \in Request
               /\ Seen'.id = Seen.id
               /\ Seen'.pendingPermissions = Seen.pendingPermissions \cup {a.request}
            \/ /\ a.type # "permissionRequest"
               /\ Seen.id = a.turn /\ Seen' = NewTurn(NoTurn)
<1> DEFINE a == Head(toWindow).action
<1>1. /\ confirmed' = Reduce(confirmed, a) /\ pending' = pending /\ pending \in Seq(OwnAction)
      /\ confirmed \in SessionState /\ Head(toWindow) \in Envelope
  BY ReceiveEffect DEF TypeInv, TypeOK, QueueTypes
<1>2. a \in AgentAction
  BY <1>1, OwnTypes DEF Envelope, AgentAction
<1>3. a.type = "permissionRequest" => a.request \in Request
  BY <1>2, ActionKinds DEF AgentAction, TurnEnd
<1> HIDE DEF a
<1>4. Differ(a, Optimistic(confirmed, pending), Optimistic(confirmed', pending'))
  BY <1>1, <1>2, SeenDiffer
<1>5. \/ Seen'.id = Seen.id /\ Seen'.pendingPermissions = Seen.pendingPermissions
      \/ /\ a.type = "permissionRequest"
         /\ Seen'.id = Seen.id
         /\ Seen'.pendingPermissions = Seen.pendingPermissions \cup {a.request}
      \/ /\ a.type # "permissionRequest"
         /\ Seen.id = a.turn /\ Seen' = NewTurn(NoTurn)
  BY <1>4 DEF Differ, Seen
<1> QED BY <1>2, <1>3, <1>5 DEF a

\* A session with no turn has no permissions to wait for.
LEMMA QuietReduced ==
  ASSUME NEW st \in SessionState, NEW a \in Action,
         st.activeTurn.id = NoTurn => st.activeTurn.pendingPermissions = {},
         Reduce(st, a).activeTurn.id = NoTurn
  PROVE  Reduce(st, a).activeTurn.pendingPermissions = {}
<1>1. a.turn \in Turn
  BY ActionKinds
<1> QED BY <1>1, ReduceRequests

LEMMA SeenOfReceive ==
  ASSUME TypeInv, EchoInv, AskInv, SeenInv, ReceiveEnvelope
  PROVE  SeenInv'
<1> DEFINE a == Head(toWindow).action
<1>1. /\ Seen.id = running /\ Seen.pendingPermissions = PromptsOf(prompts, running)
      /\ running # NoTurn => Seen.pendingPermissions \subseteq shown
      /\ running \in usedTurns \cup {NoTurn}
      /\ \A p \in prompts : p.turn \in usedTurns
      /\ prompts \subseteq [turn : Turn, request : Request]
      /\ usedTurns \subseteq Turn
      /\ confirmed \in SessionState /\ toWindow \in Seq(Envelope)
  BY DEF SeenInv, Showing, TypeInv, TypeOK, QueueTypes
<1>2. /\ toWindow # <<>> /\ a \in Action /\ UNCHANGED usedTurns
      /\ confirmed' = Reduce(confirmed, a) /\ confirmed' \in SessionState
      /\ pending' \in Seq(OwnAction)
      /\ \/ running = NoTurn /\ UNCHANGED <<running, prompts, shown>>
         \/ running # NoTurn /\ Seen'.id # running /\ running' = NoTurn /\ UNCHANGED <<prompts, shown>>
         \/ /\ running # NoTurn /\ Seen'.id = running /\ running' = running
            /\ prompts' = prompts \cup [turn : {running}, request : Seen'.pendingPermissions \ shown]
            /\ shown' = shown \cup Seen'.pendingPermissions
  BY ReceiveEffect
<1>3. /\ Head(toWindow).own => Seen' = Seen
      /\ ~Head(toWindow).own =>
           /\ a \in AgentAction
           /\ \/ Seen'.id = Seen.id /\ Seen'.pendingPermissions = Seen.pendingPermissions
              \/ /\ a.type = "permissionRequest" /\ a.request \in Request
                 /\ Seen'.id = Seen.id
                 /\ Seen'.pendingPermissions = Seen.pendingPermissions \cup {a.request}
              \/ /\ a.type # "permissionRequest"
                 /\ Seen.id = a.turn /\ Seen' = NewTurn(NoTurn)
  BY SeenInEcho, SeenInNews
<1>4. a.type = "permissionRequest" /\ a.request \in Request => a.request \notin shown
  <2>1. SUFFICES ASSUME a.type = "permissionRequest", a.request \in Request
                 PROVE  a.request \notin shown
    OBVIOUS
  <2>2. Head(toWindow) \in Asks(a.request)
    BY <1>1, <1>2, <2>1, HeadAndTail DEF Asks
  <2>3. Among(toWindow, Asks(a.request))
    BY <1>1, <1>2, <2>2, OnceInTail
  <2> QED BY <2>1, <2>3 DEF AskInv, RequestsFresh, Known
<1> HIDE DEF a
<1>5. confirmed'.activeTurn.id = NoTurn => confirmed'.activeTurn.pendingPermissions = {}
  <2>1. confirmed.activeTurn.id = NoTurn => confirmed.activeTurn.pendingPermissions = {}
    BY DEF SeenInv
  <2> QED BY <1>1, <1>2, <2>1, QuietReduced
<1> SUFFICES Showing(Seen', running', prompts', shown', usedTurns')
  BY <1>5 DEF SeenInv
<1>6. CASE Seen'.id = Seen.id /\ Seen'.pendingPermissions = Seen.pendingPermissions
  <2>1. CASE running = NoTurn
    BY <1>1, <1>2, <1>6, <2>1 DEF Showing
  <2>2. CASE running # NoTurn
    <3>1. Seen'.pendingPermissions \ shown = {}
      BY <1>1, <1>6, <2>2
    <3>2. [turn : {running}, request : {}] = {}
      OBVIOUS
    <3>3. prompts' = prompts /\ running' = running /\ shown \subseteq shown'
      BY <1>1, <1>2, <1>6, <2>2, <3>1, <3>2
    <3> QED BY <1>1, <1>2, <1>6, <2>2, <3>3 DEF Showing
  <2> QED BY <2>1, <2>2
<1>7. ASSUME a.type = "permissionRequest", a.request \in Request, Seen'.id = Seen.id,
             Seen'.pendingPermissions = Seen.pendingPermissions \cup {a.request}
      PROVE  Showing(Seen', running', prompts', shown', usedTurns')
  <2>1. CASE running = NoTurn
    <3>1. Seen'.pendingPermissions = {}
      BY <1>1, <1>2, <1>5, <1>7, <2>1, SeenNothing DEF Seen
    <3> QED BY <1>7, <3>1
  <2>2. CASE running # NoTurn
    <3> DEFINE r == a.request
               p == [turn |-> running, request |-> r]
    <3>1. Seen'.pendingPermissions \ shown = {r}
      BY <1>1, <1>4, <1>7, <2>2
    <3>2. [turn : {running}, request : {r}] = {p}
      <4>1. \A x \in [turn : {running}, request : {r}] : x.turn = running /\ x.request = r
        OBVIOUS
      <4>2. \A x \in [turn : {running}, request : {r}] : x = [turn |-> x.turn, request |-> x.request]
        OBVIOUS
      <4>3. \A x \in [turn : {running}, request : {r}] : x = p
        BY <4>1, <4>2
      <4>4. p \in [turn : {running}, request : {r}]
        OBVIOUS
      <4> HIDE DEF p
      <4> QED BY <4>3, <4>4
    <3>3. /\ prompts' = prompts \cup {p} /\ running' = running
          /\ shown' = shown \cup Seen'.pendingPermissions
      BY <1>1, <1>2, <1>7, <2>2, <3>1, <3>2
    <3>4. p.turn = running /\ p.request = r
      OBVIOUS
    <3> HIDE DEF p, r
    <3>5. PromptsOf(prompts', running) = PromptsOf(prompts, running) \cup {r}
      BY <3>3, <3>4 DEF PromptsOf
    <3> QED BY <1>1, <1>2, <1>7, <2>2, <3>3, <3>4, <3>5 DEF Showing, r
  <2> QED BY <2>1, <2>2
<1>8. ASSUME Seen.id = a.turn, Seen' = NewTurn(NoTurn)
      PROVE  Showing(Seen', running', prompts', shown', usedTurns')
  <2>1. a.turn \in Turn /\ running # NoTurn
    BY <1>1, <1>2, <1>8, ActionKinds
  <2>2. Seen'.id = NoTurn /\ Seen'.pendingPermissions = {}
    BY <1>8 DEF NewTurn
  <2>3. running' = NoTurn /\ UNCHANGED <<prompts, shown>>
    BY <1>2, <2>1, <2>2
  <2>4. PromptsOf(prompts', NoTurn) = {}
    BY <1>1, <2>3 DEF PromptsOf
  <2> QED BY <1>1, <1>2, <2>2, <2>3, <2>4 DEF Showing
<1> QED BY <1>3, <1>6, <1>7, <1>8

LEMMA SeenStep == TypeInv /\ EchoInv /\ AskInv /\ SeenInv /\ [Next]_vars => SeenInv'
<1> SUFFICES ASSUME TypeInv, EchoInv, AskInv, SeenInv, [Next]_vars PROVE SeenInv'
  OBVIOUS
<1>1. CASE HandleDispatchAction
  BY <1>1 DEF HandleDispatchAction, window, SeenInv, Showing, Seen, Optimistic, PromptsOf
<1>2. CASE HandleProgress
  BY <1>2 DEF HandleProgress, window, SeenInv, Showing, Seen, Optimistic, PromptsOf
<1>3. CASE HandleSendFailed
  BY <1>3 DEF HandleSendFailed, window, SeenInv, Showing, Seen, Optimistic, PromptsOf
<1>4. CASE Sdk
  BY <1>4, SdkReports DEF window, SeenInv, Showing, Seen, Optimistic, PromptsOf
<1>5. CASE (\E t \in Turn : StartTurn(t)) \/ CancelTurn \/ AnswerSome
  BY <1>5, SeenOfDispatch
<1>6. CASE ReceiveEnvelope
  BY <1>6, SeenOfReceive
<1>7. CASE UNCHANGED vars
  BY <1>7 DEF vars, window, SeenInv, Showing, Seen, Optimistic, PromptsOf
<1> QED BY <1>1, <1>2, <1>3, <1>4, <1>5, <1>6, <1>7 DEF Next

LEMMA WindowInit == Init => SyncInv /\ AskInv /\ SeenInv
<1> SUFFICES ASSUME Init PROVE SyncInv /\ AskInv /\ SeenInv
  OBVIOUS
<1>1. /\ session = EmptySession /\ confirmed = EmptySession /\ toWindow = <<>> /\ pending = <<>>
      /\ events = <<>> /\ running = NoTurn /\ prompts = {} /\ shown = {} /\ usedTurns = {}
      /\ usedRequests = {}
  BY DEF Init
<1>2. EmptySession.activeTurn.id = NoTurn /\ EmptySession.activeTurn.pendingPermissions = {}
  BY DEF EmptySession, NewTurn
<1>3. SyncInv
  <2>1. Actions(toWindow) = <<>>
    BY <1>1 DEF Actions
  <2> QED BY <1>1, <2>1, FoldEmpty DEF SyncInv, ReduceAll
<1>4. AskInv
  BY <1>1, <1>2 DEF AskInv, RequestsFresh, Known, Answers, AtMostOnce, Among, ToSet
<1>5. Seen = EmptySession.activeTurn
  BY <1>1, FoldEmpty DEF Seen, Optimistic, ReduceAll
<1>6. SeenInv
  BY <1>1, <1>2, <1>5 DEF SeenInv, Showing, PromptsOf
<1> QED BY <1>3, <1>4, <1>6

LEMMA WindowHolds == Spec => [](SyncInv /\ AskInv /\ SeenInv)
BY TypesHold, WindowInit, SyncStep, AskStep, SeenStep, PTL DEF Spec

\* With nothing under way between window and server, the window has the
\* server's state, waits for the turn that is active there, and shows the
\* permissions that turn waits for.
THEOREM QuietWindowAgrees == Spec => []WindowAgrees
<1>1. TypeInv /\ EchoInv /\ SyncInv /\ SeenInv => WindowAgrees
  <2> SUFFICES ASSUME TypeInv, EchoInv, SyncInv, SeenInv, toServer = <<>>, toWindow = <<>>
               PROVE  /\ pending = <<>> /\ confirmed = session
                      /\ running = session.activeTurn.id
                      /\ session.activeTurn.pendingPermissions =
                           {p.request : p \in {q \in prompts : q.turn = running}}
    BY DEF WindowAgrees
  <2>1. pending = <<>>
    <3>1. PICK c : Echoed(c, toWindow, pending, toServer)
      BY DEF EchoInv, Echoes
    <3>2. Len(toWindow) = 0 /\ Len(toServer) = 0 /\ pending \in Seq(OwnAction)
      BY DEF TypeInv, QueueTypes
    <3>3. Len(pending) = 0
      BY <3>1, <3>2 DEF Echoed
    <3> QED BY <3>2, <3>3
  <2>2. confirmed = session
    <3>1. Actions(toWindow) = <<>>
      BY DEF Actions
    <3> QED BY <3>1, FoldEmpty DEF SyncInv, ReduceAll
  <2>3. Seen = session.activeTurn
    BY <2>1, <2>2, FoldEmpty DEF Seen, Optimistic, ReduceAll
  <2> QED BY <2>1, <2>2, <2>3 DEF SeenInv, Showing, PromptsOf
<1> QED BY TypesHold, WindowHolds, <1>1, PTL

----------------------------------------------------------------------------
(* A prompt can be answered *)

\* The agent holds the request and the server routes its answer.
Live == routed \cap waiting

\* What the server has still to read, and whose echoes are on their way, is
\* pending.
LEMMA UnderWayIsPending ==
  ASSUME TypeInv, EchoInv
  PROVE  /\ ToSet(toServer) \subseteq ToSet(pending)
         /\ \A j \in DOMAIN toWindow : toWindow[j].own => toWindow[j].action \in ToSet(pending)
<1>1. PICK c : Echoed(c, toWindow, pending, toServer)
  BY DEF EchoInv, Echoes
<1> DEFINE L == Len(toWindow)
           n == c[L]
<1>2. /\ L \in Nat /\ Len(toServer) \in Nat /\ Len(pending) \in Nat
      /\ DOMAIN toWindow = 1..L /\ DOMAIN toServer = 1..Len(toServer)
      /\ DOMAIN pending = 1..Len(pending)
  BY DEF TypeInv, QueueTypes
<1>3. /\ \A i \in Nat : i <= L => c[i] \in Nat /\ c[i] <= n
      /\ \A i \in Nat : i < L =>
           (toWindow[i + 1].own => c[i + 1] = c[i] + 1 /\ pending[c[i] + 1] = toWindow[i + 1].action)
      /\ Len(pending) = n + Len(toServer)
      /\ \A j \in 1..Len(toServer) : pending[n + j] = toServer[j]
  BY <1>1 DEF Echoed
<1>4. n \in Nat
  BY <1>2, <1>3
<1> HIDE DEF n, L
<1>5. ASSUME NEW j \in DOMAIN toServer
      PROVE  toServer[j] \in ToSet(pending)
  <2>1. n + j \in DOMAIN pending /\ pending[n + j] = toServer[j]
    BY <1>2, <1>3, <1>4
  <2> QED BY <2>1 DEF ToSet
<1>6. ASSUME NEW j \in DOMAIN toWindow, toWindow[j].own
      PROVE  toWindow[j].action \in ToSet(pending)
  <2>1. j - 1 \in Nat /\ j - 1 < L /\ (j - 1) + 1 = j /\ j \in Nat /\ j <= L
    BY <1>2
  <2>2. c[j] = c[j - 1] + 1 /\ pending[c[j - 1] + 1] = toWindow[j].action
    BY <1>3, <1>6, <2>1
  <2>3. c[j - 1] \in Nat /\ c[j] <= n
    BY <1>2, <1>3, <2>1
  <2>4. c[j - 1] + 1 \in DOMAIN pending
    BY <1>2, <1>3, <1>4, <2>2, <2>3
  <2> QED BY <2>2, <2>4 DEF ToSet
<1> QED BY <1>5, <1>6 DEF ToSet

----------------------------------------------------------------------------
\* Along the actions that are pending, no permission request is added to those
\* of the window's copy, and they stay only with its turn.
LEMMA StepsRequests ==
  ASSUME NEW conf \in SessionState, NEW pend \in Seq(OwnAction), NEW t, Steps(conf, pend, t),
         conf.activeTurn.id = NoTurn => conf.activeTurn.pendingPermissions = {},
         NEW i \in Nat, i <= Len(pend)
  PROVE  /\ t[i] \in SessionState
         /\ \/ t[i].activeTurn.pendingPermissions = {}
            \/ /\ t[i].activeTurn.id = conf.activeTurn.id
               /\ t[i].activeTurn.pendingPermissions \subseteq conf.activeTurn.pendingPermissions
         /\ t[i].activeTurn.id = NoTurn => t[i].activeTurn.pendingPermissions = {}
<1> DEFINE Good(x) == \/ x.activeTurn.pendingPermissions = {}
                      \/ /\ x.activeTurn.id = conf.activeTurn.id
                         /\ x.activeTurn.pendingPermissions \subseteq conf.activeTurn.pendingPermissions
           S == {x \in SessionState : Good(x)}
<1>1. conf \in S
  OBVIOUS
<1>2. ASSUME NEW x \in S, NEW k \in 1..Len(pend)
      PROVE  Reduce(x, pend[k]) \in S
  <2>1. pend[k] \in OwnAction /\ x \in SessionState /\ Good(x)
    OBVIOUS
  <2> DEFINE new == Reduce(x, pend[k])
  <2>2. /\ new \in SessionState
        /\ \/ new.activeTurn.pendingPermissions = {}
           \/ /\ new.activeTurn.id = x.activeTurn.id
              /\ new.activeTurn.pendingPermissions \subseteq x.activeTurn.pendingPermissions
    <3> HIDE DEF S
    <3> QED BY <2>1, ReduceOwnRequests
  <2> HIDE DEF new
  <2>3. Good(new)
    BY <2>1, <2>2
  <2> QED BY <2>2, <2>3 DEF new
<1>3. t[0] = conf
  BY DEF Steps
<1> HIDE DEF S
<1>4. t[i] \in S
  <2>1. 0 \in Nat /\ 0 <= i /\ t[0] \in S
    BY <1>1, <1>3
  <2> QED BY <1>2, <2>1, StepsStay
<1>5. t[i] \in SessionState /\ Good(t[i])
  BY <1>4 DEF S
<1> QED BY <1>5

\* Once there are none, the actions that follow leave it at that; a request
\* that is not among them is not added.
LEMMA StepsLose ==
  ASSUME NEW conf \in SessionState, NEW pend \in Seq(OwnAction), NEW t, Steps(conf, pend, t),
         NEW i \in Nat, i <= Len(pend), t[i] \in SessionState,
         NEW r, r \notin t[i].activeTurn.pendingPermissions
  PROVE  r \notin t[Len(pend)].activeTurn.pendingPermissions
<1> DEFINE S == {x \in SessionState : r \notin x.activeTurn.pendingPermissions}
<1>1. ASSUME NEW x \in S, NEW k \in 1..Len(pend)
      PROVE  Reduce(x, pend[k]) \in S
  <2>1. pend[k] \in OwnAction /\ x \in SessionState /\ r \notin x.activeTurn.pendingPermissions
    OBVIOUS
  <2> DEFINE new == Reduce(x, pend[k])
  <2> HIDE DEF S
  <2>2. /\ new \in SessionState
        /\ \/ new.activeTurn.pendingPermissions = {}
           \/ new.activeTurn.pendingPermissions \subseteq x.activeTurn.pendingPermissions
    BY <2>1, ReduceOwnRequests
  <2> HIDE DEF new
  <2> QED BY <2>1, <2>2 DEF S, new
<1>2. t[i] \in S
  OBVIOUS
<1> HIDE DEF S
<1>3. Len(pend) \in Nat /\ Len(pend) <= Len(pend)
  OBVIOUS
<1>4. t[Len(pend)] \in S
  BY <1>1, <1>2, <1>3, StepsStay
<1> QED BY <1>4 DEF S

----------------------------------------------------------------------------
\* A cancellation that is pending finds the turn it names active, or none.
CancelsFit(conf, pend) ==
  \A t : Steps(conf, pend, t) =>
    \A i \in Nat : i < Len(pend) /\ pend[i + 1].type = "turnCancelled" =>
      t[i].activeTurn.id \in {pend[i + 1].turn, NoTurn}

\* The prompts and the pending answers about a request of the window's copy
\* name its active turn.
AnswersFit(conf, pend, ps) ==
  \A r \in conf.activeTurn.pendingPermissions :
    /\ \A p \in ps : p.request = r => p.turn = conf.activeTurn.id
    /\ \A a \in ToSet(pend) : a.type = "permissionResolved" /\ a.request = r =>
         a.turn = conf.activeTurn.id

\* While a cancellation is pending the window shows no request, and once it
\* has answered one it does not show that one.
LEMMA CancelledIsGone ==
  ASSUME NEW conf \in SessionState, NEW pend \in Seq(OwnAction),
         conf.activeTurn.id = NoTurn => conf.activeTurn.pendingPermissions = {},
         CancelsFit(conf, pend), NEW a \in ToSet(pend), a.type = "turnCancelled"
  PROVE  Optimistic(conf, pend).activeTurn.pendingPermissions = {}
<1>1. PICK t : Steps(conf, pend, t) /\ FoldLeft(Reduce, conf, pend) = t[Len(pend)]
  BY FoldSteps
<1>2. PICK i \in Nat : i < Len(pend) /\ pend[i + 1] = a
  <2>1. PICK k \in DOMAIN pend : pend[k] = a
    BY DEF ToSet
  <2>2. k - 1 \in Nat /\ k - 1 < Len(pend) /\ (k - 1) + 1 = k
    OBVIOUS
  <2> QED BY <2>1, <2>2
<1>3. a \in OwnAction /\ i <= Len(pend) /\ i + 1 \in Nat /\ i + 1 <= Len(pend) /\ Len(pend) \in Nat
  BY <1>2
<1>4. t[i].activeTurn.id \in {a.turn, NoTurn}
  BY <1>1, <1>2 DEF CancelsFit
<1>5. /\ t[i] \in SessionState
      /\ t[i].activeTurn.id = NoTurn => t[i].activeTurn.pendingPermissions = {}
  BY <1>1, <1>3, StepsRequests
<1>6. t[i + 1] = Reduce(t[i], a)
  BY <1>1, <1>2 DEF Steps
<1>7. t[i + 1] \in SessionState /\ t[i + 1].activeTurn.pendingPermissions = {}
  <2>1. NewTurn(NoTurn).pendingPermissions = {} /\ a.turn \in Turn
    BY <1>3, OwnKinds DEF NewTurn
  <2>2. CASE t[i].activeTurn.id = a.turn
    BY <1>3, <1>5, <1>6, <2>1, <2>2, ReduceOwn
  <2>3. CASE t[i].activeTurn.id = NoTurn
    BY <1>3, <1>5, <1>6, <2>1, <2>3, ReduceOwn
  <2> QED BY <1>4, <2>2, <2>3
<1>8. ASSUME NEW r, r \in t[Len(pend)].activeTurn.pendingPermissions
      PROVE  FALSE
  BY <1>1, <1>3, <1>7, <1>8, StepsLose
<1> QED BY <1>1, <1>8 DEF Optimistic, ReduceAll

LEMMA AnsweredIsGone ==
  ASSUME NEW conf \in SessionState, NEW pend \in Seq(OwnAction), NEW ps,
         conf.activeTurn.id = NoTurn => conf.activeTurn.pendingPermissions = {},
         AnswersFit(conf, pend, ps), NEW a \in ToSet(pend), a.type = "permissionResolved"
  PROVE  a.request \notin Optimistic(conf, pend).activeTurn.pendingPermissions
<1>1. PICK t : Steps(conf, pend, t) /\ FoldLeft(Reduce, conf, pend) = t[Len(pend)]
  BY FoldSteps
<1>2. PICK i \in Nat : i < Len(pend) /\ pend[i + 1] = a
  <2>1. PICK k \in DOMAIN pend : pend[k] = a
    BY DEF ToSet
  <2>2. k - 1 \in Nat /\ k - 1 < Len(pend) /\ (k - 1) + 1 = k
    OBVIOUS
  <2> QED BY <2>1, <2>2
<1>3. a \in OwnAction /\ i <= Len(pend) /\ i + 1 \in Nat /\ i + 1 <= Len(pend) /\ Len(pend) \in Nat
  BY <1>2
<1> DEFINE r == a.request
<1>4. /\ t[i] \in SessionState
      /\ \/ t[i].activeTurn.pendingPermissions = {}
         \/ /\ t[i].activeTurn.id = conf.activeTurn.id
            /\ t[i].activeTurn.pendingPermissions \subseteq conf.activeTurn.pendingPermissions
  BY <1>1, <1>3, StepsRequests
<1>5. r \in conf.activeTurn.pendingPermissions => a.turn = conf.activeTurn.id
  BY DEF AnswersFit
<1>6. t[i + 1] = Reduce(t[i], a)
  BY <1>1, <1>2 DEF Steps
<1>7. t[i + 1] \in SessionState /\ r \notin t[i + 1].activeTurn.pendingPermissions
  <2>1. /\ t[i + 1] \in SessionState
        /\ \/ a.turn # t[i].activeTurn.id /\ t[i + 1].activeTurn = t[i].activeTurn
           \/ t[i + 1].activeTurn.pendingPermissions = t[i].activeTurn.pendingPermissions \ {r}
    <3> DEFINE x == t[i]
    <3>1. x \in SessionState /\ t[i + 1] = Reduce(x, a)
      BY <1>4, <1>6
    <3> HIDE DEF x
    <3> DEFINE y == Reduce(x, a)
    <3>2. /\ y \in SessionState
          /\ \/ a.type = "turnStarted" /\ y.activeTurn = NewTurn(a.turn)
             \/ a.type # "turnStarted" /\ a.turn # x.activeTurn.id /\ y.activeTurn = x.activeTurn
             \/ a.type = "turnCancelled" /\ a.turn = x.activeTurn.id /\ y.activeTurn = NewTurn(NoTurn)
             \/ /\ a.type = "permissionResolved" /\ a.turn = x.activeTurn.id
                /\ y.activeTurn.id = x.activeTurn.id
                /\ y.activeTurn.pendingPermissions = x.activeTurn.pendingPermissions \ {a.request}
      BY <1>3, <3>1, ReduceOwn
    <3> HIDE DEF y
    <3>3. t[i + 1] = y
      BY <3>1 DEF y
    <3> QED BY <3>2, <3>3 DEF x
  <2> QED BY <1>4, <1>5, <2>1
<1> HIDE DEF r
<1>8. r \notin t[Len(pend)].activeTurn.pendingPermissions
  BY <1>1, <1>3, <1>7, StepsLose
<1> QED BY <1>1, <1>8 DEF Optimistic, ReduceAll, r

----------------------------------------------------------------------------
\* A request under way to the window is held, or the cancellation that denied
\* it is under way behind it.
AsksLive(w, live) ==
  \A i \in DOMAIN w : w[i].action.type = "permissionRequest" =>
    \/ w[i].action.request \in live
    \/ \E j \in DOMAIN w : j > i /\ w[j].own /\ w[j].action.type = "turnCancelled"

PromptInv ==
  /\ CancelsFit(confirmed, pending)
  /\ AnswersFit(confirmed, pending, prompts)
  /\ Seen.pendingPermissions \subseteq Live
  /\ AsksLive(toWindow, Live)

LEMMA AsksMore ==
  ASSUME NEW w \in Seq(Envelope), NEW ms \in Seq(Envelope), NEW live, NEW more,
         AsksLive(w, live),
         \A i \in DOMAIN w : w[i].action.type = "permissionRequest" /\ w[i].action.request \in live =>
           w[i].action.request \in more,
         \A i \in DOMAIN ms : ms[i].action.type = "permissionRequest" => ms[i].action.request \in more
  PROVE  AsksLive(w \o ms, more)
<1> DEFINE v == w \o ms
<1>1. /\ Len(w) \in Nat /\ Len(ms) \in Nat /\ v \in Seq(Envelope) /\ Len(v) = Len(w) + Len(ms)
      /\ \A i \in 1..Len(w) : v[i] = w[i]
  BY Concatenated
<1>2. \A i \in 1..Len(ms) : v[Len(w) + i] = ms[i]
  BY Concatenated
<1>3. DOMAIN w = 1..Len(w) /\ DOMAIN ms = 1..Len(ms) /\ DOMAIN v = 1..Len(v)
  BY <1>1
<1> HIDE DEF v
<1>4. SUFFICES ASSUME NEW i \in DOMAIN v, v[i].action.type = "permissionRequest",
                      v[i].action.request \notin more
               PROVE  \E j \in DOMAIN v : j > i /\ v[j].own /\ v[j].action.type = "turnCancelled"
  BY DEF AsksLive, v
<1>5. CASE i \in DOMAIN w
  <2>1. v[i] = w[i]
    BY <1>1, <1>3, <1>5
  <2>2. PICK j \in DOMAIN w : j > i /\ w[j].own /\ w[j].action.type = "turnCancelled"
    BY <1>4, <1>5, <2>1 DEF AsksLive
  <2>3. j \in DOMAIN v /\ v[j] = w[j]
    BY <1>1, <1>3
  <2> QED BY <2>2, <2>3
<1>6. CASE i \notin DOMAIN w
  <2>1. i - Len(w) \in 1..Len(ms) /\ i = Len(w) + (i - Len(w))
    BY <1>1, <1>3, <1>6
  <2>2. v[i] = ms[i - Len(w)]
    BY <1>2, <2>1
  <2> QED BY <1>3, <1>4, <2>1, <2>2
<1> QED BY <1>5, <1>6

LEMMA AsksTail ==
  ASSUME NEW w \in Seq(Envelope), w # <<>>, NEW live, AsksLive(w, live)
  PROVE  AsksLive(Tail(w), live)
<1> DEFINE v == Tail(w)
<1>1. /\ Len(w) \in Nat \ {0} /\ Len(v) + 1 = Len(w) /\ v \in Seq(Envelope)
      /\ \A i \in DOMAIN v : i + 1 \in DOMAIN w /\ v[i] = w[i + 1]
  BY HeadAndTail
<1>2. DOMAIN w = 1..Len(w) /\ DOMAIN v = 1..Len(v) /\ Len(v) \in Nat
  BY <1>1
<1> HIDE DEF v
<1>3. SUFFICES ASSUME NEW i \in DOMAIN v, v[i].action.type = "permissionRequest",
                      v[i].action.request \notin live
               PROVE  \E j \in DOMAIN v : j > i /\ v[j].own /\ v[j].action.type = "turnCancelled"
  BY DEF AsksLive, v
<1>4. i + 1 \in DOMAIN w /\ v[i] = w[i + 1]
  BY <1>1
<1>5. PICK j \in DOMAIN w : j > i + 1 /\ w[j].own /\ w[j].action.type = "turnCancelled"
  BY <1>3, <1>4 DEF AsksLive
<1>6. j - 1 \in DOMAIN v /\ (j - 1) + 1 = j /\ j - 1 > i
  BY <1>1, <1>2, <1>5
<1>7. v[j - 1] = w[j]
  BY <1>1, <1>6
<1> QED BY <1>5, <1>6, <1>7

----------------------------------------------------------------------------
LEMMA CancelsOfDispatch ==
  ASSUME TypeInv, SeenInv, CancelsFit(confirmed, pending),
         (\E t \in Turn : StartTurn(t)) \/ CancelTurn \/ AnswerSome
  PROVE  CancelsFit(confirmed', pending')
<1>1. PICK q \in Seq(OwnAction) :
        /\ Dispatch(q)
        /\ \A i \in 1..Len(q) : q[i].type = "turnCancelled" => i = 1 /\ q[i].turn = running
  BY DispatchedActions
<1>2. /\ pending' = pending \o q /\ pending \in Seq(OwnAction) /\ confirmed' = confirmed
      /\ Seen.id = running
  BY <1>1, DispatchedType DEF Dispatch, TypeInv, QueueTypes, SeenInv, Showing
<1> DEFINE p2 == pending \o q
           L  == Len(pending)
<1>3. /\ L \in Nat /\ Len(q) \in Nat /\ Len(p2) = L + Len(q)
      /\ \A i \in 1..L : p2[i] = pending[i]
  BY <1>2, Concatenated
<1>4. \A i \in 1..Len(q) : p2[L + i] = q[i]
  BY <1>2, Concatenated
<1> HIDE DEF p2
<1>5. SUFFICES ASSUME NEW t, Steps(confirmed, p2, t),
                      NEW i \in Nat, i < Len(p2), p2[i + 1].type = "turnCancelled"
               PROVE  t[i].activeTurn.id \in {p2[i + 1].turn, NoTurn}
  BY <1>2 DEF CancelsFit, p2
<1>6. Steps(confirmed, pending, t)
  <2>1. \A k \in Nat : k < L => k < Len(p2) /\ k + 1 \in 1..L
    BY <1>3
  <2> QED BY <1>3, <1>5, <2>1 DEF Steps
<1>7. CASE i < L
  <2>1. p2[i + 1] = pending[i + 1]
    BY <1>3, <1>7
  <2> QED BY <1>5, <1>6, <1>7, <2>1 DEF CancelsFit
<1>8. CASE ~(i < L)
  <2>1. (i + 1) - L \in 1..Len(q) /\ i + 1 = L + ((i + 1) - L)
    BY <1>3, <1>5, <1>8
  <2>2. p2[i + 1] = q[(i + 1) - L]
    BY <1>4, <2>1
  <2>3. (i + 1) - L = 1 /\ p2[i + 1].turn = running
    BY <1>1, <1>5, <2>1, <2>2
  <2>4. i = L
    BY <1>3, <2>3
  <2>5. t[L] = FoldLeft(Reduce, confirmed, pending)
    BY <1>2, <1>6, StepsEnd
  <2> QED BY <1>2, <2>3, <2>4, <2>5 DEF Seen, Optimistic, ReduceAll
<1> QED BY <1>7, <1>8

LEMMA AnswersOfDispatch ==
  ASSUME TypeInv, AnswersFit(confirmed, pending, prompts),
         (\E t \in Turn : StartTurn(t)) \/ CancelTurn \/ AnswerSome
  PROVE  AnswersFit(confirmed', pending', prompts')
<1>1. PICK q \in Seq(OwnAction) :
        /\ Dispatch(q)
        /\ \A i \in 1..Len(q) : q[i].type = "permissionResolved" =>
             \E p \in prompts : q[i].turn = p.turn /\ q[i].request = p.request
  BY DispatchedActions
<1>2. /\ pending' = pending \o q /\ pending \in Seq(OwnAction) /\ confirmed' = confirmed
      /\ prompts' \subseteq prompts
  BY <1>1, DispatchedType, DispatchedActions DEF Dispatch, TypeInv, QueueTypes
<1>3. ToSet(pending') = ToSet(pending) \cup ToSet(q)
  BY <1>2, InConcat
<1>4. \A a \in ToSet(q) : a.type = "permissionResolved" =>
        \E p \in prompts : a.turn = p.turn /\ a.request = p.request
  <2>1. DOMAIN q = 1..Len(q)
    OBVIOUS
  <2> QED BY <1>1, <2>1 DEF ToSet
<1>5. SUFFICES ASSUME NEW r \in confirmed.activeTurn.pendingPermissions
               PROVE  /\ \A p \in prompts' : p.request = r => p.turn = confirmed.activeTurn.id
                      /\ \A a \in ToSet(pending') : a.type = "permissionResolved" /\ a.request = r =>
                           a.turn = confirmed.activeTurn.id
  BY <1>2 DEF AnswersFit
<1>6. /\ \A p \in prompts : p.request = r => p.turn = confirmed.activeTurn.id
      /\ \A a \in ToSet(pending) : a.type = "permissionResolved" /\ a.request = r =>
           a.turn = confirmed.activeTurn.id
  BY DEF AnswersFit
<1> QED BY <1>2, <1>3, <1>4, <1>6

LEMMA CancelsOfReceive ==
  ASSUME TypeInv, EchoInv, CancelsFit(confirmed, pending), ReceiveEnvelope
  PROVE  CancelsFit(confirmed', pending')
<1> DEFINE a == Head(toWindow).action
<1>1. /\ confirmed \in SessionState /\ pending \in Seq(OwnAction) /\ a \in Action
      /\ confirmed' = Reduce(confirmed, a) /\ confirmed' \in SessionState
      /\ Head(toWindow) \in Envelope
  BY ReceiveEffect DEF TypeInv, TypeOK, QueueTypes
<1>2. CASE Head(toWindow).own
  <2>1. pending # <<>> /\ Head(pending) = a /\ pending' = Tail(pending)
    BY <1>2, ReceiveEffect
  <2> HIDE DEF a
  <2> DEFINE v == Tail(pending)
  <2>2. /\ Len(pending) \in Nat /\ Len(v) \in Nat /\ Len(v) + 1 = Len(pending) /\ pending[1] = a
        /\ \A i \in 1..Len(v) : v[i] = pending[i + 1]
    <3>1. /\ Head(pending) = pending[1] /\ v \in Seq(OwnAction)
          /\ Len(pending) \in Nat /\ Len(v) + 1 = Len(pending)
          /\ \A i \in DOMAIN v : v[i] = pending[i + 1]
      BY <1>1, <2>1, HeadAndTail
    <3>2. DOMAIN v = 1..Len(v) /\ Len(v) \in Nat
      BY <3>1
    <3> HIDE DEF v
    <3> QED BY <2>1, <3>1, <3>2
  <2> HIDE DEF v
  <2>3. SUFFICES ASSUME NEW u, Steps(confirmed', v, u),
                        NEW i \in Nat, i < Len(v), v[i + 1].type = "turnCancelled"
                 PROVE  u[i].activeTurn.id \in {v[i + 1].turn, NoTurn}
    BY <2>1 DEF CancelsFit, v
  <2> DEFINE t == [k \in Nat |-> IF k = 0 THEN confirmed ELSE u[k - 1]]
  <2>4. t[0] = confirmed /\ \A k \in Nat : t[k + 1] = u[k]
    OBVIOUS
  <2> HIDE DEF t
  <2>5. ASSUME NEW k \in Nat, k < Len(pending)
        PROVE  t[k + 1] = Reduce(t[k], pending[k + 1])
    <3>1. CASE k = 0
      <4>1. u[0] = Reduce(confirmed, a)
        BY <1>1, <2>3 DEF Steps
      <4>2. t[0 + 1] = u[0] /\ pending[0 + 1] = a
        BY <2>2, <2>4
      <4> QED BY <2>4, <3>1, <4>1, <4>2
    <3>2. CASE k # 0
      <4> DEFINE l == k - 1
      <4>1. l \in Nat /\ l < Len(v) /\ l + 1 = k /\ k \in 1..Len(v)
        BY <2>2, <2>5, <3>2
      <4> HIDE DEF l
      <4>2. u[l + 1] = Reduce(u[l], v[l + 1])
        BY <2>3, <4>1 DEF Steps
      <4>3. t[k] = u[l]
        BY <2>4, <4>1
      <4>4. t[k + 1] = u[k] /\ v[k] = pending[k + 1]
        BY <2>2, <2>4, <4>1
      <4> QED BY <4>1, <4>2, <4>3, <4>4
    <3> QED BY <3>1, <3>2
  <2>6. Steps(confirmed, pending, t)
    BY <2>4, <2>5 DEF Steps
  <2>7. i + 1 \in Nat /\ i + 1 < Len(pending) /\ pending[(i + 1) + 1] = v[i + 1]
    BY <2>2, <2>3
  <2>8. t[i + 1].activeTurn.id \in {pending[(i + 1) + 1].turn, NoTurn}
    BY <2>3, <2>6, <2>7 DEF CancelsFit
  <2> QED BY <2>4, <2>7, <2>8
<1>3. CASE ~Head(toWindow).own
  <2>1. pending' = pending
    BY <1>3, ReceiveEffect
  <2>2. a \in AgentAction
    BY <1>1, <1>3, OwnTypes DEF Envelope, AgentAction
  <2> HIDE DEF a
  <2>3. SUFFICES ASSUME NEW u, Steps(confirmed', pending, u),
                        NEW i \in Nat, i < Len(pending), pending[i + 1].type = "turnCancelled"
                 PROVE  u[i].activeTurn.id \in {pending[i + 1].turn, NoTurn}
    BY <2>1 DEF CancelsFit
  <2>4. PICK t : Steps(confirmed, pending, t)
    BY <1>1, FoldSteps
  <2>5. t[i].activeTurn.id \in {pending[i + 1].turn, NoTurn}
    BY <2>3, <2>4 DEF CancelsFit
  <2>6. Differ(a, t[i], u[i])
    BY <1>1, <2>2, <2>3, <2>4, StepsDiffer
  <2>7. u[i].activeTurn.id = t[i].activeTurn.id \/ u[i].activeTurn.id = NoTurn
    BY <2>6 DEF Differ, NewTurn
  <2> QED BY <2>5, <2>7
<1> QED BY <1>2, <1>3

LEMMA AnswersOfReceive ==
  ASSUME TypeInv, EchoInv, AskInv, SeenInv, AnswersFit(confirmed, pending, prompts), ReceiveEnvelope
  PROVE  AnswersFit(confirmed', pending', prompts')
<1> DEFINE a == Head(toWindow).action
<1>1. /\ confirmed \in SessionState /\ pending' \in Seq(OwnAction) /\ a \in Action
      /\ confirmed' = Reduce(confirmed, a) /\ confirmed' \in SessionState
      /\ toWindow \in Seq(Envelope) /\ toWindow # <<>> /\ Head(toWindow) \in Envelope
      /\ prompts \subseteq [turn : Turn, request : Request]
  BY ReceiveEffect DEF TypeInv, TypeOK, QueueTypes
<1>2. ToSet(pending') \subseteq ToSet(pending)
  BY ReceivedAnswers
<1>3. \A p \in prompts' : \/ p \in prompts
                          \/ /\ p.turn = running /\ Seen'.id = running
                             /\ p.request \in Seen'.pendingPermissions
  BY ReceiveEffect
<1>4. ASSUME NEW p \in prompts', p \notin prompts
      PROVE  p.turn = confirmed'.activeTurn.id
  <2>1. p.turn = Seen'.id /\ p.request \in Seen'.pendingPermissions
    BY <1>3, <1>4
  <2>2. Seen'.id = confirmed'.activeTurn.id
    BY <1>1, <2>1, OptimisticRequests DEF Seen
  <2> QED BY <2>1, <2>2
<1>5. ASSUME a.type = "permissionRequest", a.request \in Request
      PROVE  a.request \notin {p.request : p \in prompts} /\ a.request \notin Answers(pending)
  <2>1. Head(toWindow) \in Asks(a.request)
    BY <1>1, <1>5 DEF Asks
  <2>2. Among(toWindow, Asks(a.request))
    BY <1>1, <2>1, OnceInTail
  <2> QED BY <1>5, <2>2 DEF AskInv, RequestsFresh, Known
<1>6. a.type = "permissionRequest" => a.request \in Request
  BY <1>1, ActionKinds DEF TurnEnd
<1> HIDE DEF a
<1>7. SUFFICES ASSUME NEW r \in confirmed'.activeTurn.pendingPermissions
               PROVE  /\ \A p \in prompts : p.request = r => p.turn = confirmed'.activeTurn.id
                      /\ \A b \in ToSet(pending) : b.type = "permissionResolved" /\ b.request = r =>
                           b.turn = confirmed'.activeTurn.id
  BY <1>2, <1>4 DEF AnswersFit
<1>8. confirmed'.activeTurn.id = confirmed.activeTurn.id
  BY <1>1, <1>7, ReduceRequests
<1>9. CASE r \in confirmed.activeTurn.pendingPermissions
  BY <1>8, <1>9 DEF AnswersFit
<1>10. CASE r \notin confirmed.activeTurn.pendingPermissions
  <2>1. a.type = "permissionRequest" /\ r = a.request
    BY <1>1, <1>7, <1>10, ReduceRequests
  <2>2. r \notin {p.request : p \in prompts} /\ r \notin Answers(pending)
    BY <1>5, <1>6, <2>1
  <2> QED BY <2>2 DEF Answers
<1> QED BY <1>9, <1>10

----------------------------------------------------------------------------
\* A cancellation behind them is enough for all the requests under way.
LEMMA AsksCancelled ==
  ASSUME NEW w \in Seq(Envelope), NEW ms \in Seq(Envelope), NEW k \in 1..Len(ms),
         ms[k].own, ms[k].action.type = "turnCancelled", NEW live,
         \A i \in DOMAIN ms : ms[i].action.type # "permissionRequest"
  PROVE  AsksLive(w \o ms, live)
<1> DEFINE v == w \o ms
           n == Len(w) + k
<1>1. /\ Len(w) \in Nat /\ Len(ms) \in Nat /\ v \in Seq(Envelope) /\ Len(v) = Len(w) + Len(ms)
      /\ \A i \in 1..Len(w) : v[i] = w[i]
  BY Concatenated
<1>2. \A i \in 1..Len(ms) : v[Len(w) + i] = ms[i]
  BY Concatenated
<1> HIDE DEF v
<1>3. DOMAIN v = 1..Len(v) /\ DOMAIN ms = 1..Len(ms) /\ n \in DOMAIN v
  BY <1>1
<1>4. SUFFICES ASSUME NEW i \in DOMAIN v, v[i].action.type = "permissionRequest"
               PROVE  \E j \in DOMAIN v : j > i /\ v[j].own /\ v[j].action.type = "turnCancelled"
  BY DEF AsksLive, v
<1>5. v[n].own /\ v[n].action.type = "turnCancelled"
  BY <1>2
<1>6. i <= Len(w)
  <2>1. CASE i > Len(w)
    <3>1. i - Len(w) \in 1..Len(ms) /\ Len(w) + (i - Len(w)) = i
      BY <1>1, <1>3, <2>1
    <3>2. v[i] = ms[i - Len(w)]
      BY <1>2, <3>1
    <3> QED BY <1>3, <1>4, <3>1, <3>2
  <2> QED BY <1>1, <1>3, <2>1
<1>7. n > i
  BY <1>1, <1>3, <1>6
<1> QED BY <1>3, <1>5, <1>7

\* The server handles an action of the window.
LEMMA PromptsOfServer ==
  ASSUME TypeInv, EchoInv, AskInv, SeenInv, PromptInv, HandleDispatchAction
  PROVE  PromptInv'
<1> DEFINE a  == Head(toServer)
           ms == Envelopes(<<a>>, TRUE)
<1>1. /\ toWindow \in Seq(Envelope) /\ toServer \in Seq(OwnAction) /\ toServer # <<>>
      /\ UNCHANGED <<confirmed, pending, prompts>> /\ toWindow' = toWindow \o ms
      /\ confirmed \in SessionState /\ pending \in Seq(OwnAction)
      /\ confirmed.activeTurn.id = NoTurn => confirmed.activeTurn.pendingPermissions = {}
  <2>1. Apply(<<a>>, TRUE) /\ toServer # <<>> /\ UNCHANGED window
    BY Zenon DEF HandleDispatchAction
  <2> QED BY <2>1 DEF Apply, Envelopes, window, TypeInv, TypeOK, QueueTypes, SeenInv
<1>2. a \in OwnAction /\ a \in ToSet(pending)
  BY <1>1, HeadAndTail, InHeadOrTail, UnderWayIsPending
<1>3. SideEffect(a)
  BY Zenon DEF HandleDispatchAction
<1> HIDE DEF a
<1>4. /\ ms \in Seq(Envelope) /\ Len(ms) = 1 /\ ms[1].action = a /\ ms[1].own = TRUE
  BY <1>2, EnvelopeOfOne
<1>5. DOMAIN ms = {1} /\ 1 \in 1..Len(ms)
  <2>1. \A q \in Seq(Envelope) : DOMAIN q = 1..Len(q)
    OBVIOUS
  <2>2. DOMAIN ms = 1..1 /\ Len(ms) = 1
    BY <1>4, <2>1
  <2>3. 1..1 = {1}
    OBVIOUS
  <2> QED BY <2>2, <2>3, Zenon
<1> HIDE DEF ms
<1>6. a.type \in OwnType /\ \A i \in DOMAIN ms : ms[i].action.type # "permissionRequest"
  BY <1>2, <1>4, <1>5 DEF OwnAction, OwnType
<1>7. /\ CancelsFit(confirmed', pending') /\ AnswersFit(confirmed', pending', prompts')
      /\ Seen' = Seen /\ Seen.pendingPermissions \subseteq Live /\ AsksLive(toWindow, Live)
      /\ CancelsFit(confirmed, pending) /\ AnswersFit(confirmed, pending, prompts)
  BY <1>1 DEF PromptInv, Seen
<1>8. CASE a.type = "turnStarted"
  <2>1. Live' = Live
    BY <1>3, <1>8 DEF SideEffect, Live
  <2>2. AsksLive(toWindow', Live')
    BY <1>1, <1>4, <1>6, <1>7, <2>1, AsksMore
  <2> QED BY <1>7, <2>1, <2>2 DEF PromptInv
<1>9. CASE a.type = "turnCancelled"
  <2>1. Live' = {}
    BY <1>3, <1>9 DEF SideEffect, Live
  <2>2. Seen.pendingPermissions = {}
    BY <1>1, <1>2, <1>7, <1>9, CancelledIsGone DEF Seen
  <2>3. AsksLive(toWindow', Live')
    <3>1. ms[1].own /\ ms[1].action.type = "turnCancelled"
      BY <1>4, <1>9
    <3>2. AsksLive(toWindow \o ms, {})
      BY <1>1, <1>4, <1>5, <1>6, <3>1, AsksCancelled
    <3> QED BY <1>1, <2>1, <3>2
  <2> QED BY <1>7, <2>1, <2>2, <2>3 DEF PromptInv
<1>10. CASE a.type = "permissionResolved"
  <2> DEFINE r == a.request
  <2>1. Live' = Live \ {r} /\ r \in Request
    BY <1>2, <1>3, <1>10, OwnKinds DEF SideEffect, RoutesAfter, Live
  <2>2. r \notin Seen.pendingPermissions
    BY <1>1, <1>2, <1>7, <1>10, AnsweredIsGone DEF Seen
  <2>3. r \in Known
    BY <1>2, <1>10 DEF Known, Answers
  <2> HIDE DEF r
  <2>4. ~Among(toWindow, Asks(r))
    BY <2>1, <2>3 DEF AskInv, RequestsFresh
  <2>5. ASSUME NEW i \in DOMAIN toWindow, toWindow[i].action.type = "permissionRequest"
        PROVE  toWindow[i].action.request # r
    <3>1. toWindow[i] \in ToSet(toWindow) /\ toWindow[i] \in Envelope
      BY <1>1 DEF ToSet
    <3> QED BY <2>4, <2>5, <3>1 DEF Among, Asks
  <2> DEFINE L == Live \ {r}
  <2>6. AsksLive(toWindow \o ms, L)
    <3>1. \A i \in DOMAIN toWindow :
            toWindow[i].action.type = "permissionRequest" /\ toWindow[i].action.request \in Live =>
              toWindow[i].action.request \in L
      BY <2>5
    <3> HIDE DEF L
    <3> QED BY <1>1, <1>4, <1>6, <1>7, <3>1, AsksMore
  <2> QED BY <1>1, <1>7, <2>1, <2>2, <2>6 DEF PromptInv
<1> QED BY <1>6, <1>8, <1>9, <1>10 DEF OwnType

\* An event of the SDK reaches the server.
LEMMA PromptsOfAgent ==
  ASSUME TypeInv, PromptInv, HandleProgress \/ HandleSendFailed
  PROVE  PromptInv'
<1>1. /\ UNCHANGED <<confirmed, pending, prompts>> /\ events \in Seq(Event) /\ events # <<>>
      /\ toWindow \in Seq(Envelope)
  BY DEF HandleProgress, HandleSendFailed, window, TypeInv, QueueTypes
<1>2. /\ CancelsFit(confirmed', pending') /\ AnswersFit(confirmed', pending', prompts')
      /\ Seen' = Seen /\ Seen.pendingPermissions \subseteq Live /\ AsksLive(toWindow, Live)
  BY <1>1 DEF PromptInv, Seen
<1>3. CASE HandleProgress
  <2> DEFINE e  == Head(events)
             ms == Envelopes(Arriving, FALSE)
             asks == IF e.type = "permission_request" THEN {e.request} ELSE {}
  <2>1. /\ waiting' = waiting \cup asks /\ routed' = routed \cup asks
        /\ toWindow' = toWindow \o ms /\ e.type # "sendFailed"
    BY <1>3 DEF HandleProgress, Apply, Arriving, Envelopes
  <2>2. Arriving \in Seq(AgentAction)
    BY <1>1, <2>1, ArrivingType DEF TypeInv, TypeOK
  <2>3. ms \in Seq(Envelope)
    BY <2>2, EnvelopesType
  <2>4. \A r \in Request : Among(ms, Asks(r)) => e \in AskEvents(r)
    BY <1>1, <2>1, ArrivingAsks
  <2> HIDE DEF ms, e
  <2>5. ASSUME NEW i \in DOMAIN ms, ms[i].action.type = "permissionRequest"
        PROVE  ms[i].action.request \in asks
    <3>1. ms[i] \in Envelope /\ ms[i] \in ToSet(ms) /\ ms[i].action \in Action
      BY <2>3 DEF ToSet, Envelope
    <3>2. ms[i].action.request \in Request
      BY <2>5, <3>1, ActionKinds DEF TurnEnd
    <3>3. ms[i] \in Asks(ms[i].action.request)
      BY <2>5, <3>1 DEF Asks
    <3>4. e \in AskEvents(ms[i].action.request)
      BY <2>4, <3>1, <3>2, <3>3 DEF Among
    <3> QED BY <3>4 DEF AskEvents
  <2> HIDE DEF asks
  <2>6. Live' = Live \cup asks
    BY <2>1 DEF Live
  <2>7. AsksLive(toWindow \o ms, Live \cup asks)
    BY <1>1, <1>2, <2>3, <2>5, AsksMore
  <2> QED BY <1>2, <2>1, <2>6, <2>7 DEF PromptInv
<1>4. CASE HandleSendFailed
  <2> DEFINE a  == [type |-> "error", turn |-> Head(events).turn]
             q  == <<a>>
             ms == Envelopes(q, FALSE)
  <2>1. /\ toWindow' = toWindow \o ms /\ UNCHANGED <<routed, waiting>>
        /\ Head(events).type = "sendFailed"
    <3>1. Apply(q, FALSE) /\ UNCHANGED <<routed, waiting>> /\ Head(events).type = "sendFailed"
      BY <1>4, Zenon DEF HandleSendFailed
    <3> QED BY <3>1 DEF Apply, Envelopes
  <2>2. a \in AgentAction /\ a.type = "error"
    BY <1>1, <2>1, HeadAndTail, EventKinds DEF AgentAction, OwnType, Action, TurnAction
  <2> HIDE DEF a
  <2>3. q \in Seq(AgentAction) /\ Len(q) = 1 /\ DOMAIN q = 1..1 /\ q[1] = a
    BY <2>2
  <2> HIDE DEF q
  <2>4. q \in IF FALSE THEN Seq(OwnAction) ELSE Seq(AgentAction)
    BY <2>3
  <2>5. ms \in Seq(Envelope) /\ Len(ms) = Len(q) /\ \A i \in DOMAIN q : ms[i].action = q[i]
    BY <2>4, EnvelopesType
  <2> HIDE DEF ms
  <2>6. DOMAIN ms = 1..1
    BY <2>3, <2>5
  <2>7. \A i \in DOMAIN ms : ms[i].action.type # "permissionRequest"
    BY <2>2, <2>3, <2>5, <2>6
  <2>8. Live' = Live
    BY <2>1 DEF Live
  <2>9. AsksLive(toWindow \o ms, Live)
    BY <1>1, <1>2, <2>5, <2>7, AsksMore
  <2> QED BY <1>2, <2>1, <2>8, <2>9 DEF PromptInv
<1> QED BY <1>3, <1>4

\* The window dispatches: it shows no request it did not show before.
LEMMA PromptsOfDispatch ==
  ASSUME TypeInv, SeenInv, PromptInv, (\E t \in Turn : StartTurn(t)) \/ CancelTurn \/ AnswerSome
  PROVE  PromptInv'
<1>1. PICK q \in Seq(OwnAction) : Dispatch(q)
  BY DispatchedType
<1>2. UNCHANGED <<routed, waiting, toWindow, confirmed>>
  BY DispatchedType
<1>3. CancelsFit(confirmed', pending') /\ AnswersFit(confirmed', pending', prompts')
  BY CancelsOfDispatch, AnswersOfDispatch DEF PromptInv
<1> DEFINE st == Optimistic(confirmed, pending)
<1>4. st \in SessionState
  BY OptimisticType DEF TypeInv, TypeOK, QueueTypes
<1>5. Seen' = Optimistic(st, q).activeTurn
  BY <1>1, <1>2, SeenAfter DEF Optimistic
<1>6. Seen'.pendingPermissions \subseteq Seen.pendingPermissions
  <2>1. st.activeTurn = Seen
    BY DEF Seen
  <2> HIDE DEF st
  <2> QED BY <1>4, <1>5, <2>1, OptimisticRequests
<1>7. Live' = Live
  BY <1>2 DEF Live
<1> QED BY <1>2, <1>3, <1>6, <1>7 DEF PromptInv

\* The window receives an envelope: a request that is new to it is held, or
\* its own cancellation, which is behind the request, hides it.
LEMMA PromptsOfReceive ==
  ASSUME TypeInv, EchoInv, AskInv, SeenInv, PromptInv, ReceiveEnvelope
  PROVE  PromptInv'
<1> DEFINE a == Head(toWindow).action
<1>1. /\ toWindow \in Seq(Envelope) /\ toWindow # <<>> /\ toWindow' = Tail(toWindow)
      /\ UNCHANGED <<routed, waiting>> /\ a \in Action
      /\ confirmed' \in SessionState /\ confirmed' = Reduce(confirmed, a)
      /\ confirmed \in SessionState /\ pending' \in Seq(OwnAction)
  BY ReceiveEffect DEF TypeInv, TypeOK, QueueTypes
<1>2. CancelsFit(confirmed', pending') /\ AnswersFit(confirmed', pending', prompts')
  BY CancelsOfReceive, AnswersOfReceive DEF PromptInv
<1>3. Live' = Live
  BY <1>1 DEF Live
<1>4. AsksLive(toWindow', Live')
  BY <1>1, <1>3, AsksTail DEF PromptInv
<1>5. Seen'.pendingPermissions \subseteq Live
  <2>1. CASE Head(toWindow).own
    BY <2>1, SeenInEcho DEF PromptInv
  <2>2. CASE ~Head(toWindow).own
    <3>1. CASE Seen'.pendingPermissions = Seen.pendingPermissions
      BY <3>1 DEF PromptInv
    <3>2. CASE Seen' = NewTurn(NoTurn)
      BY <3>2 DEF NewTurn
    <3>3. ASSUME a.type = "permissionRequest",
                 Seen'.pendingPermissions = Seen.pendingPermissions \cup {a.request}
          PROVE  Seen'.pendingPermissions \subseteq Live
      <4>1. 1 \in DOMAIN toWindow /\ toWindow[1].action = a
        BY <1>1, HeadAndTail
      <4> HIDE DEF a
      <4>2. CASE a.request \in Live
        BY <3>3, <4>2 DEF PromptInv
      <4>3. ASSUME NEW j \in DOMAIN toWindow, j > 1, toWindow[j].own,
                   toWindow[j].action.type = "turnCancelled"
            PROVE  Seen'.pendingPermissions = {}
        <5>1. toWindow[j].action \in ToSet(pending)
          BY <4>3, UnderWayIsPending
        <5>2. pending' = pending
          BY <2>2, ReceiveEffect
        <5>3. confirmed'.activeTurn.id = NoTurn => confirmed'.activeTurn.pendingPermissions = {}
          BY <1>1, QuietReduced DEF SeenInv
        <5> QED BY <1>1, <1>2, <4>3, <5>1, <5>2, <5>3, CancelledIsGone DEF Seen
      <4>4. a.request \in Live \/ \E j \in DOMAIN toWindow :
              j > 1 /\ toWindow[j].own /\ toWindow[j].action.type = "turnCancelled"
        BY <3>3, <4>1 DEF PromptInv, AsksLive
      <4> QED BY <4>2, <4>3, <4>4
    <3> QED BY <2>2, <3>1, <3>2, <3>3, SeenInNews
  <2> QED BY <2>1, <2>2
<1> QED BY <1>2, <1>3, <1>4, <1>5 DEF PromptInv

LEMMA PromptStep ==
  TypeInv /\ EchoInv /\ AskInv /\ SeenInv /\ PromptInv /\ [Next]_vars => PromptInv'
<1> SUFFICES ASSUME TypeInv, EchoInv, AskInv, SeenInv, PromptInv, [Next]_vars PROVE PromptInv'
  OBVIOUS
<1>1. CASE HandleDispatchAction
  BY <1>1, PromptsOfServer
<1>2. CASE HandleProgress \/ HandleSendFailed
  BY <1>2, PromptsOfAgent
<1>3. CASE Sdk
  BY <1>3, SdkReports DEF window, PromptInv, Seen, Live
<1>4. CASE (\E t \in Turn : StartTurn(t)) \/ CancelTurn \/ AnswerSome
  BY <1>4, PromptsOfDispatch
<1>5. CASE ReceiveEnvelope
  BY <1>5, PromptsOfReceive
<1>6. CASE UNCHANGED vars
  BY <1>6 DEF vars, window, server, net, PromptInv, Seen, Live
<1> QED BY <1>1, <1>2, <1>3, <1>4, <1>5, <1>6 DEF Next

LEMMA PromptInit == Init => PromptInv
<1> SUFFICES ASSUME Init PROVE PromptInv
  OBVIOUS
<1>1. confirmed = EmptySession /\ pending = <<>> /\ toWindow = <<>>
  BY DEF Init
<1>2. EmptySession.activeTurn.pendingPermissions = {}
  BY DEF EmptySession, NewTurn
<1>3. Seen = EmptySession.activeTurn
  BY <1>1, FoldEmpty DEF Seen, Optimistic, ReduceAll
<1>4. CancelsFit(confirmed, pending)
  <2>1. Len(pending) = 0
    BY <1>1
  <2>2. \A i \in Nat : ~(i < 0)
    OBVIOUS
  <2> QED BY <2>1, <2>2 DEF CancelsFit
<1>5. AnswersFit(confirmed, pending, prompts)
  BY <1>1, <1>2 DEF AnswersFit
<1>6. AsksLive(toWindow, Live)
  BY <1>1 DEF AsksLive
<1> QED BY <1>2, <1>3, <1>4, <1>5, <1>6 DEF PromptInv

\* A permission prompt of the running request can be answered: the agent still
\* holds the request and the server still routes the answer to it, whichever
\* cancellations and answers are under way.
THEOREM PromptsCanBeAnswered == Spec => []PromptsAreAnswerable
<1>1. Spec => []PromptInv
  BY TypesHold, WindowHolds, PromptInit, PromptStep, PTL DEF Spec
<1>2. SeenInv /\ PromptInv => PromptsAreAnswerable
  <2> SUFFICES ASSUME SeenInv, PromptInv, NEW p \in prompts, p.turn = running
               PROVE  p.request \in routed \cap waiting
    BY DEF PromptsAreAnswerable
  <2>1. p.request \in PromptsOf(prompts, running)
    BY DEF PromptsOf
  <2> QED BY <2>1 DEF SeenInv, Showing, PromptInv, Live
<1> QED BY WindowHolds, <1>1, <1>2, PTL

=============================================================================
