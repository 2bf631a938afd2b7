--------------------------- MODULE ReliableChannel ---------------------------
(***************************************************************************)
(* What a persistent connection promises to the two ends that use it: in   *)
(* each direction a FIFO channel that loses, repeats and reorders nothing, *)
(* whatever happens to the sockets below it.                               *)
(***************************************************************************)
EXTENDS Naturals, Sequences

CONSTANTS
  End,   \* the two ends
  Peer,  \* the other end of each
  Data   \* what they send

VARIABLES
  sent,     \* what each end has sent, in order
  received  \* what each end has received, in order

Init ==
  /\ sent = [e \in End |-> <<>>]
  /\ received = [e \in End |-> <<>>]

Send(e) ==
  /\ \E d \in Data : sent' = [sent EXCEPT ![e] = Append(@, d)]
  /\ UNCHANGED received

\* An end receives the oldest message of its peer it has not received yet.
Receive(e) ==
  LET n == Len(received[e]) + 1
  IN /\ n <= Len(sent[Peer[e]])
     /\ received' = [received EXCEPT ![e] = Append(@, sent[Peer[e]][n])]
     /\ UNCHANGED sent

Next == \E e \in End : Send(e) \/ Receive(e)

Spec == Init /\ [][Next]_<<sent, received>>
=============================================================================
