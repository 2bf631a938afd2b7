---------------------------- MODULE MCAgentTurns ----------------------------
(***************************************************************************)
(* Instances of AgentTurns for TLC.                                        *)
(***************************************************************************)
EXTENDS AgentTurns

CONSTANTS k1, k2, r1, r2

\* Two requests about one tool call, or one request about each of two.
OneTool  == (r1 :> k1) @@ (r2 :> k1)
TwoTools == (r1 :> k1) @@ (r2 :> k2)

\* Turn ids are interchangeable, but for which of them may be cancelled.
Turns == {p @@ q : p \in Permutations(Cancellable), q \in Permutations(Turn \ Cancellable)}
=============================================================================
