------------------------- MODULE MCSessionProtocol -------------------------
(***************************************************************************)
(* Instances of SessionProtocol for TLC.                                   *)
(***************************************************************************)
EXTENDS SessionProtocol

CONSTANTS c1, c2, h1, h2, s1, s2

\* Two windows looking at the same session, over a connection each.
TwoWindows == (h1 :> c1) @@ (h2 :> c2)
SharedSession == (h1 :> {s1}) @@ (h2 :> {s1})

\* The two windows are interchangeable, and so are the turn ids.
Swap == (c1 :> c2) @@ (c2 :> c1) @@ (h1 :> h2) @@ (h2 :> h1)
Turns == Permutations(Turn)
Windows == Turns \cup {Swap @@ p : p \in Turns}

\* One window with a session and the holder of the root state.
WithRoot == (h1 :> c1) @@ (h2 :> c1)
SessionAndRoot == (h1 :> {s1}) @@ (h2 :> {Root})

\* One window with two providers of one host, a handler each, and so two
\* clientSeq counters under one clientId.
TwoProviders == (h1 :> {s1}) @@ (h2 :> {s2})
=============================================================================
