------------------------- MODULE MCRemoteConnection -------------------------
(***************************************************************************)
(* Instances of RemoteConnection for TLC.                                  *)
(***************************************************************************)
EXTENDS RemoteConnection

CONSTANTS a, b, c

\* Two messages from the client cross one of the server.
Crossing == [e \in End |-> IF e = "client" THEN <<a, b>> ELSE <<c>>]
=============================================================================
