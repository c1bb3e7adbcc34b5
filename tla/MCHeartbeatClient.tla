--------------------------- MODULE MCHeartbeatClient ---------------------------
(* Instances of HeartbeatClient for TLC. *)
EXTENDS HeartbeatClient

CONSTANTS c1, h1, p1, p2   \* model values
=============================================================================
