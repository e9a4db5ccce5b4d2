------------------------- MODULE MCSessionLifecycle -------------------------
(* Bounds for TLC: two workers, one request of the session, two sockets.   *)
EXTENDS SessionLifecycle, TLC
=============================================================================
