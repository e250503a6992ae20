--------------------------- MODULE MCBoundedQueue ---------------------------
(* BoundedQueue for TLC: a queue of one place and three threads, so that two *)
(* can wait for the place while the third frees it.                          *)
EXTENDS BoundedQueue
=============================================================================
