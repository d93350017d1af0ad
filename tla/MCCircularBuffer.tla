-------------------------- MODULE MCCircularBuffer --------------------------
(* CircularBuffer on small rings, for TLC. *)
EXTENDS CircularBuffer
=============================================================================
