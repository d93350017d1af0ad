------------------------------ MODULE MCStream ------------------------------
(* Stream with a small buffer, for TLC. *)
EXTENDS Stream
=============================================================================
