----------------------------- MODULE MCNCStream -----------------------------
(* NCStream with a short queue, for TLC. *)
EXTENDS NCStream
=============================================================================
