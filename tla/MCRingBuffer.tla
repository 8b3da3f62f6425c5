----------------------------- MODULE MCRingBuffer -----------------------------
(* An instance of RingBuffer for TLC: sequence numbers wrap in the stream. *)
EXTENDS RingBuffer
===============================================================================
