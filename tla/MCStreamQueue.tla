---------------------------- MODULE MCStreamQueue ----------------------------
(* Instances of StreamQueue for TLC. *)
EXTENDS StreamQueue
==============================================================================
