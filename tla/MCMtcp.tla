-------------------------------- MODULE MCMtcp --------------------------------
(* Instances of Mtcp for TLC. *)
EXTENDS Mtcp
===============================================================================
