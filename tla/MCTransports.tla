---------------------------- MODULE MCTransports ----------------------------
(* Instances of Transports for TLC.                                         *)
EXTENDS Transports
=============================================================================
