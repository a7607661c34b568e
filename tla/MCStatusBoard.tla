--------------------------- MODULE MCStatusBoard ---------------------------
(* Instances of StatusBoard for TLC.                                        *)
EXTENDS StatusBoard
=============================================================================
