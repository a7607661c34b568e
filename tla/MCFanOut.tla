------------------------------ MODULE MCFanOut ------------------------------
(* Instances of FanOut for TLC.                                            *)
EXTENDS FanOut

First == {1}
Second == {2}
=============================================================================
