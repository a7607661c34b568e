------------------------------ MODULE MCAgent ------------------------------
(* Instances of Agent for TLC.                                              *)
EXTENDS Agent

CONSTANTS j1, j2, a1, a2

TwoJobs == {j1, j2}
TwoAgents == {a1, a2}
TheService == a1
=============================================================================
