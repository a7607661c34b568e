----------------------------- MODULE MCRunPlan -----------------------------
(* Instances of RunPlan for TLC.                                            *)
EXTENDS RunPlan
=============================================================================
