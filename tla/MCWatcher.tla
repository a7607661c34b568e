----------------------------- MODULE MCWatcher -----------------------------
(* Instances of Watcher for TLC.                                           *)
EXTENDS Watcher

\* A plain run, and a canary with one wave behind a gate and a pause.
PlainOrStaged ==
    {[canary |-> 0, wave |-> 0, health |-> FALSE, pause |-> FALSE],
     [canary |-> 1, wave |-> 2, health |-> TRUE, pause |-> TRUE]}
=============================================================================
