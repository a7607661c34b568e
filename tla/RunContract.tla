---------------------------- MODULE RunContract ----------------------------
(***************************************************************************)
(* What fleet.Run promises its callers (the comments on Options, OnResult  *)
(* and Run in fleet/engine.go), without semaphore, goroutines or counters: *)
(* targets start in inventory order, never more than Cap at once and never *)
(* after a cancellation; a failure under StopOnError is a cancellation at  *)
(* the instant the target ends; what is not started is skipped.  Callers   *)
(* that run several batches move scope from one Run to the next.           *)
(***************************************************************************)
EXTENDS Integers, FiniteSets

CONSTANTS
    AllTargets,   \* the targets of the whole inventory, by position
    Cap,          \* how many may run at once
    StopOnError

VARIABLES
    scope,        \* the targets of the current Run
    status,       \* status[t]: "pending", "running", "ok", "fail" or "skip"
    stopped,      \* this Run has cancelled itself
    interrupted,  \* the caller's context is cancelled
    over,         \* this Run has returned
    summary       \* what it returned

vars == <<scope, status, stopped, interrupted, over, summary>>

Having(s) == {t \in scope : status[t] = s}

Cut == stopped \/ interrupted

\* The first target of the scope that is neither started nor skipped.
Frontier(t) ==
    /\ t \in Having("pending")
    /\ \A u \in scope : u < t => status[u] # "pending"

Begin(s) ==
    /\ scope = s
    /\ stopped = FALSE /\ over = FALSE
    /\ summary = [skipped |-> 0, succeeded |-> 0, failed |-> 0]

Init ==
    /\ status = [t \in AllTargets |-> "pending"]
    /\ Begin(AllTargets)
    /\ interrupted \in BOOLEAN

Start(t) ==
    /\ ~over /\ Frontier(t) /\ ~Cut
    /\ Cardinality(Having("running")) < Cap
    /\ status' = [status EXCEPT ![t] = "running"]
    /\ UNCHANGED <<scope, stopped, interrupted, over, summary>>

Finish(t, o) ==
    /\ ~over /\ t \in Having("running")
    /\ status' = [status EXCEPT ![t] = o]
    /\ stopped' = (stopped \/ (o = "fail" /\ StopOnError))
    /\ UNCHANGED <<scope, interrupted, over, summary>>

SkipTarget(t) ==
    /\ ~over /\ Frontier(t) /\ Cut
    /\ status' = [status EXCEPT ![t] = "skip"]
    /\ UNCHANGED <<scope, stopped, interrupted, over, summary>>

Return ==
    /\ ~over /\ Having("pending") \cup Having("running") = {}
    /\ over' = TRUE
    /\ stopped' = TRUE
    /\ summary' = [skipped   |-> Cardinality(Having("skip")),
                   succeeded |-> Cardinality(Having("ok")),
                   failed    |-> Cardinality(Having("fail"))]
    /\ UNCHANGED <<scope, status, interrupted>>

Interrupt ==
    /\ ~interrupted
    /\ interrupted' = TRUE
    /\ UNCHANGED <<scope, status, stopped, over, summary>>

Progress ==
    \/ \E t \in scope : Start(t) \/ SkipTarget(t)
    \/ \E t \in scope, o \in {"ok", "fail"} : Finish(t, o)
    \/ Return

Next == Progress \/ Interrupt

Spec == Init /\ [][Next]_vars
=============================================================================
