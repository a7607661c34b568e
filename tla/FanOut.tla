------------------------------- MODULE FanOut -------------------------------
(***************************************************************************)
(* The fan-out engine, fleet.Run and runOne (fleet/engine.go): one         *)
(* dispatcher launches a goroutine per target, in inventory order, under a *)
(* semaphore channel of capacity Cap; each goroutine renders its command,  *)
(* runs it with retries, stores its Result in its own slot, cancels the    *)
(* run if it failed and StopOnError is set, counts and reports itself, and *)
(* leaves.  Each action is the code between two points at which another    *)
(* goroutine can see or change shared state.                               *)
(***************************************************************************)
EXTENDS Integers, FiniteSets

CONSTANTS
    NTargets,     \* len(plan.Inventory.Targets)
    Parallelism,  \* Options.Parallelism
    Retries,      \* Options.Retries
    StopOnError,  \* Options.StopOnError
    Hanging,      \* targets whose command does not end by itself
    Deaf          \* targets whose transport does not come back at the end of its
                  \* context: SSHTransport's session.Run, or a client program
                  \* whose child outlives it (module Transports)

ASSUME OptionsAssumption ==
    /\ NTargets \in Nat
    /\ Parallelism \in Int
    /\ Retries \in Int
    /\ StopOnError \in BOOLEAN
    /\ Hanging \subseteq 1..NTargets /\ Deaf \subseteq 1..NTargets

Targets == 1..NTargets

\* Values below 1 mean sequential.
Cap == IF Parallelism < 1 THEN 1 ELSE Parallelism

Attempts == Retries + 1

VARIABLES
    dpc,          \* the dispatcher's place in the loop of Run
    next,         \* the loop index i of Run
    sem,          \* len(sem): slots taken in the semaphore channel
    wg,           \* the WaitGroup counter
    pc,           \* pc[t]: the place of t's goroutine
    attempt,      \* attempt[t]: Exec calls begun for t
    outcome,      \* outcome[t]: runOne's own (execErr, outcome) so far
    results,      \* the shared results slice
    stopped,      \* cancel() has been called on the run's context
    interrupted,  \* the caller's context is cancelled
    opts,         \* Options: dryRun, and whether there is a timeout
    done,         \* the shared progress counter
    num,          \* num[t]: the counter value t hands to onResult
    summary       \* what summarize counted when Run returned

vars == <<dpc, next, sem, wg, pc, attempt, outcome, results,
          stopped, interrupted, opts, done, num, summary>>

\* Goroutine places.  "idle": not launched.  "exec": a Transport.Exec call is
\* in flight.  "done": the slot is released, wg.Done is still to run.
Before == {"render", "exec", "retry", "store"}
Holding == Before \cup {"stop", "count", "report", "release"}
Counted == {"report", "release", "done", "gone"}
Live == Holding \cup {"done"}
Places == Live \cup {"idle", "gone"}

\* runCtx.Err() # nil: the run's context is a child of the caller's.
Cancelled == stopped \/ interrupted

\* Result.OK on a slot of the slice.  An unwritten slot is the zero Result,
\* whose Err is nil and whose ExitCode is 0: OK() holds of it.
OK(r) == r \in {"zero", "ok"}

Summarize == [skipped   |-> Cardinality({t \in Targets : results[t] = "skip"}),
              succeeded |-> Cardinality({t \in Targets : OK(results[t])}),
              failed    |-> Cardinality({t \in Targets :
                                /\ results[t] # "skip"
                                /\ ~OK(results[t])})]

NoSummary == [skipped |-> 0, succeeded |-> 0, failed |-> 0]

-----------------------------------------------------------------------------
Init ==
    /\ dpc = "acquire" /\ next = 1 /\ sem = 0 /\ wg = 0
    /\ pc = [t \in Targets |-> "idle"]
    /\ attempt = [t \in Targets |-> 0]
    /\ outcome = [t \in Targets |-> "zero"]
    /\ results = [t \in Targets |-> "zero"]
    /\ stopped = FALSE
    /\ interrupted \in BOOLEAN
    /\ opts \in [dryRun : BOOLEAN, timeout : BOOLEAN]
    /\ done = 0
    /\ num = [t \in Targets |-> 0]
    /\ summary = NoSummary

-----------------------------------------------------------------------------
(* The dispatcher.                                                         *)

workerVars == <<pc, attempt, outcome, done, num>>

\* Mutation: no capacity on the channel.
AcquireUncapped ==
    /\ dpc = "acquire" /\ next <= NTargets
    /\ sem' = sem + 1
    /\ dpc' = "check"
    /\ UNCHANGED <<next, wg, workerVars, results, stopped, interrupted, opts, summary>>

\* sem <- struct{}{}: blocks while the channel is full.
Acquire ==
    /\ dpc = "acquire" /\ next <= NTargets
    /\ sem < Cap
    /\ sem' = sem + 1
    /\ dpc' = "check"
    /\ UNCHANGED <<next, wg, workerVars, results, stopped, interrupted, opts, summary>>

\* runCtx is cancelled: give the slot back and mark the target skipped.
Skip ==
    /\ dpc = "check" /\ Cancelled
    /\ sem' = sem - 1
    /\ results' = [results EXCEPT ![next] = "skip"]
    /\ next' = next + 1
    /\ dpc' = "acquire"
    /\ UNCHANGED <<wg, workerVars, stopped, interrupted, opts, summary>>

\* runCtx was live when looked at; it may be cancelled before the launch.
Proceed ==
    /\ dpc = "check" /\ ~Cancelled
    /\ dpc' = "launch"
    /\ UNCHANGED <<next, sem, wg, workerVars, results, stopped, interrupted, opts, summary>>

\* wg.Add(1) and the go statement.
Launch ==
    /\ dpc = "launch"
    /\ wg' = wg + 1
    /\ pc' = [pc EXCEPT ![next] = "render"]
    /\ next' = next + 1
    /\ dpc' = "acquire"
    /\ UNCHANGED <<sem, attempt, outcome, results, stopped, interrupted, opts,
                   done, num, summary>>

\* The loop is over: wg.Wait().
Drain ==
    /\ dpc = "acquire" /\ next > NTargets
    /\ dpc' = "wait"
    /\ UNCHANGED <<next, sem, wg, workerVars, results, stopped, interrupted, opts, summary>>

\* Mutation: no wg.Wait().
ReturnWithoutWait ==
    /\ dpc = "wait"
    /\ summary' = Summarize
    /\ stopped' = TRUE
    /\ dpc' = "returned"
    /\ UNCHANGED <<next, sem, wg, workerVars, results, interrupted, opts>>

\* wg.Wait() returns; summarize; the deferred cancel runs.
Return ==
    /\ dpc = "wait" /\ wg = 0
    /\ summary' = Summarize
    /\ stopped' = TRUE
    /\ dpc' = "returned"
    /\ UNCHANGED <<next, sem, wg, workerVars, results, interrupted, opts>>

-----------------------------------------------------------------------------
(* A target's goroutine: runOne, then the bookkeeping around it.           *)

otherVars == <<dpc, next, interrupted, opts, summary>>

\* Task.Command and the second template pass: an error is t's result.
RenderFails(t) ==
    /\ pc[t] = "render"
    /\ outcome' = [outcome EXCEPT ![t] = "fail"]
    /\ pc' = [pc EXCEPT ![t] = "store"]
    /\ UNCHANGED <<otherVars, sem, wg, attempt, results, stopped, done, num>>

\* A dry run ends here.  So does a loop of no attempts, with a zero Outcome
\* and no error, which is the outcome of a success.
RenderOnly(t) ==
    /\ pc[t] = "render"
    /\ opts.dryRun \/ Attempts < 1
    /\ outcome' = [outcome EXCEPT ![t] = "ok"]
    /\ pc' = [pc EXCEPT ![t] = "store"]
    /\ UNCHANGED <<otherVars, sem, wg, attempt, results, stopped, done, num>>

\* OnStart fires and the first Exec call begins.
Start(t) ==
    /\ pc[t] = "render"
    /\ ~opts.dryRun /\ Attempts >= 1
    /\ attempt' = [attempt EXCEPT ![t] = 1]
    /\ pc' = [pc EXCEPT ![t] = "exec"]
    /\ UNCHANGED <<otherVars, sem, wg, outcome, results, stopped, done, num>>

\* Mutation: one attempt too few.
AfterExecOneShort(t, o) ==
    /\ outcome' = [outcome EXCEPT ![t] = o]
    /\ pc' = [pc EXCEPT ![t] = IF o = "fail" /\ attempt[t] + 1 < Attempts
                               THEN "retry" ELSE "store"]
    /\ UNCHANGED <<otherVars, sem, wg, attempt, results, stopped, done, num>>

\* What follows an Exec call that came back with o: success leaves the loop,
\* failure goes round it while attempts are left.
AfterExec(t, o) ==
    /\ outcome' = [outcome EXCEPT ![t] = o]
    /\ pc' = [pc EXCEPT ![t] = IF o = "fail" /\ attempt[t] < Attempts
                               THEN "retry" ELSE "store"]
    /\ UNCHANGED <<otherVars, sem, wg, attempt, results, stopped, done, num>>

\* Exec returns of its own accord, with success or with an error or non-zero
\* exit, whether or not its context was cancelled meanwhile.
ExecReturns(t) ==
    /\ pc[t] = "exec" /\ t \notin Hanging
    /\ \E o \in {"ok", "fail"} : AfterExec(t, o)

\* Mutation: the timeout is not set on the call's context.
ExpiresOnCancelOnly(t) ==
    /\ pc[t] = "exec" /\ t \notin Deaf
    /\ Cancelled
    /\ AfterExec(t, "fail")

\* The call's context ends (its own timeout, or the run's cancellation) and
\* the transport gives up.
ExecExpires(t) ==
    /\ pc[t] = "exec" /\ t \notin Deaf
    /\ opts.timeout \/ Cancelled
    /\ AfterExec(t, "fail")

\* The next attempt, after the backoff if the run is not cancelled; a
\* cancelled run skips only the wait, not the attempt.
Retry(t) ==
    /\ pc[t] = "retry"
    /\ attempt' = [attempt EXCEPT ![t] = @ + 1]
    /\ pc' = [pc EXCEPT ![t] = "exec"]
    /\ UNCHANGED <<otherVars, sem, wg, outcome, results, stopped, done, num>>

\* Mutation: a failure is dropped on its way to the slice.
StoreSuccessOnly(t) ==
    /\ pc[t] = "store"
    /\ results' = [results EXCEPT ![t] = IF outcome[t] = "ok" THEN "ok" ELSE @]
    /\ pc' = [pc EXCEPT ![t] = "stop"]
    /\ UNCHANGED <<otherVars, sem, wg, attempt, outcome, stopped, done, num>>

\* results[idx] = r
Store(t) ==
    /\ pc[t] = "store"
    /\ results' = [results EXCEPT ![t] = outcome[t]]
    /\ pc' = [pc EXCEPT ![t] = "stop"]
    /\ UNCHANGED <<otherVars, sem, wg, attempt, outcome, stopped, done, num>>

\* Mutation: StopOnError is ignored.
StopNever(t) ==
    /\ pc[t] = "stop"
    /\ pc' = [pc EXCEPT ![t] = "count"]
    /\ UNCHANGED <<otherVars, sem, wg, attempt, outcome, results, stopped, done, num>>

\* if !r.OK() && !r.Skipped && opts.StopOnError { cancel() }
Stop(t) ==
    /\ pc[t] = "stop"
    /\ stopped' = (stopped \/ (~OK(outcome[t]) /\ StopOnError))
    /\ pc' = [pc EXCEPT ![t] = "count"]
    /\ UNCHANGED <<otherVars, sem, wg, attempt, outcome, results, done, num>>

\* done++ under doneMu.
CountDone(t) ==
    /\ pc[t] = "count"
    /\ done' = done + 1
    /\ num' = [num EXCEPT ![t] = done + 1]
    /\ pc' = [pc EXCEPT ![t] = "report"]
    /\ UNCHANGED <<otherVars, sem, wg, attempt, outcome, results, stopped>>

\* onResult(d, len(targets), r), outside doneMu.
Report(t) ==
    /\ pc[t] = "report"
    /\ pc' = [pc EXCEPT ![t] = "release"]
    /\ UNCHANGED <<otherVars, sem, wg, attempt, outcome, results, stopped, done, num>>

\* The deferred <-sem, which runs before the deferred wg.Done.
Release(t) ==
    /\ pc[t] = "release"
    /\ sem' = sem - 1
    /\ pc' = [pc EXCEPT ![t] = "done"]
    /\ UNCHANGED <<otherVars, wg, attempt, outcome, results, stopped, done, num>>

WgDone(t) ==
    /\ pc[t] = "done"
    /\ wg' = wg - 1
    /\ pc' = [pc EXCEPT ![t] = "gone"]
    /\ UNCHANGED <<otherVars, sem, attempt, outcome, results, stopped, done, num>>

-----------------------------------------------------------------------------
\* The caller cancels its context while Run is under way.
Interrupt ==
    /\ ~interrupted /\ dpc # "returned"
    /\ interrupted' = TRUE
    /\ UNCHANGED <<dpc, next, sem, wg, workerVars, results, stopped, opts, summary>>

Dispatcher == Acquire \/ Skip \/ Proceed \/ Launch \/ Drain \/ Return

Worker(t) ==
    \/ RenderFails(t) \/ RenderOnly(t) \/ Start(t)
    \/ ExecReturns(t) \/ ExecExpires(t) \/ Retry(t)
    \/ Store(t) \/ Stop(t) \/ CountDone(t) \/ Report(t)
    \/ Release(t) \/ WgDone(t)

\* Run has returned: nothing of it is left to run.
Terminated == dpc = "returned" /\ UNCHANGED vars

Next ==
    \/ Dispatcher
    \/ \E t \in Targets : Worker(t)
    \/ Interrupt
    \/ Terminated

Spec == Init /\ [][Next]_vars

\* The scheduler runs every runnable goroutine; a transport call that does not
\* hang returns.  Nobody promises an interrupt.
Fairness == WF_vars(Dispatcher) /\ \A t \in Targets : WF_vars(Worker(t))

FairSpec == Spec /\ Fairness

-----------------------------------------------------------------------------
(* What Run must keep.                                                     *)

\* Every variable has its type.
TypeOK ==
    /\ dpc \in {"acquire", "check", "launch", "wait", "returned"}
    /\ next \in 1..(NTargets + 1)
    /\ sem \in 0..Cap
    /\ wg \in 0..NTargets
    /\ pc \in [Targets -> Places]
    /\ attempt \in [Targets -> Nat]
    /\ outcome \in [Targets -> {"zero", "ok", "fail"}]
    /\ results \in [Targets -> {"zero", "ok", "fail", "skip"}]
    /\ stopped \in BOOLEAN /\ interrupted \in BOOLEAN
    /\ opts \in [dryRun : BOOLEAN, timeout : BOOLEAN]
    /\ done \in 0..NTargets
    /\ num \in [Targets -> 0..NTargets]
    /\ summary \in [skipped : 0..NTargets, succeeded : 0..NTargets,
                    failed : 0..NTargets]

Holders == {t \in Targets : pc[t] \in Holding}
Launched == {t \in Targets : pc[t] # "idle"}
Failed == {t \in Targets : results[t] = "fail"}

\* No more than Cap goroutines are between their launch and the release of
\* their slot: "this is the worker-pool cap" (engine.go:92).
PoolCap == Cardinality(Holders) <= Cap

\* When Run has returned no goroutine of it is left, and every slot of the
\* slice was written, by the target's own goroutine or by the dispatcher's
\* skip: "always returns one Result per target" (engine.go:58).
ReturnIsComplete ==
    dpc = "returned" =>
        \A t \in Targets :
            \/ pc[t] = "gone" /\ results[t] = outcome[t]
            \/ pc[t] = "idle" /\ results[t] = "skip"

\* The skipped targets are a suffix of the inventory: once one is skipped no
\* later one is launched.
SkippedSuffix ==
    \A t, u \in Targets :
        results[t] = "skip" /\ t <= u => pc[u] = "idle"

\* A target is skipped only because the caller's context ended or, with
\* StopOnError, because another target failed.
SkipHasCause ==
    (\E t \in Targets : results[t] = "skip") =>
        interrupted \/ (StopOnError /\ Failed # {})

\* "StopOnError cancels not-yet-started targets after the first failure"
\* (engine.go:24): no more targets fail than were in flight at that failure.
\* It rests on cancel() running before the slot is released and on the
\* dispatcher looking at the context after it has a slot.
StopBoundsFailures == StopOnError => Cardinality(Failed) <= Cap

\* A command that can only end by its context, which nothing ends, or to whose
\* transport the end of its context means nothing.
Stuck(t) ==
    /\ pc[t] = "exec" /\ t \in Hanging
    /\ t \in Deaf \/ ~(opts.timeout \/ Cancelled)

\* Run returns, unless a command is stuck for good: a timeout ends every
\* attempt, and a cancellation, by the caller or by StopOnError, ends the run
\* even without one.
RunReturns == <>[](dpc = "returned" \/ \E t \in Targets : Stuck(t))

-----------------------------------------------------------------------------
(* The counters against the goroutines they count, and the loop index: what *)
(* the properties above rest on.                                            *)

At(S) == {t \in Targets : pc[t] \in S}

DispatcherSlot == IF dpc \in {"check", "launch"} THEN 1 ELSE 0

Accounting ==
    /\ sem = Cardinality(At(Holding)) + DispatcherSlot
    /\ wg = Cardinality(At(Live))
    /\ done = Cardinality(At(Counted))

LoopIndex ==
    /\ dpc \in {"check", "launch"} => next <= NTargets
    /\ dpc \in {"wait", "returned"} => next = NTargets + 1
    /\ \A t \in Targets : t >= next => pc[t] = "idle" /\ results[t] = "zero"

\* A slot of the slice is written by the skip or by the goroutine's store,
\* and no goroutine is left when Run has returned.
Slice ==
    /\ \A t \in Targets :
        /\ pc[t] = "idle" /\ t < next => results[t] = "skip"
        /\ pc[t] \in Before => results[t] = "zero"
        /\ pc[t] \in Before \ {"store"} => outcome[t] \in {"zero", "fail"}
        /\ pc[t] \in Places \ (Before \cup {"idle"}) =>
                results[t] = outcome[t] /\ outcome[t] # "zero"
        /\ pc[t] = "store" => outcome[t] # "zero"
        /\ pc[t] = "idle" => outcome[t] = "zero"
    /\ dpc = "returned" => \A t \in Targets : pc[t] \in {"idle", "gone"}

\* Cancellation is for good, and no launch follows a skip.
Cancellation ==
    /\ \A t \in Targets : results[t] = "skip" =>
        /\ Cancelled /\ t < next /\ dpc # "launch"
        /\ \A u \in Targets : t <= u => pc[u] = "idle"
    /\ stopped /\ dpc # "returned" => StopOnError /\ Failed # {}

\* Until the run is cancelled every failure still holds its slot; after that
\* the failures and the slots are within the slots of that moment.
Committed == {t \in Targets : dpc = "launch" /\ t = next}

Reach == Failed \cup Holders \cup Committed

FailureReach ==
    StopOnError =>
        /\ ~stopped => \A t \in Failed : pc[t] = "stop"
        /\ Cardinality(Reach) <= Cap

\* The inductive invariant: it implies every invariant above.
IInv == TypeOK /\ Accounting /\ LoopIndex /\ Slice /\ Cancellation /\ FailureReach

-----------------------------------------------------------------------------
(* What Run promises, without slots, goroutines and counters.              *)

Status(t) ==
    CASE pc[t] \in Before \cup {"stop"} -> "running"
      [] pc[t] = "idle" /\ dpc = "launch" /\ next = t -> "running"
      [] pc[t] = "idle" /\ results[t] = "skip" -> "skip"
      [] pc[t] = "idle" /\ results[t] # "skip" /\ ~(dpc = "launch" /\ next = t)
            -> "pending"
      [] OTHER -> outcome[t]

Contract == INSTANCE RunContract WITH
    AllTargets <- Targets,
    scope <- Targets,
    status <- [t \in Targets |-> Status(t)],
    over <- dpc = "returned"

\* Run implements the contract its callers rely on, down to the summary, which
\* counts what the goroutines lived through although summarize only sees the
\* slice, in which an unwritten slot passes for a success.
ContractSpec == Contract!Spec

\* A target between its calls, and what the last one answered.
Place(t) ==
    CASE pc[t] \in {"idle", "render"} -> "before"
      [] pc[t] = "exec"  -> "exec"
      [] pc[t] = "retry" -> "between"
      [] OTHER           -> "after"

Answered(t) == IF attempt[t] = 0 \/ outcome[t] = "zero" THEN "none" ELSE outcome[t]

Exec(t) == INSTANCE ExecContract WITH
    place <- Place(t), attempt <- attempt[t], answer <- Answered(t)

\* Every target's goroutine makes the calls that a transport is made for (the
\* contract module Transports keeps from the other side): one at a time, the
\* next one only after a failure and within the attempts, and a failure is
\* reported only when they are used up, however the run was cancelled meanwhile.
ExecSpec ==
    /\ \A t \in Targets : Exec(t)!Init
    /\ [][\A t \in Targets : Exec(t)!Next \/ UNCHANGED Exec(t)!vars]_vars
=============================================================================
