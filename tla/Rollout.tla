------------------------------ MODULE Rollout ------------------------------
(***************************************************************************)
(* fleet.RunWaves (fleet/stage.go): the inventory is split into a canary   *)
(* and waves, and each batch is one fleet.Run under the caller's context,  *)
(* with a health gate and a pause before the next.  A batch's Run is       *)
(* RunContract, which FanOut implements; targets are inventory positions.  *)
(***************************************************************************)
EXTENDS Integers, FiniteSets, Sequences

CONSTANTS
    NTargets,      \* len(plan.Inventory.Targets)
    Cap,           \* the worker-pool cap of each Run
    StopOnError,   \* Options.StopOnError
    MaxStage       \* bound: the sizes of canary and waves

ASSUME StageAssumption ==
    /\ NTargets \in Nat /\ Cap \in Nat \ {0}
    /\ MaxStage \in Nat
    /\ StopOnError \in BOOLEAN

AllTargets == 1..NTargets

VARIABLES
    scope, status, stopped, interrupted, over, summary,  \* the current Run
    phase,     \* "batch", "gate", "health", "pause" or "returned"
    batch,     \* index of the current batch
    all,       \* the combined results, as <<target, status>> in order
    err,       \* "none", "health" or "ctx"
    total,     \* the summary RunWaves returns
    opts       \* StageOptions: the sizes, whether there is a HealthCmd, a Pause

runVars == <<scope, status, stopped, interrupted, over, summary>>
stageVars == <<phase, batch, all, err, total, opts>>
vars == <<runVars, stageVars>>

Run == INSTANCE RunContract

\* Canary and Wave below zero mean what zero means: none, and all at once.
Options == [canary : 0..MaxStage, wave : 0..MaxStage,
            health : BOOLEAN, pause : BOOLEAN]

\* The wave loop of splitBatches from position lo on.
WavesFrom[lo \in 1..(NTargets + 1)] ==
    IF lo > NTargets THEN <<>>
    ELSE LET hi == IF opts.wave <= 0 \/ lo + opts.wave - 1 > NTargets
                   THEN NTargets ELSE lo + opts.wave - 1
         IN  <<lo..hi>> \o WavesFrom[hi + 1]

\* Mutation: the canary is part of the remainder too.
BatchesTwice ==
    IF opts.canary > 0 /\ opts.canary < NTargets
        THEN <<1..opts.canary>> \o WavesFrom[1]
        ELSE IF opts.canary > 0 THEN <<AllTargets>> ELSE WavesFrom[1]

\* splitBatches: a canary that covers everything is the only batch, even when
\* it is empty.
Batches ==
    IF opts.canary > 0 /\ opts.canary < NTargets
        THEN <<1..opts.canary>> \o WavesFrom[opts.canary + 1]
        ELSE IF opts.canary > 0 THEN <<AllTargets>> ELSE WavesFrom[1]

NBatches == Len(Batches)

NoCounts == [skipped |-> 0, succeeded |-> 0, failed |-> 0]

\* summarize over the combined results.
Summarize(rs) ==
    LET Number(s) == Cardinality({i \in DOMAIN rs : rs[i][2] = s})
    IN  [skipped |-> Number("skip"), succeeded |-> Number("ok"),
         failed |-> Number("fail")]

\* The positions of S in order, each with f of it.  Batches are intervals.
InOrder(S, f) ==
    IF S = {} THEN <<>>
    ELSE LET lo == CHOOSE t \in S : \A u \in S : t <= u
         IN  [i \in 1..Cardinality(S) |-> <<lo + i - 1, f[lo + i - 1]>>]

-----------------------------------------------------------------------------
\* An empty inventory gives no batch and an immediate return.
Init ==
    /\ opts \in Options
    /\ status = [t \in AllTargets |-> "pending"]
    /\ scope = IF NBatches = 0 THEN {} ELSE Batches[1]
    /\ stopped = FALSE /\ over = FALSE /\ summary = NoCounts
    /\ interrupted \in BOOLEAN
    /\ phase = IF NBatches = 0 THEN "returned" ELSE "batch"
    /\ batch = 1
    /\ all = <<>>
    /\ err = "none"
    /\ total = NoCounts

\* Mutation: the summary is that of the last batch.
ReturnLastSummary(results, e) ==
    /\ phase' = "returned"
    /\ all' = results
    /\ err' = e
    /\ total' = summary
    /\ UNCHANGED opts

Return(results, e) ==
    /\ phase' = "returned"
    /\ all' = results
    /\ err' = e
    /\ total' = Summarize(results)
    /\ UNCHANGED opts

\* Run on the next batch, on a fresh context below the caller's.
NextBatch ==
    /\ phase' = "batch"
    /\ batch' = batch + 1
    /\ scope' = Batches[batch + 1]
    /\ stopped' = FALSE /\ over' = FALSE /\ summary' = NoCounts
    /\ UNCHANGED <<status, interrupted, err, total, opts>>

\* The current batch's Run moves.
BatchStep ==
    /\ phase = "batch"
    /\ Run!Progress
    /\ UNCHANGED stageVars

Collected == all \o InOrder(scope, status)

\* Past the gate: pause, or go straight on.
AfterGate(results) ==
    /\ all' = results
    /\ IF opts.pause
         THEN phase' = "pause" /\ UNCHANGED <<runVars, batch, err, total, opts>>
         ELSE NextBatch

\* Mutation: the batch's Run is not waited for.
CollectEarly ==
    /\ phase = "batch"
    /\ IF batch = NBatches
         THEN Return(Collected, "none") /\ UNCHANGED <<runVars, batch>>
         ELSE IF opts.health
         THEN /\ phase' = "gate" /\ all' = Collected
              /\ UNCHANGED <<runVars, batch, err, total, opts>>
         ELSE AfterGate(Collected)

\* The batch's Run has returned: append its results, then gate, pause, go on
\* or return.
Collect ==
    /\ phase = "batch" /\ over
    /\ IF batch = NBatches
         THEN Return(Collected, "none") /\ UNCHANGED <<runVars, batch>>
         ELSE IF opts.health
         THEN /\ phase' = "gate" /\ all' = Collected
              /\ UNCHANGED <<runVars, batch, err, total, opts>>
         ELSE AfterGate(Collected)

\* runHealth starts its command; on a context already cancelled it fails.
GateStart ==
    /\ phase = "gate" /\ ~interrupted
    /\ phase' = "health"
    /\ UNCHANGED <<runVars, batch, all, err, total, opts>>

HealthPasses == phase = "health" /\ AfterGate(all)

Untouched == UNION {Batches[b] : b \in (batch + 1)..NBatches}

\* Mutation: the untouched targets are left out of the results.
HealthFailsShort ==
    /\ phase = "health" \/ (phase = "gate" /\ interrupted)
    /\ Return(all, "health")
    /\ UNCHANGED <<runVars, batch>>

\* The gate fails, or the interrupt kills its command: the rest is skipped.
HealthFails ==
    /\ phase = "health" \/ (phase = "gate" /\ interrupted)
    /\ Return(all \o InOrder(Untouched, [t \in Untouched |-> "skip"]), "health")
    /\ UNCHANGED <<runVars, batch>>

PauseEnds ==
    /\ phase = "pause"
    /\ NextBatch
    /\ UNCHANGED all

\* ctx.Done during the pause: return at once with what there is.
PauseInterrupted ==
    /\ phase = "pause" /\ interrupted
    /\ Return(all, "ctx")
    /\ UNCHANGED <<runVars, batch>>

Interrupt ==
    /\ phase # "returned"
    /\ Run!Interrupt
    /\ UNCHANGED stageVars

Terminated == phase = "returned" /\ UNCHANGED vars

Advance ==
    \/ BatchStep \/ Collect \/ GateStart \/ HealthPasses \/ HealthFails
    \/ PauseEnds \/ PauseInterrupted

Next == Advance \/ Interrupt \/ Terminated

Spec == Init /\ [][Next]_vars

-----------------------------------------------------------------------------
\* The batches are the inventory cut into consecutive pieces: a canary of the
\* size asked for, then waves of the size asked for and a last one that may be
\* smaller.
BatchesPartition ==
    /\ UNION {Batches[b] : b \in 1..NBatches} = AllTargets
    /\ \A b, c \in 1..NBatches : b < c =>
            (\A t \in Batches[b], u \in Batches[c] : t < u)
    /\ NBatches > 1 /\ opts.canary > 0 => Cardinality(Batches[1]) = opts.canary
    /\ opts.wave > 0 => \A b \in 1..NBatches :
            \/ b = 1 /\ opts.canary > 0
            \/ b < NBatches /\ Cardinality(Batches[b]) = opts.wave
            \/ b = NBatches /\ Cardinality(Batches[b]) <= opts.wave

\* "How many targets to hit first, before anything else" (stage.go:15): a
\* target has been started only if every target of every earlier batch has
\* ended.
BatchBarrier ==
    \A b, c \in 1..NBatches :
        b < c /\ (\E u \in Batches[c] : status[u] # "pending") =>
            \A t \in Batches[b] : status[t] \in {"ok", "fail", "skip"}

\* The combined results are in inventory order, say of each target what became
\* of it, and are what the summary counts; a target they call skipped was never
\* started.  "A non-zero exit aborts the rollout and the not-yet-touched targets
\* are marked skipped" (stage.go:22): a rollout that ended well or at a gate has
\* a result for every target, and past the failed gate they are all skips.
ResultsFaithful ==
    /\ \A i \in DOMAIN all :
        /\ all[i][1] = i
        /\ all[i][2] = (IF status[i] = "pending" THEN "skip" ELSE status[i])
    /\ phase = "returned" => total = Summarize(all)
    /\ phase = "returned" /\ err # "ctx" => Len(all) = NTargets
    /\ phase = "returned" /\ err = "health" =>
            \A t \in Untouched : status[t] = "pending"

\* "cancel remaining targets on first failure" (cmd/fleet/main.go:199): the
\* failures of a rollout are bounded by the cap as those of a Run are.
StopOnErrorCarries ==
    StopOnError => Cardinality({t \in AllTargets : status[t] = "fail"}) <= Cap

\* Without a gate and without StopOnError, staging is one Run over the whole
\* inventory for whoever sees only the statuses and the final summary, unless
\* an interrupt ends a pause.  (Without targets it may return before any Run.)
Plain == INSTANCE RunContract WITH
    scope <- AllTargets,
    stopped <- phase = "returned",
    over <- phase = "returned",
    summary <- total

Staged == opts.health \/ StopOnError

PlainSpec ==
    /\ Staged \/ NTargets = 0 \/ Plain!Init
    /\ [][Staged \/ err' = "ctx" \/ Plain!Next]_<<status, interrupted, total, phase = "returned">>
=============================================================================
