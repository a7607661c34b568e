------------------------------ MODULE Watcher ------------------------------
(***************************************************************************)
(* The live dashboard (tui/watcher.go).  A background goroutine waits for  *)
(* the start time and then, loop after loop, runs the pre-command, a       *)
(* fleet.Run or a staged fleet.RunWaves, and the post-command; it and the  *)
(* Run's workers send every step into one bounded channel, and the Bubble  *)
(* Tea loop takes them off one at a time to keep the board.  The job is    *)
(* Rollout (a plain Run is its one batch, which nobody announces), with    *)
(* the sends of OnBatch, OnStart and onResult made explicit, because a     *)
(* full channel blocks the sender, and a worker with it keeps its slot.    *)
(***************************************************************************)
EXTENDS Integers, FiniteSets, Sequences

CONSTANTS
    NTargets, Cap, StopOnError,  \* the Run
    DryRun,                      \* Options.DryRun
    MaxStage, Stages,            \* the StageOptions a job may have, and a bound of
                                 \* their sizes
    Loops,                       \* LifecycleOptions.TotalRuns()
    HasWait, HasPre, HasPost,    \* a delayed start, pre- and post-command
    EventCap                     \* capacity of the channel, 256 in the code

\* The dashboard is not started without targets (main.go:487, console.go:593).
ASSUME WatcherAssumption ==
    /\ {NTargets, Cap, Loops, EventCap} \subseteq Nat \ {0} /\ MaxStage \in Nat
    /\ {StopOnError, DryRun, HasWait, HasPre, HasPost} \subseteq BOOLEAN

AllTargets == 1..NTargets

VARIABLES
    scope, status, stopped, interrupted, over, summary,  \* the current Run
    phase, batch, all, err, total,                       \* RunWaves
    opts,       \* its StageOptions
    forever,    \* LifecycleOptions.Forever
    announced,  \* the last batch that OnBatch was called for
    sent,       \* sent[t]: the last event t's worker has sent, or "none"
    eng,        \* where the engine goroutine is
    loop,       \* its loop counter n
    events,     \* the channel
    rows,       \* the board: state of each row
    counts,     \* done, okN, failN and skipN
    note,       \* the phase line
    loopNum,    \* the loop the board says it shows, 0 when not looping
    batchNum,   \* and the batch, 0 when not staged
    waiting,    \* the start countdown is shown
    finished,   \* doneMsg has arrived
    shown,      \* the summary it brought
    quit        \* the program has been left with q, esc or ctrl+c

runVars == <<scope, status, stopped, interrupted, over, summary>>
stageVars == <<phase, batch, all, err, total, opts>>
jobVars == <<runVars, stageVars, forever, announced>>
engVars == <<eng, loop>>
boardVars == <<rows, counts, note, loopNum, batchNum, waiting, finished, shown>>
vars == <<jobVars, sent, engVars, events, boardVars, quit>>

Run == INSTANCE RunContract
Waves == INSTANCE Rollout

ASSUME StagesAssumption == Stages \subseteq Waves!Options

NoSummary == [skipped |-> 0, succeeded |-> 0, failed |-> 0]
NoCounts == [done |-> 0, ok |-> 0, fail |-> 0, skip |-> 0]
Queued == [t \in AllTargets |-> "queued"]
Looping == forever \/ Loops > 1

\* StageOptions.Active
Staged == opts.canary > 0 \/ opts.wave > 0 \/ opts.health

Msg(kind, arg) == [kind |-> kind, arg |-> arg]

-----------------------------------------------------------------------------
Init ==
    /\ Run!Init /\ ~interrupted
    /\ phase = "returned" /\ batch = 1 /\ all = <<>> /\ err = "none"
    /\ total = NoSummary
    /\ opts \in Stages /\ forever \in BOOLEAN /\ announced = 0
    /\ sent = [t \in AllTargets |-> "none"]
    /\ eng = IF HasWait THEN "wait" ELSE "top"
    /\ loop = 1
    /\ events = <<>>
    /\ rows = Queued /\ counts = NoCounts
    /\ note = "none" /\ loopNum = 0 /\ batchNum = 0 /\ waiting = FALSE
    /\ finished = FALSE /\ shown = NoSummary
    /\ quit = FALSE

\* w.events <- m: blocks while the channel is full.
Send(m) ==
    /\ Len(events) < EventCap
    /\ events' = Append(events, m)

-----------------------------------------------------------------------------
(* The engine goroutine.                                                   *)

SendAndGo(m, to) ==
    /\ Send(m)
    /\ eng' = to
    /\ UNCHANGED <<jobVars, sent, loop, boardVars, quit>>

GoOn(to) ==
    /\ eng' = to
    /\ UNCHANGED <<jobVars, sent, loop, events, boardVars, quit>>

AnnounceWait == eng = "wait" /\ SendAndGo(Msg("wait", "none"), "waiting")

\* A malformed StartAt: StartTime and WaitForStart fail at once.
BadStart == eng = "wait" /\ GoOn("finish")

\* WaitForStart: the timer, or the cancelled context.
WaitOver == eng = "waiting" /\ GoOn("top")
WaitCancelled == eng = "waiting" /\ interrupted /\ GoOn("finish")

\* Mutation: n < TotalRuns().
TopOneShort ==
    /\ eng = "top"
    /\ GoOn(IF interrupted \/ (~forever /\ loop >= Loops /\ loop > 1) THEN "finish"
            ELSE IF Looping THEN "announce"
            ELSE IF HasPre THEN "pre" ELSE "ready")

\* for n := 1; Forever || n <= TotalRuns(); n++ { if ctx.Err() != nil { break }
Top ==
    /\ eng = "top"
    /\ GoOn(IF interrupted \/ (~forever /\ loop > Loops) THEN "finish"
            ELSE IF Looping THEN "announce"
            ELSE IF HasPre THEN "pre" ELSE "ready")

AnnounceLoop ==
    /\ eng = "announce"
    /\ SendAndGo(Msg("loop", loop), IF HasPre THEN "pre" ELSE "ready")

\* RunControlCommand fails on a context that is cancelled when it starts; one
\* cancelled later kills the command, if it is not over by then.
ControlStarts(from, to) == eng = from /\ ~interrupted /\ GoOn(to)
ControlFails(starting, running) == eng = running \/ (eng = starting /\ interrupted)

AnnouncePre == eng = "pre" /\ SendAndGo(Msg("phase", "pre"), "prestart")
PreStarts == ControlStarts("prestart", "prerun")
PrePasses == eng = "prerun" /\ GoOn("ready")
PreFails ==
    /\ ControlFails("prestart", "prerun")
    /\ SendAndGo(Msg("phase", "preFailed"), "finish")

\* The counter of an endless loop is kept at its bound, Loops + 1.
NextLoop == IF loop > Loops THEN loop ELSE loop + 1

\* phaseMsg{""}, and the job of this loop begins on fresh results.
BeginRun ==
    /\ eng = "ready"
    /\ Send(Msg("phase", "none"))
    /\ eng' = "run"
    /\ status' = [t \in AllTargets |-> "pending"]
    /\ sent' = [t \in AllTargets |-> "none"]
    /\ stopped' = FALSE /\ over' = FALSE
    /\ summary' = NoSummary
    /\ phase' = "batch" /\ batch' = 1 /\ scope' = Waves!Batches[1]
    /\ all' = <<>> /\ err' = "none" /\ total' = NoSummary
    /\ announced' = 0
    /\ UNCHANGED <<opts, forever, interrupted, loop, boardVars, quit>>

\* onBatch, before each batch's Run.
AnnounceBatch ==
    /\ eng = "run" /\ phase = "batch"
    /\ Staged /\ announced < batch
    /\ Send(Msg("batch", batch))
    /\ announced' = batch
    /\ UNCHANGED <<runVars, stageVars, forever, sent, engVars, boardVars, quit>>

\* RunWaves between its batches: results, gate, pause and returns.
StageStep ==
    /\ eng = "run"
    /\ \/ Waves!Collect \/ Waves!GateStart \/ Waves!HealthPasses
       \/ Waves!HealthFails \/ Waves!PauseEnds \/ Waves!PauseInterrupted
    /\ UNCHANGED <<forever, announced, sent, engVars, events, boardVars, quit>>

\* Run or RunWaves has returned; the error of RunWaves is dropped.
EndRun ==
    /\ eng = "run" /\ phase = "returned"
    /\ \/ HasPost /\ eng' = "post" /\ loop' = loop
       \/ ~HasPost /\ eng' = "top" /\ loop' = NextLoop
    /\ UNCHANGED <<jobVars, sent, events, boardVars, quit>>

AnnouncePost == eng = "post" /\ SendAndGo(Msg("phase", "post"), "poststart")
PostStarts == ControlStarts("poststart", "postrun")
PostFails ==
    /\ ControlFails("poststart", "postrun")
    /\ SendAndGo(Msg("phase", "postFailed"), "finish")
PostPasses ==
    /\ eng = "postrun"
    /\ Send(Msg("phase", "none"))
    /\ eng' = "top" /\ loop' = NextLoop
    /\ UNCHANGED <<jobVars, sent, boardVars, quit>>

Finish == eng = "finish" /\ SendAndGo(Msg("done", total), "exited")

Engine ==
    \/ AnnounceWait \/ BadStart \/ WaitOver \/ WaitCancelled \/ Top \/ AnnounceLoop
    \/ AnnouncePre \/ PreStarts \/ PrePasses \/ PreFails \/ BeginRun
    \/ AnnounceBatch \/ StageStep \/ EndRun
    \/ AnnouncePost \/ PostStarts \/ PostFails \/ PostPasses \/ Finish

-----------------------------------------------------------------------------
(* The Run's dispatcher and workers.                                       *)

otherVars == <<stageVars, forever, announced, engVars, boardVars, quit>>

\* A batch's Run is under way.
Underway == eng = "run" /\ phase = "batch" /\ (Staged => announced = batch)

\* A worker keeps its slot until onResult has returned.
SlotTaken(t) == status[t] = "running" \/ (status[t] \in {"ok", "fail"} /\ sent[t] # "result")

StartTarget(t) ==
    /\ Underway /\ Run!Start(t)
    /\ Cardinality({u \in AllTargets : SlotTaken(u)}) < Cap
    /\ UNCHANGED <<sent, events, otherVars>>

SkipOne(t) ==
    /\ Underway /\ Run!SkipTarget(t)
    /\ UNCHANGED <<sent, events, otherVars>>

\* OnStart, which a dry run never gets to.
SendStart(t) ==
    /\ status[t] = "running" /\ sent[t] = "none" /\ ~DryRun
    /\ Send(Msg("start", t))
    /\ sent' = [sent EXCEPT ![t] = "start"]
    /\ UNCHANGED <<runVars, otherVars>>

\* The command ends; or it could not be rendered, or was only rendered.
EndTarget(t, o) ==
    /\ Underway /\ Run!Finish(t, o)
    /\ sent[t] = "start" \/ o = "fail" \/ DryRun
    /\ UNCHANGED <<sent, events, otherVars>>

SendResult(t) ==
    /\ status[t] \in {"ok", "fail"} /\ sent[t] # "result"
    /\ Send(Msg("result", <<t, status[t]>>))
    /\ sent' = [sent EXCEPT ![t] = "result"]
    /\ UNCHANGED <<runVars, otherVars>>

\* Mutation: wg.Done before onResult.
ReturnEarly ==
    /\ Underway /\ Run!Return
    /\ UNCHANGED <<sent, events, otherVars>>

\* wg.Wait covers the onResult calls.
ReturnRun ==
    /\ Underway /\ Run!Return
    /\ \A t \in AllTargets : ~SlotTaken(t)
    /\ UNCHANGED <<sent, events, otherVars>>

Workers ==
    \/ \E t \in AllTargets :
        \/ StartTarget(t) \/ SkipOne(t) \/ SendStart(t) \/ SendResult(t)
        \/ \E o \in {"ok", "fail"} : EndTarget(t, o)
    \/ ReturnRun

-----------------------------------------------------------------------------
(* The Bubble Tea loop: one listen() is outstanding until doneMsg.         *)

\* Mutation: the batch line survives into the next loop.
ResetKeepsBatch(n) ==
    /\ rows' = Queued /\ counts' = NoCounts
    /\ loopNum' = n /\ waiting' = FALSE
    /\ UNCHANGED <<note, batchNum, finished, shown>>

\* loopMsg, with resetForLoop.
ResetForLoop(n) ==
    /\ rows' = Queued /\ counts' = NoCounts
    /\ loopNum' = n /\ waiting' = FALSE /\ batchNum' = 0
    /\ UNCHANGED <<note, finished, shown>>

ApplyStart(t) ==
    /\ waiting' = FALSE
    /\ rows' = [rows EXCEPT ![t] = IF @ = "queued" THEN "running" ELSE @]
    /\ UNCHANGED <<counts, note, loopNum, batchNum, finished, shown>>

\* Mutation: a result counts only on a row that is shown running.
ApplyResultIfRunning(t, r) ==
    /\ rows' = [rows EXCEPT ![t] = IF @ = "running" THEN r ELSE @]
    /\ counts' = IF rows[t] # "running" THEN counts
                 ELSE [counts EXCEPT !.done = @ + 1,
                         !.ok = @ + (IF r = "ok" THEN 1 ELSE 0),
                         !.fail = @ + (IF r = "fail" THEN 1 ELSE 0)]
    /\ UNCHANGED <<note, loopNum, batchNum, waiting, finished, shown>>

\* applyResult, and done++.
ApplyResult(t, r) ==
    /\ rows' = [rows EXCEPT ![t] = r]
    /\ counts' = [counts EXCEPT !.done = @ + 1,
                    !.ok = @ + (IF r = "ok" THEN 1 ELSE 0),
                    !.fail = @ + (IF r = "fail" THEN 1 ELSE 0),
                    !.skip = @ + (IF r = "skip" THEN 1 ELSE 0)]
    /\ UNCHANGED <<note, loopNum, batchNum, waiting, finished, shown>>

\* waitMsg, batchMsg, phaseMsg and doneMsg.
ApplyLifecycle(m) ==
    /\ waiting' = (waiting \/ m.kind = "wait")
    /\ batchNum' = IF m.kind = "batch" THEN m.arg ELSE batchNum
    /\ note' = IF m.kind = "phase" THEN m.arg ELSE note
    /\ finished' = (finished \/ m.kind = "done")
    /\ shown' = IF m.kind = "done" THEN m.arg ELSE shown
    /\ UNCHANGED <<rows, counts, loopNum>>

Apply(m) ==
    CASE m.kind = "loop"   -> ResetForLoop(m.arg)
      [] m.kind = "start"  -> ApplyStart(m.arg)
      [] m.kind = "result" -> ApplyResult(m.arg[1], m.arg[2])
      [] OTHER             -> ApplyLifecycle(m)

\* Mutation: the handler of the loop message does not listen again.
UpdateOnce ==
    /\ ~quit /\ ~finished /\ events # <<>>
    /\ loopNum = 0
    /\ events' = Tail(events)
    /\ Apply(Head(events))
    /\ UNCHANGED <<jobVars, sent, engVars, quit>>

Update ==
    /\ ~quit /\ ~finished /\ events # <<>>
    /\ events' = Tail(events)
    /\ Apply(Head(events))
    /\ UNCHANGED <<jobVars, sent, engVars, quit>>

\* q, esc or ctrl+c: cancel the context and leave; nobody reads the channel
\* any more.
KeyQuit ==
    /\ ~quit
    /\ quit' = TRUE
    /\ interrupted' = TRUE
    /\ UNCHANGED <<scope, status, stopped, over, summary, stageVars, forever,
                   announced, sent, engVars, events, boardVars>>

\* The board stays up until it is quit; after that the process ends, whatever
\* the engine goroutine is blocked on.
Exited == quit /\ UNCHANGED vars

Next == Engine \/ Workers \/ Update \/ KeyQuit \/ Exited

Spec == Init /\ [][Next]_vars

\* Goroutines run, targets and commands end, the UI loop takes messages.
FairSpec == Spec /\ WF_vars(Engine) /\ WF_vars(Workers) /\ WF_vars(Update)

-----------------------------------------------------------------------------
InState(s) == Cardinality({t \in AllTargets : rows[t] = s})

Pending(kind) == {i \in DOMAIN events : events[i].kind = kind}

\* While the board shows the loop the engine is in, a row says only what has
\* happened to its target in that loop.
BoardIsNotStale ==
    eng = "run" /\ Pending("loop") = {} =>
        \A t \in AllTargets :
            /\ rows[t] = "running" => status[t] # "pending" /\ sent[t] # "none"
            /\ rows[t] \in {"ok", "fail"} => status[t] = rows[t]

\* The header's batch is where the board is: every earlier batch is through,
\* and no row of a later one has moved.
BatchLineTruthful ==
    Staged /\ Pending("loop") = {} =>
        \A b \in 1..Waves!NBatches : \A t \in Waves!Batches[b] :
            /\ b < batchNum => rows[t] \in {"ok", "fail"} \/ status[t] = "skip"
            /\ b > batchNum => rows[t] = "queued"

\* The footer's numbers are those of the rows, in every loop: nothing is
\* counted twice, and no result of one loop is counted in the next.
CountsMatchRows ==
    /\ counts.ok = InState("ok") /\ counts.fail = InState("fail")
    /\ counts.done = counts.ok + counts.fail + counts.skip

\* The numbers are always those of the rows, and the finished board agrees with
\* the summary that came with doneMsg, also after a rollout that its gate
\* aborted: the rows still queued are the targets the summary calls skipped.  A
\* failed pre-command ends the job on a board that is already reset for its
\* loop, a bad start time on one that never began.
BoardTruthful ==
    /\ CountsMatchRows
    /\ finished /\ note # "preFailed" =>
        /\ counts.ok = shown.succeeded
        /\ counts.fail = shown.failed
        /\ InState("running") = 0
        /\ all # <<>> => InState("queued") = shown.skipped

\* A job that finished on a board nobody quit, with no failed control command
\* to show for it, was bounded and has been through all its loops, or its start
\* time was malformed.
FinishIsEarned ==
    finished /\ note = "none" /\ ~quit =>
        \/ ~forever /\ loop > Loops /\ loopNum = (IF Looping THEN Loops ELSE 0)
        \/ HasWait /\ loopNum = 0 /\ all = <<>>

\* However full the channel gets, a board nobody quits reaches "run complete",
\* or, in an endless job, is cleared and filled again for ever.
BoardMovesOn ==
    \/ <>(finished \/ quit)
    \/ forever /\ []<>(rows = Queued) /\ []<>(rows # Queued)
=============================================================================
