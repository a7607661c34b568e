------------------------------ MODULE RunPlan ------------------------------
(***************************************************************************)
(* One invocation of a verb from the command line (cmd/fleet/main.go): its *)
(* flags, the confirmation of a destructive one, the plan built from its   *)
(* sources, the delayed start (StartTime), runPlan's loops of pre-command, *)
(* fan-out or rollout, export and post-command, the single run of gather   *)
(* and provision, down to the exit status.  An inventory is its number of  *)
(* targets; a run (RunContract, Rollout) comes back with whether a target  *)
(* failed, which is all the exit status depends on.                        *)
(***************************************************************************)
EXTENDS Integers

CONSTANTS
    Verbs,                \* a subset of AllVerbs
    MaxTargets,           \* bound: targets of one inventory
    MoreSources,          \* --inventory or --inventory-cmd may be given too
    MayEdit,              \* the list file may be edited meanwhile
    MayWatch,             \* --tui may be given
    HasStart,             \* --wait or --start-at
    Loops,                \* --loop
    HasPre, HasPost,      \* --pre and --post
    HasExport,            \* --export
    DayLen, Horizon, MaxDelay, Change   \* of module StartTime

\* "plain": run, regset, svc, install, push, task, localgroup and firewall.
\* "guarded": deldir, reboot and proc.  Two run once, without runPlan; ldapset
\* has flags of its own.
AllVerbs == {"plain", "guarded", "ldapset", "gather", "provision"}
Once == {"gather", "provision"}

ASSUME JobAssumption ==
    /\ Verbs \subseteq AllVerbs
    /\ MaxTargets \in Nat /\ Loops \in Nat \ {0}
    /\ {MoreSources, MayEdit, MayWatch, HasStart, HasPre, HasPost, HasExport}
            \subseteq BOOLEAN
    /\ DayLen \in Nat \ {0, 1}
    /\ {Horizon, MaxDelay, Change} \subseteq Nat

Absent == -1
Sizes == 0..MaxTargets

VARIABLES
    verb,
    list, other,       \* what -L would give; a source that comes before it
    yes, preview, dryRun, tui, forever,
                       \* --yes, --preview, --what-if, --tui and --loop 0
    edited,            \* the list was edited
    pc,
    targets,           \* the plan's targets after --exclude and --match
    loop, anyFailed,
    exit,              \* exit status, Absent while running
    listed,            \* history: the plan is made of the list the guard read
    runs,              \* history: runs completed (of a bounded loop)
    bad,               \* history: a target failed in some run
    ctlBad,            \* history: a pre- or post-command failed
    recorded,          \* history: the registry was saved after the run
    now, shift, hour, delay, clock, shown, armed, target
                       \* the delayed start; clock is its place

flags == <<verb, yes, preview, dryRun, tui, forever>>
sources == <<list, other, edited>>
history == <<listed, runs, bad, ctlBad, recorded>>
clockVars == <<now, shift, hour, delay, clock, shown, armed, target>>
vars == <<flags, sources, pc, targets, loop, anyFailed, exit, history, clockVars>>

Clock == INSTANCE StartTime WITH pc <- clock

\* The flags of runPlan, which ldapset fills in itself.
Staging == verb # "ldapset"
Rounds == IF verb \in Once \cup {"ldapset"} THEN 1 ELSE Loops

Init ==
    /\ verb \in Verbs
    /\ list \in {Absent} \cup Sizes /\ other \in {FALSE, MoreSources}
    /\ yes \in BOOLEAN /\ preview \in BOOLEAN /\ dryRun \in BOOLEAN
    /\ tui \in {FALSE, MayWatch} /\ forever \in BOOLEAN
    /\ verb = "ldapset" => list = Absent /\ other /\ ~yes /\ ~preview /\ ~tui /\ ~forever
    /\ edited = FALSE /\ pc = "flags" /\ targets = 0
    /\ loop = 1 /\ anyFailed = FALSE /\ exit = Absent
    /\ listed = FALSE /\ runs = 0 /\ bad = FALSE /\ ctlBad = FALSE /\ recorded = FALSE
    /\ now = 0 /\ shift = 0 /\ hour = 0 /\ delay = 0
    /\ clock = "none" /\ shown = 0 /\ armed = 0 /\ target = 0

\* os.Exit(code), or the return from main.
Exit(code) ==
    /\ pc' = "exited" /\ exit' = code
    /\ UNCHANGED <<flags, sources, targets, loop, anyFailed, clockVars>>

Fails(code) == Exit(code) /\ UNCHANGED history

Go(to) ==
    /\ pc' = to
    /\ UNCHANGED <<flags, sources, targets, loop, anyFailed, exit, history, clockVars>>

-----------------------------------------------------------------------------
(* Flags, guard and plan.                                                  *)

\* A required flag is missing, one cannot be parsed, or gather's query is not in
\* its library.
FlagsFail == pc = "flags" /\ Fails(2)
ListQueries == pc = "flags" /\ verb = "gather" /\ Fails(0)
FlagsRead == pc = "flags" /\ Go(IF verb = "guarded" THEN "guard" ELSE "build")

\* Mutation: off by one.
GuardCountLow == IF list = Absent THEN 2 ELSE list - 1

\* guardDestructive counts the list; without one, or one it cannot read, it
\* assumes many.
GuardCount == IF list = Absent THEN 2 ELSE list

Confirmed == dryRun \/ yes \/ preview

Guard ==
    /\ pc = "guard"
    /\ \/ (Confirmed \/ GuardCount <= 1) /\ Go("build")
       \/ ~Confirmed /\ GuardCount > 1 /\ Fails(2)

\* Somebody saves the list file.
EditList ==
    /\ pc \in {"flags", "guard", "build"} /\ list # Absent
    /\ MayEdit /\ ~edited /\ edited' = TRUE
    /\ list' \in Sizes
    /\ UNCHANGED <<flags, other, pc, targets, loop, anyFailed, exit, history, clockVars>>

\* No source, or one that cannot be read; a bad pattern or transport.
BuildFails == pc = "build" /\ Fails(1)

\* buildPlan: the list comes last of the sources.  --exclude and --match keep
\* some of the targets.  The sources are not looked at again.
Build ==
    /\ pc = "build" /\ (other \/ list # Absent)
    /\ targets' \in 0..(IF other THEN MaxTargets ELSE list)
    /\ listed' = (~other /\ ~edited)
    /\ list' = Absent /\ other' = FALSE /\ edited' = FALSE
    /\ pc' = "plan"
    /\ UNCHANGED <<flags, loop, anyFailed, exit, runs, bad, ctlBad, recorded, clockVars>>

\* An empty plan is previewed, but not by the verbs that run once.
Preview ==
    /\ pc = "plan" /\ preview /\ (verb \in Once => targets > 0)
    /\ Fails(0)
NoTargets ==
    /\ pc = "plan" /\ targets = 0 /\ (preview => verb \in Once)
    /\ Fails(1)

\* A malformed start time is an error, but not with --tui, which leaves the
\* lifecycle to the dashboard.
Planned == pc = "plan" /\ targets > 0 /\ ~preview
BadStart ==
    /\ Planned /\ ~tui /\ verb \notin Once /\ HasStart /\ Staging
    /\ Fails(2)
Started ==
    /\ Planned /\ ~(HasStart /\ Staging /\ verb \notin Once /\ ~tui)
    /\ Go(IF tui /\ verb # "provision" THEN "watch"
          ELSE IF verb \in Once THEN "once" ELSE "top")

-----------------------------------------------------------------------------
(* The delayed start.                                                      *)

Delayed ==
    /\ Planned /\ ~tui /\ verb \notin Once /\ HasStart /\ Staging
    /\ pc' = "start"
    /\ \E r \in Clock!Requests :
        now' = r.now /\ shift' = r.shift /\ hour' = r.hour /\ delay' = r.delay
    /\ clock' = "show"
    /\ UNCHANGED <<flags, sources, targets, loop, anyFailed, exit, history,
                   shown, armed, target>>

Waiting ==
    /\ pc = "start" /\ Clock!Next
    /\ UNCHANGED <<flags, sources, pc, targets, loop, anyFailed, exit, history>>

\* The instants are not needed any more.
ClockGone ==
    /\ now' = 0 /\ shift' = 0 /\ hour' = 0 /\ delay' = 0
    /\ clock' = "none" /\ shown' = 0 /\ armed' = 0 /\ target' = 0

\* WaitForStart returns.
WaitOver ==
    /\ pc = "start" /\ clock = "run"
    /\ pc' = "top" /\ ClockGone
    /\ UNCHANGED <<flags, sources, targets, loop, anyFailed, exit, history>>

-----------------------------------------------------------------------------
(* The runs.                                                               *)

\* RunWatcher or RunGather: the job is the dashboard's (modules Watcher and
\* GatherView), to its end or until it is quit; its results come back neither as
\* an export nor as a status.  The program may fail to start on this terminal.
Watch ==
    /\ pc = "watch"
    /\ runs' \in 0..(IF forever THEN 1 ELSE Rounds)
    /\ bad' \in {FALSE, runs' > 0} /\ ctlBad' \in {FALSE, verb \notin Once}
    /\ Exit(0) /\ UNCHANGED <<listed, recorded>>
WatchFails == pc = "watch" /\ Fails(1)

\* for n := 1; life.forever || n <= life.TotalRuns(); n++
Top ==
    /\ pc = "top"
    /\ \/ (forever \/ loop <= Rounds) /\ Go(IF HasPre /\ Staging THEN "pre" ELSE "run")
       \/ ~forever /\ loop > Rounds /\ Fails(IF anyFailed THEN 1 ELSE 0)

\* os.Exit(1) on a failed pre- or post-command.
ControlFails ==
    /\ pc \in {"pre", "post"}
    /\ Exit(1)
    /\ ctlBad' = TRUE
    /\ UNCHANGED <<listed, runs, bad, recorded>>

PrePasses == pc = "pre" /\ Go("run")

\* A fan-out or a rollout has come back.
Ran(failed, to) ==
    /\ pc' = to
    /\ runs' = IF forever THEN 1 ELSE runs + 1
    /\ bad' = (bad \/ failed)
    /\ UNCHANGED <<flags, sources, targets, loop, exit, listed, ctlBad, recorded, clockVars>>

AfterOnce == IF HasExport /\ Staging THEN "export" ELSE "after"

\* Mutation: the last run decides.
RunOnceLast(failed) == pc = "run" /\ Ran(failed, AfterOnce) /\ anyFailed' = failed

\* runOnce: only a failed target is a failure.  The error of a rollout that its
\* gate aborted is printed and does not count.
RunOnce(failed) ==
    pc = "run" /\ Ran(failed, AfterOnce) /\ anyFailed' = (anyFailed \/ failed)

\* The file is rewritten after every run; an error is only printed.
Export == pc = "export" /\ Go("after")

AfterRun == pc = "after" /\ HasPost /\ Staging /\ Go("post")

\* The end of the loop body, after the post-command if there is one.  The
\* counter of an endless loop is kept at its bound, Loops + 1.
NextLoop ==
    /\ pc = IF HasPost /\ Staging THEN "post" ELSE "after"
    /\ pc' = "top"
    /\ loop' = IF loop > Rounds THEN loop ELSE loop + 1
    /\ UNCHANGED <<flags, sources, targets, anyFailed, exit, history, clockVars>>

-----------------------------------------------------------------------------
(* gather and provision: one run, whatever --loop, --pre and --post say.   *)

\* gather prints what it got, failures too, and exits with 0.
Gather(failed) ==
    /\ pc = "once" /\ verb = "gather"
    /\ runs' = 1 /\ bad' = failed
    /\ Exit(0) /\ UNCHANGED <<listed, ctlBad, recorded>>

\* provision keeps the results for the registry.
Install(failed) ==
    /\ pc = "once" /\ verb = "provision"
    /\ Ran(failed, "load") /\ anyFailed' = failed

\* The registry cannot be read, or not be written: the boxes have the agent and
\* no entry.
RegistryFails == pc \in {"load", "save"} /\ Fails(1)
RegistryRead == pc = "load" /\ Go("save")

\* Every target whose result is OK is recorded, a rehearsed one too.
Recorded ==
    /\ pc = "save"
    /\ recorded' = TRUE
    /\ Exit(IF anyFailed THEN 1 ELSE 0)
    /\ UNCHANGED <<listed, runs, bad, ctlBad>>

-----------------------------------------------------------------------------
\* ctrl-c: nothing on this path handles the signal.
Kill ==
    /\ pc \notin {"exited", "killed"} /\ pc' = "killed" /\ ClockGone
    /\ UNCHANGED <<flags, sources, targets, loop, anyFailed, exit, history>>

Ended == pc \in {"exited", "killed"} /\ UNCHANGED vars

Steps ==
    \/ FlagsFail \/ ListQueries \/ FlagsRead
    \/ Guard \/ BuildFails \/ Build \/ Preview \/ NoTargets \/ BadStart
    \/ Started \/ Delayed \/ Waiting \/ WaitOver
    \/ Watch \/ WatchFails \/ Top
    \/ ControlFails \/ PrePasses
    \/ \E failed \in BOOLEAN : RunOnce(failed) \/ Gather(failed) \/ Install(failed)
    \/ Export \/ AfterRun \/ NextLoop
    \/ RegistryFails \/ RegistryRead \/ Recorded

Next == Steps \/ EditList \/ Kill \/ Ended

Spec == Init /\ [][Next]_vars

-----------------------------------------------------------------------------
\* Exit status 0 of a verb that reports what it did (not gather, and not a
\* dashboard, which provision never starts) means that its loop was bounded and
\* run to the end, that no target failed in any run and no control command did,
\* and that provision's registry was written.
ExitZeroMeansClean ==
    exit = 0 /\ ~preview /\ verb # "gather" /\ (tui => verb = "provision") =>
        /\ forever => verb = "provision"
        /\ runs = Rounds /\ ~bad /\ ~ctlBad
        /\ verb = "provision" => recorded

\* "destructive verbs refuse >1 target without --yes" (README.md:109).
UnconfirmedHitsOne ==
    verb = "guarded" /\ pc \in {"run", "watch"} /\ ~yes /\ ~dryRun => targets <= 1

\* It holds where -L is the only source and the list is not edited between the
\* guard's reading of it and the plan's.
ListIsConfirmed == listed => UnconfirmedHitsOne

\* The job of --wait and --start-at starts when it should, and when it said it
\* would; how far off it may be where the clocks are changed is part of both
\* conjuncts (module StartTime).
StartIsRight == Clock!StartsAtHour /\ Clock!WaitIsBounded
=============================================================================
