# Formal models of winadmin

TLA+ specifications of the concurrent and stateful parts of winadmin's `fleet` tool: the
fan-out engine and everything that is built around it. TLC checks them on small instances,
TLAPS proves the central properties for all instances. Line numbers are those of the
repository's sources.

## 1. The system

`fleet` runs one task against a list of machines. A verb (`cmd/fleet/main.go`) renders into a
command, an inventory says which machines, a transport carries the command, and the engine
fans it out over a bounded pool of goroutines. Around the engine stand staged rollouts, a
lifecycle (delayed start, loops, pre- and post-commands), two live terminal views, a registry
file that a team may share, and a pull agent that runs on the machines themselves.

| part | state | operations | it must |
|---|---|---|---|
| fan-out engine `fleet/engine.go` | semaphore channel, WaitGroup, results slice, run context, progress counter | `Run`, `runOne` | respect the pool cap; return one truthful result per target; stop what a failure or an interrupt should stop; come back |
| results `fleet/result.go` | - | `Result.OK`, `summarize` | count what happened although an unwritten slot looks like a success |
| staged rollout `fleet/stage.go` | batch index, combined results | `splitBatches`, `RunWaves`, `runHealth` | cut the inventory exactly; start no batch before the one ahead is over and healthy; report every target |
| lifecycle `fleet/lifecycle.go` | a timer | `StartTime`, `WaitForStart`, `nextClockTime`, `RunControlCommand` | start at the time asked for |
| command line `cmd/fleet/main.go` | flags, plan, loop counter, exit status | `guardDestructive`, `buildPlan`, `execute`, `runPlan`, `runOnce`, one function per verb | ask before a destructive verb hits many; exit with the truth |
| watcher `tui/watcher.go` | rows, counters, phase line, a channel of 256 events | `runEngine`, `Update`, `applyResult`, `resetForLoop` | show the loop that is running, count as the summary counts, never hang |
| registry `fleet/registry.go` | a JSON file | `LoadRegistry`, `Upsert`, `Save`, `Find`, `Remove`, `Inventory` | list what was provisioned and keep what is known of it |
| status board `tui/statusboard_model.go` | rows, polling flag, timers | `poll`, `tick`, keys, its save of the registry | poll on, whatever keys and ticks do |
| agent `fleet/agent.go`, service and one-shots, `provisionScript` in `cmd/fleet/main.go` | a version file; the service's entry at the control manager | `FetchJob`, `AgentPoll`, `ReadState`, `WriteState`; `Execute`; the script that installs | run a job when it has changed and not otherwise; stop when asked; be installed when provisioning says so |
| inventory `fleet/inventory.go`, `plugins.go` | - | `LoadInventory`, `InventoryFromCommand`, `BuildInventory`, `Match`, `Exclude`, `Shuffle` | name each target once |
| gather view `tui/gather.go`, `gather_table.go` | table, sort, group, folds, filter, lines, cursor, scroll offset | `Update`, `rebuild`, `toggleGroup`, `buildTable`, `sortRows`, `groupRows`, `filterRows` | lose no row; keep the cursor on a line in the window |
| console `tui/console.go`, `taskpicker.go`, `config/settings.go` | form, focus, four overlays, query library, settings file | `Update`, `moveFocus`, `applyQuery`, `preview`, `launch`, `saveSettings` | send keys to what is drawn; run on the targets that were shown |
| tasks, verbs `fleet/task.go`, `verbs.go` | - | templates | render or fail |
| transports `fleet/transport*.go` | a client program or a connection, and the command on the box | `Exec` | report what the command did; start nothing under a dead context; end when the context ends |
| export, secrets, Windows primitives, dialogs, examples | - | - | - |

They interact as follows. `execute` builds a plan from inventory, task and transport, and
hands it to `runPlan`, which calls `Run` or `RunWaves` (which calls `Run` batch by batch), or
hands everything to the watcher, which calls the same functions from a goroutine of its own
and learns of their progress through callbacks that send into a channel. `provision` calls
`Run` and then changes the registry file; the status board calls `Run` from its polls and
saves the registry after each; several such processes may share the file. Agents share
nothing with the rest but the source of jobs and, on one machine, the version file.

What is hard: the engine's goroutines race with the cancellation they cause; callbacks block
on a bounded channel while they hold a slot of the pool; results of one loop may be handled
in the next; several processes read, change and write files that nothing locks, and die in
between; timers, ticks and key presses overlap; the clock is read twice; what is checked
before a run (how many targets, which source, what a preview lists) is looked up again
afterwards; an `Exec` that is over may leave its command running, beside which a retry starts it
again; cursors and focus are indices into lists that other operations rebuild. `PROJECT.json`
lists these hazards at their lines with the properties that would notice them going wrong.

## 2. Modules

    RunContract            what fleet.Run promises its callers
      ^ refined by FanOut            engine.go, step by step
      |   ^ proved in FanOutProofs
      | instanced by Rollout         stage.go, a batch at a time; proved in RolloutProofs
      | ^ instanced by Watcher       watcher.go: Rollout's steps, with every send of an
      |                              event made explicit; proved in WatcherProofs
    ExecContract           what runOne asks of a transport for one target
      ^ refined by FanOut            each target's goroutine; proved in FanOutProofs
      ^ refined by Transports        transport*.go: what each transport makes of a call;
                                     proved in TransportsProofs
    RunPlan                one command from the prompt to the exit status
      | instances StartTime          lifecycle.go: when a delayed job starts
      ^ proved in RunPlanProofs      the arithmetic of StartTime included
    FleetRegistry          the registry file and the processes that share it
      ^ proved in StatusProofs
    StatusBoard            polls, timers, keys and the flag
      ^ proved in StatusProofs
    Agent                  the pull agents of one machine, their version file, the service and
                           its installation
      ^ proved in AgentProofs
    Subsequences           the loops that keep some elements of a slice
      ^ extended by GatherView, Inventory
    GatherView             the table over a gather run, its cursor and scrolling
      ^ extended by Console          the run builder, its overlays, the settings file;
                                     proved in ConsoleProofs, with GatherView and Inventory
    Inventory              reading a target list and the filters on it
      ^ extended by Console

`MC<Module>` gives TLC its model values and small sets. Operators whose comment begins with
"Mutation:" are slips one could make in the definition that follows them; no specification
uses them, and each is there because some property tells it from the code.

**FanOut** has one action per stretch of code between two points where another goroutine can
see or change something. `dpc` and `next` are the place of the dispatcher in the loop of
`Run`, `sem` is `len(sem)`, `wg` the WaitGroup, `pc[t]` the place of a target's goroutine,
`results` the slice it writes into. `Acquire`, `Skip`, `Proceed`, `Launch`, `Drain` and
`Return` are the dispatcher (engine.go:91-135); the look at the context and the launch are
two steps, because a failure may cancel in between. `RenderFails`, `RenderOnly`, `Start`,
`ExecReturns`, `ExecExpires` and `Retry` are `runOne` (138-215); `Store`, `Stop`, `CountDone`,
`Report`, `Release` and `WgDone` the bookkeeping around it (103-121) in the order in which
the code and its deferred calls have it. A slot that was never written is `"zero"`, of which
`OK` is true as it is of a zero `Result` (result.go:19). A command is an outcome; commands in
`Hanging` never end by themselves; transports in `Deaf` do not look at their context while
the command runs, as `session.Run` in transport_ssh.go:162 does not.

**RunContract** is the engine as its callers see it: a target is pending, running, ok, fail
or skip; targets start in inventory order, at most `Cap` at a time, never after a
cancellation, and with `StopOnError` a failure cancels at the instant the target ends. The
refinement mapping in FanOut (`Status`) puts the start of a target at the look at the context
rather than at the launch, and its end after `Stop`, when the cancellation is in force.

**Rollout** cuts the inventory with `splitBatches` (`Batches`), then lets RunContract run each
batch on a fresh context. `Collect`, the gate, the pause and `Return` are the rest of
`RunWaves`. The stage options (sizes, gate, pause) are chosen in the initial state (`opts`).

**Watcher** joins the engine goroutine (`runEngine`, watcher.go:139-204), Rollout's batches with
RunContract's workers and their `OnBatch`, `OnStart` and `onResult` sends, the channel, and the
Bubble Tea loop that takes one message at a time (`Update`). A plain `Run` is a rollout of one
batch that nobody announces. Whoever sends into a full channel blocks, and a worker that blocks
keeps its slot. `forever` is an endless job, whose loop counter is left where it is.

**Transports** puts one `Exec` call at a time, in the retry loop of `runOne`, over the command
it is for. `call` is the place in `Exec`: `prepare` (credentials, known hosts, keys), `dial` and
`handshake` for ssh, `start`, `wait`, and `drain` for a client program that was killed while
something still holds its pipes. `work[a]` is what the command of attempt `a` does on the box;
it goes on (`WorkEnds`) whether or not a call still waits for it. `hangs` says what does not
answer, `ctx` how the call's context stands, `why` what ended each call. local, psexec and wmi
are client programs (`LocalTransport.Exec`), ssh and winrm connections; what the libraries and
programs do beyond the code is marked external.

**RunPlan** is one verb: its flags, `guardDestructive`, `buildPlan`, the delayed start,
`runPlan` with its loops, or the single run of `gather` and `provision`, down to `os.Exit`.
Verbs that take the same path are one value of `verb` (`AllVerbs`). An inventory is its number
of targets, a run comes back with whether a target failed. `EditList` is somebody saving the
list file between the guard and the plan.

**StartTime** takes an instant for an integer of hours and a day for `DayLen` of them.
`Date` is `time.Date` for a location whose clocks are changed once by `shift` hours, with the
choice the package leaves open for hours that are skipped or shown twice. RunPlan instances it
between the plan and the first loop (`Delayed`, `Waiting`, `WaitOver`). `StartIsRight` keeps the
comment's "next instant matching it" as a formula, the hour shown at the start and not before,
with two exceptions written into it: an hour that begins at this very instant is not taken (the
comment says "on or after now"), and within a day after a change of the clocks the start is off
by the change.

**FleetRegistry** splits a save into `Open` (O_TRUNC) and `Write`, because a kill, or another
process, may come in between; a file that two processes have open at once may be left with
the end of the longer content. Either half of a save may fail: `OpenFails` leaves the file as it
was, `WriteFails` leaves nothing, a part or (when it is the close that fails) all of the content.
Provisioning then exits with status 1 and nothing recorded; both board loops drop the error
(statusboard_model.go:104, main.go:1143) and poll on (`SaveOver`). `cut` remembers that a save
has failed or was killed in its second half until another is completed, `clash` that two
processes have held the registry at once. `FanOut` is a provisioning run, `Stamp` the status
board's upsert after a poll.

**StatusBoard** numbers the polls. `Sample` is the moment at which a poll sees a machine,
`PollDone` the handling of its message. `Init` starts a poll without the flag, as the code does.

**Agent** has a source that changes and goes away, agents that read the version, fetch, run
and write, and a crash or a hang at any of those steps. `WriteState` is `Truncate` and `Write`;
`held` is what the variables of one poll hold. One agent is the Windows service: `StopService`
is the select of `Execute`, which only looks at requests (`asked`) between polls. The control
manager is external: an entry that is deleted while its process runs is `marked`, and gone with
the process (`Gone`). `Provision` has one action per command of the script that changes
something; the deadline of its wait may pass at any time, which is why `Downloads` has no
guard, and a process that has outlived it holds `fleet.exe`. The script may be run again and
again, by `fleet provision` from anywhere, while everything else goes on.

**GatherView** takes a cell for a value of which the code reads three things: a number
(`parseNum`, with "nan" as a number of its own), the rank of its lowercase text, and the
queries it contains. `Load` builds the table from the results (`buildTable`), `Reline` is the
half of `rebuild` that makes the lines, with the sort that is in place when there is no query,
`Rebuild` adds the cursor and the scrolling. There is one action per key; `Quit` returns to
the blank view that the next one starts from. `built` is a history of the rows as built.
`Order` is `sort.SliceStable` as the positions end up, by insertion: what it does to slices of up
to 20 elements, and on longer ones the same order unless a "nan" makes `cellLess` inconsistent.
`Keep` and `Firsts` of **Subsequences** are the loops over a slice that append what passes a test,
or what has not been seen.

**Console** is one record `c`: the form (a function on the field keys), the focus, the
overlays that are up, and what these hold. `Receiver` is the order in which `Update` asks the
overlays, `Drawn` the one in which `View` does. `Fields` gives each field its kind and the
tasks that show it. `HandOff` is `launch`: a gather goes on as a GatherView in the same
behaviour, everything else as the dashboard, of which only the end is left here (Watcher has
the rest). `EditLists` is somebody saving a list, or the directory changing, while the
builder is up; `SaveFails` is a save that was cut after the truncation. **Inventory** has
`LoadInventory`, `Match` and `Shuffle` as operators on sequences of lines.

## 3. What is checked

| run | instance | properties |
|---|---|---|
| `fanout_run` | 4 targets, 2 slots, 1 retry, StopOnError, one command that hangs, one deaf transport, with and without timeout, dry run or not, interrupt at any moment | `PoolCap`, `ReturnIsComplete`, `StopBoundsFailures`, `ContractSpec`, `ExecSpec`, `RunReturns` |
| `transports_retries` | each of the five transports, 3 attempts, commands or boxes that hang, broken links, timeouts and a cancellation at any moment | `AnswersAreTruthful`, `RepeatsAreExcused`, `CancelStartsNothing`, `ExecSpec`, `CallsEnd` |
| `rollout_gates` | 5 targets, canary and waves of every size up to 5, with and without gate and pause | `BatchesPartition`, `BatchBarrier`, `ResultsFaithful`, `PlainSpec` |
| `watcher_loops` | 3 targets, 2 slots, 2 loops or endless, plain or a canary and a wave behind a gate and a pause, wait, pre and post, a channel of 3 | `BoardIsNotStale`, `BatchLineTruthful`, `BoardTruthful`, `FinishIsEarned`, `BoardMovesOn` |
| `registry_shared` | 2 machines, 2 provisioners, 1 board, kills, saves that fail before or after the truncation | `OnlyInstalledListed`, `ProvisionTimeKept`, `TurnsLoseNothing`, `BoardHealsFile` |
| `statusboard_keys` | 5 polls, 3 presses of r | `BoardIsDriven`, `OverlapBounded`, `KeepsPolling` |
| `agent_service` | a service and one-shots, 2 jobs, 2 changes of the source, 2 faults (crash, hang, reboot, failed write), any number of starts, stops and installations | `RerunsAreExcused`, `RecordConverges`, `StopIsObeyed`, `ProvisionedIsInstalled` |
| `runplan_loops` | every verb, up to 2 targets, every choice of sources, 2 loops or endless, 1 edit, dashboard; days of 5 hours, every start within two days, delays up to 2, every change of clocks | `ExitZeroMeansClean`, `ListIsConfirmed`, `StartIsRight` |
| `console_session` | a form of 14 fields and 3 tasks, 2 states of the lists, 1 changed field besides task and query, settings of 3 fields; tables of up to 3 rows and 5 columns, 1 fold, windows of 3 and 20 lines | `CursorInView`, `LinesFaithful`, `KeysGoWhereShown`, `PreviewIsHit`, `ToggleAnchors`, `CommandIsKept` |

All of these hold. Three runs state what the documentation says and end in a counterexample:

| run | what is said | what the code does |
|---|---|---|
| `rollout_stop` | `--stop-on-error`: "cancel remaining targets on first failure" (main.go:199) | each batch has a context of its own: the next batches run all the same |
| `registry_lost_update` | "put it on a network share and the whole team's `fleet status` sees the same fleet" (README.md:154) | of two runs of `fleet provision` that have both loaded the file (main.go:1024), the one that saves last drops what the other recorded |
| `runplan_sources` | "destructive verbs refuse >1 target without `--yes`" (README.md:109) | the guard counts `-L`, here a list of no target, the plan prefers `--inventory` and `--inventory-cmd` |

**Why the bounds are enough.** In the engine a race needs a target that fails, one in flight
beside it and one not yet started; four targets on two slots have all of these and one more
on either side. A retry shows with one, a barrier with three batches; five targets have a canary, waves
of two and a short last wave. A second attempt
beside a first shows with two, and the third has two before it. The channel of the watcher is smaller than
the events of one loop, so that senders block; loops can only be mixed up pairwise. A lost
update takes two processes; the run shows it with two provisioners, the shortest way, and a
board's save of its old copy (statusboard_model.go:104) does the same later. Two provisioners and a board can tear the file in every way the
model has. The status board's first poll, a poll from r and one from a timer are three; five
let each meet the others again. A clock of five hours has an hour that is past, present and
ahead; nothing depends on 24. Constants that bound a model and not the program are marked
"bound:" where they are declared (`MaxKeys`, `MaxPolls`, `MaxChanges`, `MaxFaults`, `MaxEdits`, `MaxTargets`,
`MaxStage`, `Horizon`, `MaxDelay`, `MaxEdited`, `MaxFolds`). The form of the run builder has a
field of every kind that the code treats differently and every rule that hides one; its
fields only meet through the task, the transport and the query, so one changed field besides
these (`MaxEdited`) is enough. Three rows of two machines under three headers are more lines
than the smaller window has. Two faults let a service that hangs be killed while its entry
is marked for deletion.

**Fairness.** Go schedules every goroutine that can run, so the dispatcher and each worker are
weakly fair in FanOut, and the engine goroutine, the workers and the UI loop in Watcher. An
`Exec` that does not hang returns; in Transports the steps of `Exec`, of the libraries and of
commands that do not hang are fair, while nobody promises that a context ends or that a broken
link is noticed. Nothing is assumed of a command in `Hanging`, of the user
(interrupts, keys, quitting), of crashes, or of the source of jobs: none of these ever has to
happen. One-shots are started for ever, and a service polls while it runs; that its
select cannot pass over a stop for ever when the ticker is ready too (`SF`) is because Go
chooses at random among the cases that are ready. Nobody has to start, stop or install the
service. A status board's timers fire.
In FleetRegistry only processes that are running have to go on. That a board makes an unreadable
file good needs more than the code can give: of the saves that it tries after its polls, some
must open the file and some must be completed (`SF` of `Open` and `Write`). A board whose saves
fail for ever never heals the file, and says nothing. The views (GatherView,
Console) have no fairness: nobody has to press a key.

## 4. What is proved

`FanOutProofs`, for every number of targets, parallelism (values below one included), number
of retries, set of hanging commands and of deaf transports:

- `TypeCorrect`: `Spec => []TypeOK`, the bounds of the counters included.
- `PoolIsCapped`: `Spec => []PoolCap`.
- `RunReturnsComplete`: `Spec => []ReturnIsComplete`.
- `SkipsAreASuffix`, `SkipsHaveACause`: no target is launched after one that was skipped; a
  skip has an interrupt or, with StopOnError, a failure behind it.
- `FailuresAreBounded`: with StopOnError no more targets fail than the pool has slots.
- `CallsKeepContract`: `Spec => ExecSpec`, every goroutine makes its calls as `ExecContract`
  says.
- `RunKeepsContract`: `Spec => ContractSpec`, a Run is what `RunContract` promises to Rollout
  and Watcher.

None of the first six is inductive. The argument goes up one conjunct of `FanOut!IInv` at a time.
`Accounting` says that `sem`, `wg` and `done` are the numbers of goroutines at the places
between the statement that raises them and the one that lowers them, plus the dispatcher's
own slot; every worker step moves one target along one edge (`WorkerMoves`), and
`Population` says what such a move does to the number of targets in a set of places, so
that the counters follow. With `LoopIndex` (beyond the loop index nothing is launched or
written) this gives the types and the cap. `Slice` ties the results slice to the goroutines'
places: that Run does not return early follows from `wg = 0`, which by `Accounting` means
that nobody is left. `Cancellation` says that a cancellation is for good and nothing is launched
after a skip. `FailureReach` bounds failures: as long as the run is not cancelled every
failed target still holds its slot, since `cancel` comes before the release; afterwards
failures, slot holders and the target already committed to launch form a set that can only
shrink. It has at most `Cap` members at the moment of the first failure, by `Accounting`.

`CallsKeepContract` is a refinement of one contract per target. `Calls` ties the attempts and
the outcome of a goroutine to its place; with it each of its steps is a `Begin`, an `Answer`, a
`Spare` or none (`OwnStep`), and everybody else's step is none (`OtherStep`), for which
`LoopIndex` is needed: the dispatcher launches only what has not been launched.

`RunKeepsContract` has one lemma per action. `StatusTable` says what the refinement mapping makes
of each place; then `Proceed` is the contract's `Start` (the capacity is `Accounting`'s: running
targets hold slots), `Skip` its `SkipTarget`, `Stop` its `Finish`, `Return` its `Return` (nobody
is left, by `Slice` and `wg = 0`), and every other action changes nothing the contract sees.

`RolloutProofs`, for any inventory, cap, sizes of canary and waves, gate and pause:
`StagesPartition` (`[]BatchesPartition`), `BatchesDoNotOverlap` (`[]BatchBarrier`),
`CombinedResultsAreTrue` (`[]ResultsFaithful`) and `PlainStagingIsOneRun` (`Spec => PlainSpec`).
The wave loop is a recursive function that goes upwards, for which the library has no theorem:
`WavesUnfold` shows that it satisfies its equation at every position by looking at the last one
where it would not (`Least`, `Unfolded`), and `AllWaves` the same way that its value is the
inventory cut at some positions (`Cut`). With the batches as intervals between cuts, `IInv` is
inductive: every target before the current batch has ended and none after it has started
(`Barrier`), and the combined results are those of a prefix of the inventory (`Combined`). For
the refinement only the last batch's `Collect` is a visible return; the earlier ones stutter.

`TransportsProofs`, for any transports and number of attempts: `ReportsAreTruthful`,
`RetriesRepeatNothing`, `CancelledStartsNothing`, and `CallsAreAnswered` (`Spec => ExecSpec`).
What ended the last call (`why`) ties its answer to the command's fate (`Reported`); a failed
attempt whose command is alive or done was given up for its context or its link (`Excuses`);
an attempt begun under a dead context is still at a place before its transport looks at it
(`LateIsIdle`). Together with `CallsKeepContract` both sides of `Transport.Exec` are proved
against the same contract.

`RunPlanProofs`, for any number of targets, hosts and loops, all flags and verbs, and days of any
length: `ExitZeroIsEarned`, `ListNeedsConfirmation` and `DelayedStartIsRight`. `Progress` counts
the runs at every place of the loop and knows that none has failed where it goes on; `Counted`
that the plan of an unedited list has the targets the guard counted. The start is arithmetic:
the hour asked for is at most a day away by the wall clock (`TodaysHour`, `NextHourIsNear`); at
the start the clock shows it or is off by the change (`NextHourIsShown`); where no change is near
the clock runs evenly from the command to the start, so that an earlier showing would be the same
hour less than a day apart (`HoursDiffer`, `NextHourIsFirst`); and both readings of the clock give
an instant of that kind (`Timed`).

`WatcherProofs`, for any number of targets, slots and loops, any stage options and a channel of
any size: `RowsAreOfThisLoop` (`[]BoardIsNotStale`) and `EndIsEarned` (`[]FinishIsEarned`). The
first part of the module is about the channel alone: what is known of the messages of one kind
does not change when others are sent or taken (`SendOther`, `TakeAny`), and `Current` are the
messages behind the last loop message. `Board` says that these, and the rows once no loop
message is under way, are of this loop: a Run does not return before its workers have told of
their targets (`Slots`), so that nobody can send into the next loop, and between a loop message
and the next Run nothing is told and the rows are all queued (`Fresh0`). `Course` follows the loop
number: what the header shows, or will show once its message is taken (`ShowsLoop`), is the loop
the engine goroutine is in, or the one before where it has not announced yet (`Due`), and the
done message is the last of all (`DoneLast`).

The other two theorems of the module are about batches: `BatchShownIsBatchReached`
(`[]BatchLineTruthful`) and `BoardAgreesWithSummary` (`[]BoardTruthful`). `Job` says that the job of
each loop keeps the invariant of RolloutProofs, which is instantiated (`Stage`) and its lemmas on
steps cited. The board and the messages under way are then one line of places, of which place 0 is
the board: to send adds a place at the end, and to take a message shifts the others by one, so
that a fact about neighbours or about what was told up to a place (`Told`) is proved once for both
(`SendTold`, `TakeTold`). `Header` is what the line says of batches: within a loop their numbers
ascend, what is told of a target comes after its batch was announced, and where a later batch is
announced everything of the earlier ones has been told (`Delivered`), because Run returns only after
its workers have told of theirs and the next batch waits for it. `Footer` says that between two
results of one target there is a loop message, so that a row counts once (`Once`), and that what
the channel still carries and the rows already show is together what the summary has combined
(`Carried`).

`StatusProofs`, for any machines and any number of provisioners and boards:
`ProvisionTimesSurvive`, and, outside dry runs (`ASSUME ~DryRun`), `ListedIsInstalled`. The
invariant carries both over every copy of the registry: the file, each process's memory, and
what a provisioner holds of its run. The lemma on `Upsert` says that an entry without a
provision time is only brought where there is an old one. `TurnsKeepMachines`
(`[]TurnsLoseNothing`): as long as no two processes have held the registry at once (`clash`), at
most one holds it (`OneHolder`), its copy has every machine ever recorded (`HoldersComplete`), and
so has the file unless the holder is in the middle of its save or one was cut (`FileComplete`).
Saves that fail and kills are among the steps, not among the excuses for a lost machine: after a
save that was cut nobody else can load the file, and the board that lives on still has
everything, so that its next save that is completed restores it (`SaveStep`).

Its second part, for any number of polls and presses of r: `BoardTypeCorrect`,
`BoardNeverRunsDry`, `FlagIsCleared` and `OverlapIsBounded`. The last three are inductive
only together: that a tick may be dropped rests on the flag having a poll, and that a poll is
the only one without the flag on the bound of the overlap.

`AgentProofs`, for any agents of which one is a service, any jobs and any number of faults and
changes: `RerunsNeedAnExcuse` (`Spec => RerunsAreExcused`) and `ProvisioningInstalls`
(`Spec => []ProvisionedIsInstalled`). The first rests on two facts about a machine without an
excuse: at most one poll is under way (`Alone`), and the version on record is that of the job
begun last, except while that job's own poll runs and writes it (`OnRecord`). `Alone` is needed
because another poll could truncate the file in between. The second follows the entry through
the script (`InstallInv`): once absent behind a download it can only be created. Both invariants
were also checked with TLC.

`ConsoleProofs`, for any table of fields, verbs, options, queries and lists: `KeysAreSeen`
(`[]KeysGoWhereShown`), `PreviewNamesTargets` (`[]PreviewIsHit`) and `OwnCommandIsKept`
(`Spec => CommandIsKept`). The invariant, `Sound`, says that one screen at most is over the form, that
the focus is on a field of the task, and that a screen that will write to the form was opened from
the field that it writes to: the picker from the task, the browser from a text field. An overlay
that could be opened over another would make `Receiver` and `Drawn` differ, and a task picked from
elsewhere would leave the focus on a field that is gone. Which fields a helper writes is one lemma
each (`SameBut`); every key is then one lemma on top of them. `Previewed` ties the names on the
preview to what the list resolves to now.

The same module proves the three properties of the gather view, for any cells, queries, columns,
outputs, lists and window heights: `CursorStaysInView` (`[]CursorInView`), `LinesShowTheRun`
(`[]LinesFaithful`) and `FoldsStayPut` (`Spec => ToggleAnchors`). It begins with what the helpers
compute. FlattenSeq and the sort are recursive functions that go upwards, and again the library has
no theorem for them: that such a function exists is shown at the least position where it would not
(`JoiningExists`, `SortingExists`), and what it yields one element at a time in the same way
(`Joins`, `Ordered`). So FlattenSeq has every element of its parts at one place, `Keep` the
elements at its positions, once and in order (`KeepPicks`), and `SortBy` puts things in an order in
which none goes before its neighbour (`SortByIs`); away from "nan", `cellLess` is transitive, so
that rows sorted by neighbours are sorted (`SortedThroughout`). `Laid` says at which lines the
groups lie: a header per key, then its rows unless it is folded. From it follow the lines' rows
(`RowsOnceInGroups`), the header of a row (`RowsUnderTheirHeader`), the counts (`HeadersCount`),
and that the headers do not depend on what is folded (`HeadersAreKeys`).

`CursorInView` is inductive with types alone. `LinesFaithful` is not: the lines of the moment may
be faithful for the wrong reason, and a fold reads the header's key from them. `GatherInv` therefore
says that the lines are what the present table, order, groups, folds and filter give (`Current`),
and that the rows are an order of those built, without repetition: `rebuild` sorts the table
itself when there is no query and a copy otherwise, and both leave an order of an order
(`ReordersTwice`). That nothing is built twice rests on the run behind the results. `RunReady` says
that a run names each machine once, case aside (`LoadedOnce`, `MatchedOnce`, `ShuffledOnce`), and
holds of every run that `launch` or `fleet gather` hands over: `MachinesAreHitOnce`, a theorem of
its own. A result names its target, so that rows of two results differ, and those of one by their
number. The toggle of the dry run is a choice in `Sound` because results depend on it.

The assumptions are those on the constants (`OptionsAssumption`, `BoundsAssumption`,
`RegistryAssumption`, `AgentAssumption`, `TransportAssumption`, `StageAssumption`,
`JobAssumption`, `WatcherAssumption`, `StagesAssumption`, `FormAssumption`,
`QueriesAssumption`, `CellAssumption`, `OutputAssumption`, `LineAssumption`, `ListsAssumption`),
which TLC evaluates in the runs. Those of the view say what the code's types and loops give: a cell
is a string, records are maps from columns, a result carries the target it was asked for, a list
file is a sequence of lines, and every line that counts may be a target.

Only model-checked: everything about liveness (`RunReturns`, `CallsEnd`,
`BoardMovesOn`, `BoardHealsFile`, `KeepsPolling`, `RecordConverges`, `StopIsObeyed`), which is
beyond the prover. Every other property of the passing runs is also a theorem.

## 5. Other observations

Behaviour that the models reproduce and that a reader of the documentation may not expect:

- `--retries` below zero makes the attempt loop run zero times, and the zero outcome counts
  as a success (engine.go:173; FanOut `RenderOnly`): no call is made and `ExecSpec` holds.
- The timeout is per attempt (engine.go:179), while it "bounds each individual target"
  (engine.go:17; "per-target timeout", main.go:198).
- Neither timeout nor interrupt ends a command that hangs in an SSH session, or a handshake
  with a box that has accepted the connection and says nothing (transport_ssh.go:144, 162).
  A client program is killed, but `cmd.Run` waits for as long as a surviving child holds its
  pipes (transport.go:52). Both are `Deaf` in Transports and in FanOut, and `Stuck` where the
  command hangs.
- What a timeout gives up may go on running on the box, and a retry starts it again beside it
  (`RepeatsAreExcused` says when). winrm starts a command without looking at its context, so a
  cancelled run that has attempts left may begin one (the exception in `CancelStartsNothing`).
- A local command that its context killed is reported as exit -1 without an error
  (transport.go:60). For wmi exit 0 means that the command was asked for
  (transport_psexec_wmi.go:51).
- `--pre` and `--post` are described as run "once" (main.go:217), and run in every loop
  (main.go:527). They, and `--health-cmd`, also run under `--what-if`.
- The inventory is resolved before a delayed start and never again, however long the wait and
  however many the loops (main.go:461, 519). `--export` is rewritten by every loop.
- `gather` exits with 0 whatever failed (main.go:806). `gather` and `provision` take the
  lifecycle flags and ignore them; `provision` ignores `--tui` too.
- A `-L` that comes from the settings (main.go:186) satisfies the guard like one that is given.
- With `--tui` a malformed `--start-at` ends on "run complete" with an empty summary and
  status 0 (watcher.go:149), where the plain command exits with 2.
- Targets skipped by the engine never reach `onResult` (engine.go:96-100): the watcher leaves
  them queued and its skip count stays 0 (`BoardTruthful`). The same holds for the targets of
  a rollout that its gate aborted, whose error the watcher drops (watcher.go:186).
- An interrupt during a pause between batches leaves the targets to come without a result
  (stage.go:82), while a failed gate marks them (stage.go:69).
- A rollout aborted by its gate exits with status 0 if no target failed (main.go:600).
- Without targets there is no batch, or, with a canary, one empty batch (stage.go:92): RunWaves
  then returns with or without a Run, both on an empty summary. `PlainSpec` says nothing of the
  beginning of such a rollout.
- With `--tui` the exit status is 0 whatever failed, and `--export` writes nothing
  (main.go:491-498).
- `provision --what-if` records the machines as provisioned, because a dry-run result is OK
  (main.go:1031): with `DryRun` set, `OnlyInstalledListed` fails. Provisioning again clears
  `LastSeen` (main.go:1041).
- A board's save that fails is not reported (statusboard_model.go:104, main.go:1143). If it fails
  after the truncation, the file stays unreadable, and every other command that needs it exits
  with an error, until a later save of that board is completed (`WriteFails`).
- A press of r on the status board adds a timer to the one that is armed
  (statusboard_model.go:78), and since the first poll runs without the flag a second one can
  overtake it and be overwritten by its older answer.
- Two one-shot agents whose polls overlap both run a job (agent.go:59-68). After a crash
  before the version is written, and a source set back to the job before, the agent takes
  itself to be up to date.
- Neither the fetch nor the job of an agent has a timeout (agent.go:27, main.go:930). A job
  that never ends, or a server that never answers, ends the polling for good, and the service
  can no longer be stopped, because the same loop receives the requests
  (agent_service_windows.go:50; the exception in `StopIsObeyed`). After a crash nothing starts
  the service before the next boot (main.go:1069).
- Provisioning deletes the service before it downloads (main.go:1066): if the download fails
  the machine is left without it, and the registry keeps its entry. If the old service is
  still busy when the 20 s are over and the new files go to another directory, the download
  succeeds, `sc create` fails on the entry that is marked, nobody looks, and the machine is
  recorded as provisioned; when the old process ends, the service is gone (the exception in
  `ProvisionedIsInstalled`).
- The start is computed twice from two readings of the clock (main.go:504, lifecycle.go:68). A
  start asked for at exactly the present time is tomorrow's, though the comment says "on or after
  now" (lifecycle.go:101).
- "Tomorrow" is 24 hours away (lifecycle.go:122), not the next day's hour: within a day after the
  clocks were changed a start is an hour early or late by the wall clock. It is an hour late in
  spring, although the clock has shown the hour. In autumn it is an hour early, and a start asked
  for within the last hour of the long day is taken to be due at once.
- Saving the settings in the console drops the configured `gather_queries` from the file
  (console.go:675; `Written`). The library in use lasts until the next start.
- `launch` does not use what the preview resolved but resolves anew (console.go:555); for
  `ldapset` the directory is searched again. `PreviewIsHit` therefore excepts a list that
  changed while the preview was up.
- Whatever is picked in the task picker, the gather command is filled from the query again,
  though the comment says "if they picked gather" (taskpicker.go:82). With "(custom)"
  selected nothing is overwritten (`CommandIsKept`).
- Saving another transport while an ssh field has the focus leaves the focus on a field that
  is no longer drawn, until the next tab (the exception in `KeysGoWhereShown`).
- A loop count that is not a number counts as 0, and 0 is for ever (console.go:705, atoi at
  1090); canary and wave likewise fall back to 0, which means no staging.
- `reboot` and the other destructive verbs start from the console without the guard, though
  the picker describes reboot as "guarded by --yes" (taskpicker.go:21).
- A column of the output that is called TARGET, EXIT or OS overwrites the synthetic cell of
  that name (gather_table.go:70). Cells that read as "nan" make the order of a column depend
  on the order before, also in groups that are not the cell's own (gather_table.go:216; `NanFree`).
- Folds are remembered by key and shared by all group columns (gather.go:300). A gather view
  that takes over from the console gets no window size and draws 20 lines until the next
  resize (gather.go:95).

## 6. What is not modelled

Still to come, see the plan: the exclude list and the columns of an inventory.
`Registry.Find`, `Remove` and `Names` are called by no command.

Left out: rendering of screens and tables, styles, dialogs and prompts (layout); export
formats; the parsers that cut output into columns, of which a result's columns and records
are what is left; the templates of tasks and verbs, which either fail or give a command, and with them
which verbs address the target by name and which run wherever the transport puts them; output,
quoting and options of the transports; look-up of secrets,
access control lists, groups, registry keys and reboots (calls of the operating system that
keep no state here); the demonstration commands. Durations and time stamps are left out of
results. A message or a name is a model value.

## 7. Plan

In this order:

1. **Inventory**: `Exclude` and `SplitFields`, and `buildPlan`'s order of the filters; RunPlan's
   `targets` on top of it.
2. **Tasks**: for each verb whether its command addresses the target or runs where the
   transport puts it, from the flags and from the console's form, which sets fewer of them.

## 8. Running it

    tlc -workers 2 -config FanOut_run.cfg MCFanOut.tla
    tlapm FanOutProofs.tla

Every run takes at most three minutes, every proof module a few minutes.
