--------------------------- MODULE RunPlanProofs ---------------------------
(***************************************************************************)
(* What one invocation of a verb promises, for any number of targets and   *)
(* loops, any flags and any length of the day: what exit status 0 means,   *)
(* what a destructive verb may hit unconfirmed, and when a delayed job     *)
(* starts.                                                                 *)
(***************************************************************************)
EXTENDS RunPlan, TLAPS

\* Before the first run, and between the first and the last.
Early == {"flags", "guard", "build", "plan", "start", "watch", "once"}
Ahead == {"top", "pre", "run"}
Behind == {"export", "after", "post"}
Recording == {"load", "save"}

Typed ==
    /\ verb \in AllVerbs
    /\ list \in Int /\ targets \in Nat
    /\ loop \in Nat /\ runs \in Nat /\ exit \in Int
    /\ pc \in Early \cup Ahead \cup Behind \cup Recording \cup {"exited", "killed"}

\* What was run, and what is known of it, at every place of the program.
Progress ==
    /\ exit # Absent => pc = "exited"
    /\ pc \in Early => runs = 0 /\ loop = 1 /\ ~bad /\ ~ctlBad /\ ~anyFailed
    /\ pc = "watch" => tui /\ verb # "provision"
    /\ pc = "start" => verb \notin Once
    /\ pc \in Ahead \cup Behind => verb \notin Once
    /\ pc \in Recording => verb = "provision" /\ runs = 1
    /\ pc \in Ahead \cup Behind \cup Recording => ~ctlBad /\ (anyFailed <=> bad)
    /\ pc \in Ahead /\ ~forever => loop = runs + 1 /\ runs <= Rounds
    /\ pc \in Ahead \ {"top"} /\ ~forever => loop <= Rounds
    /\ pc \in Behind /\ ~forever => loop = runs /\ runs <= Rounds

\* A guarded plan made of the list that was counted is confirmed or small.
Counted ==
    /\ pc \in {"start", "watch", "once"} \cup Ahead \cup Behind => ~preview
    /\ verb = "guarded" /\ pc = "build" /\ ~Confirmed /\ ~edited => GuardCount <= 1
    /\ verb = "guarded" /\ pc = "build" /\ ~Confirmed => list # Absent
    /\ verb = "guarded" /\ ~Confirmed /\ listed => targets <= 1

\* Nothing changes the flags.
LEMMA FlagsStay ==
    ASSUME [Next]_vars
    PROVE  /\ verb' = verb /\ (yes' <=> yes) /\ (preview' <=> preview)
           /\ (dryRun' <=> dryRun) /\ (tui' <=> tui) /\ (forever' <=> forever)
<1>1. UNCHANGED flags
  BY DEF Next, Steps, FlagsFail, ListQueries, FlagsRead, Guard, BuildFails, Build, Preview,
     NoTargets, BadStart, Started, Delayed, Waiting, WaitOver, Watch, WatchFails, Top,
     ControlFails, PrePasses, RunOnce, Gather, Install, Ran, Export, AfterRun, NextLoop,
     RegistryFails, RegistryRead, Recorded, EditList, Kill, Ended, Fails, Exit, Go, vars
<1> QED
  BY <1>1 DEF flags

\* A verb has a run at least.
LEMMA RoundsType == Rounds \in Nat \ {0}
BY JobAssumption DEF Rounds

\* Where the program goes on without doing anything.
LEMMA GoEffect ==
    ASSUME NEW to, Go(to)
    PROVE  /\ pc' = to
           /\ UNCHANGED <<list, targets, loop, exit, runs>>
           /\ edited' <=> edited
           /\ anyFailed' <=> anyFailed
           /\ listed' <=> listed
           /\ bad' <=> bad
           /\ ctlBad' <=> ctlBad
           /\ recorded' <=> recorded
BY DEF Go, flags, sources, history

\* Where it exits, apart from what is noted of the runs.
LEMMA ExitEffect ==
    ASSUME NEW code, Exit(code)
    PROVE  /\ pc' = "exited" /\ exit' = code
           /\ UNCHANGED <<list, targets, loop>>
           /\ edited' <=> edited
           /\ anyFailed' <=> anyFailed
BY DEF Exit, flags, sources

LEMMA FailsEffect ==
    ASSUME NEW code, Fails(code)
    PROVE  /\ pc' = "exited" /\ exit' = code
           /\ UNCHANGED <<list, targets, loop, runs>>
           /\ edited' <=> edited
           /\ anyFailed' <=> anyFailed
           /\ listed' <=> listed
           /\ bad' <=> bad
           /\ ctlBad' <=> ctlBad
           /\ recorded' <=> recorded
BY ExitEffect DEF Fails, history

\* A run that came back.
LEMMA RanEffect ==
    ASSUME NEW failed \in BOOLEAN, NEW to, Ran(failed, to)
    PROVE  /\ pc' = to
           /\ runs' = IF forever THEN 1 ELSE runs + 1
           /\ bad' <=> bad \/ failed
           /\ UNCHANGED <<list, targets, loop, exit>>
           /\ edited' <=> edited
           /\ listed' <=> listed
           /\ ctlBad' <=> ctlBad
           /\ recorded' <=> recorded
BY DEF Ran, flags, sources

\* All that holds of an invocation apart from its clock.
Inv == Typed /\ Progress /\ Counted /\ ExitZeroMeansClean

\* Before anything is read.
LEMMA Initially == Init => Inv
<1> SUFFICES ASSUME Init PROVE Inv
  OBVIOUS
<1>1. Typed
  BY JobAssumption DEF Init, Typed, Sizes, Absent, Early
<1>2. Progress
  BY DEF Init, Progress, Early, Ahead, Behind, Recording
<1>3. Counted
  BY DEF Init, Counted, Ahead, Behind
<1>4. ExitZeroMeansClean
  BY DEF Init, ExitZeroMeansClean, Absent
<1> QED
  BY <1>1, <1>2, <1>3, <1>4 DEF Inv

\* The flags, as they are in every step.
Fixed ==
    /\ verb' = verb
    /\ yes' <=> yes
    /\ preview' <=> preview
    /\ dryRun' <=> dryRun
    /\ tui' <=> tui
    /\ forever' <=> forever

\* Leaving with a failure keeps the invariant anywhere.
LEMMA FailureStep ==
    ASSUME Inv, Fixed, NEW code \in {1, 2}, Fails(code)
    PROVE  Inv'
<1>1. Typed'
  BY FailsEffect DEF Inv, Typed, Fixed
<1>2. Progress'
  BY FailsEffect DEF Progress, Early, Ahead, Behind, Recording
<1>3. Counted'
  BY FailsEffect DEF Inv, Counted, Confirmed, Fixed, Early, Ahead, Behind, Recording
<1>4. ExitZeroMeansClean'
  BY FailsEffect DEF ExitZeroMeansClean
<1> QED
  BY <1>1, <1>2, <1>3, <1>4 DEF Inv

\* Going on keeps it where the next place may be entered from here.
LEMMA GoStep ==
    ASSUME Inv, Fixed, NEW to \in Early \cup Ahead \cup Behind \cup Recording, Go(to),
           pc \in Early \cup Ahead \cup Behind \cup Recording,
           to \in Early => pc \in Early,
           to = "watch" => tui /\ verb # "provision",
           to \in {"start"} \cup Ahead \cup Behind => verb \notin Once,
           to \in Ahead => pc \in Ahead \cup Early,
           to \in Ahead \ {"top"} /\ ~forever => loop <= Rounds,
           to \in Behind => pc \in Behind,
           to \in Recording => pc \in Recording,
           to \in {"start", "watch", "once"} \cup Ahead \cup Behind => ~preview,
           verb = "guarded" /\ to = "build" /\ ~Confirmed => GuardCount <= 1
    PROVE  Inv'
<1>1. Typed'
  BY GoEffect DEF Inv, Typed, Fixed
<1>2. Progress'
  <2>1. exit' = Absent
    BY GoEffect DEF Inv, Progress, Early, Ahead, Behind, Recording
  <2>2. Rounds' = Rounds /\ Rounds \in Nat \ {0}
    BY RoundsType DEF Fixed, Rounds
  <2> QED
    BY <2>1, <2>2, GoEffect DEF Inv, Typed, Progress, Fixed, Early, Ahead, Behind, Recording
<1>3. Counted'
  BY GoEffect DEF Inv, Counted, Confirmed, GuardCount, Fixed
<1>4. ExitZeroMeansClean'
  BY GoEffect DEF Inv, Progress, ExitZeroMeansClean, Absent, Early, Ahead, Behind, Recording
<1> QED
  BY <1>1, <1>2, <1>3, <1>4 DEF Inv

\* Flags, guard and plan.
LEMMA PlanStep ==
    ASSUME Inv, Fixed,
           \/ FlagsFail \/ ListQueries \/ FlagsRead \/ Guard \/ BuildFails \/ Build
           \/ Preview \/ NoTargets \/ BadStart \/ Started
    PROVE  Inv'
<1>1. CASE FlagsFail \/ BuildFails \/ NoTargets \/ BadStart
  BY <1>1, FailureStep DEF FlagsFail, BuildFails, NoTargets, BadStart
<1>2. CASE ListQueries \/ Preview
  <2>1. Fails(0) /\ (verb = "gather" \/ preview)
    BY <1>2 DEF ListQueries, Preview
  <2>2. Typed'
    BY <2>1, FailsEffect DEF Inv, Typed, Fixed
  <2>3. Progress'
    BY <2>1, FailsEffect DEF Progress, Early, Ahead, Behind, Recording
  <2>4. Counted'
    BY <2>1, FailsEffect DEF Inv, Counted, Confirmed, Fixed, Early, Ahead, Behind, Recording
  <2>5. ExitZeroMeansClean'
    BY <2>1 DEF Fixed, ExitZeroMeansClean
  <2> QED
    BY <2>2, <2>3, <2>4, <2>5 DEF Inv
<1>3. CASE FlagsRead
  <2>1. PICK to \in {"guard", "build"} :
            pc = "flags" /\ Go(to) /\ (verb = "guarded" => to = "guard")
    BY <1>3 DEF FlagsRead
  <2> QED
    BY <2>1, GoStep DEF Early, Ahead, Behind, Recording
<1>4. CASE Guard
  <2>1. CASE pc = "guard" /\ (Confirmed \/ GuardCount <= 1) /\ Go("build")
    BY <2>1, GoStep DEF Early, Ahead, Behind, Recording
  <2>2. CASE Fails(2)
    BY <2>2, FailureStep
  <2> QED
    BY <1>4, <2>1, <2>2 DEF Guard
<1>5. CASE Build
  <2>1. /\ pc = "build" /\ pc' = "plan"
        /\ targets' \in 0..(IF other THEN MaxTargets ELSE list)
        /\ listed' <=> ~other /\ ~edited
        /\ list' = Absent
        /\ UNCHANGED <<loop, exit, runs>>
        /\ anyFailed' <=> anyFailed
        /\ bad' <=> bad
        /\ ctlBad' <=> ctlBad
    BY <1>5 DEF Build
  <2>2. Typed'
    BY <2>1, JobAssumption DEF Inv, Typed, Fixed, Absent, Early
  <2>3. Progress'
    BY <2>1 DEF Inv, Progress, Early, Ahead, Behind, Recording
  <2>4. Counted'
    <3>1. verb = "guarded" /\ ~Confirmed /\ listed' => list <= 1 /\ targets' \in 0..list /\ list \in Int
      BY <2>1 DEF Inv, Counted, GuardCount, Typed
    <3>2. verb = "guarded" /\ ~Confirmed /\ listed' => targets' <= 1
      BY <3>1
    <3> QED
      BY <2>1, <3>2 DEF Counted, Confirmed, Fixed, Ahead, Behind
  <2>5. ExitZeroMeansClean'
    BY <2>1 DEF Inv, Progress, ExitZeroMeansClean, Absent
  <2> QED
    BY <2>2, <2>3, <2>4, <2>5 DEF Inv
<1>6. CASE Started
  <2>1. PICK to \in {"watch", "once", "top"} :
            /\ pc = "plan" /\ ~preview /\ Go(to)
            /\ to = "watch" => tui /\ verb # "provision"
            /\ to = "top" => verb \notin Once
    BY <1>6 DEF Started, Planned
  <2> QED
    BY <2>1, GoStep DEF Early, Ahead, Behind, Recording
<1> QED
  BY <1>1, <1>2, <1>3, <1>4, <1>5, <1>6

\* The runs.
LEMMA RunStep ==
    ASSUME Inv, Fixed,
           \/ Watch \/ WatchFails \/ Top \/ ControlFails \/ PrePasses
           \/ \E failed \in BOOLEAN : RunOnce(failed)
           \/ Export \/ AfterRun \/ NextLoop
    PROVE  Inv'
<1>1. CASE WatchFails
  BY <1>1, FailureStep DEF WatchFails
<1>2. CASE PrePasses \/ Export \/ AfterRun
  <2>1. PICK to \in {"run", "after", "post"} :
            /\ Go(to)
            /\ to = "run" => pc = "pre"
            /\ to = "after" => pc = "export"
            /\ to = "post" => pc = "after"
    BY <1>2 DEF PrePasses, Export, AfterRun
  <2>2. pc \in Ahead \cup Behind => ~preview /\ verb \notin Once
    BY DEF Inv, Counted, Progress
  <2>3. pc = "pre" /\ ~forever => loop <= Rounds
    BY DEF Inv, Progress, Ahead
  <2> QED
    BY <2>1, <2>2, <2>3, GoStep DEF Early, Ahead, Behind, Recording
<1>3. CASE Top
  <2>1. CASE /\ pc = "top" /\ (forever \/ loop <= Rounds)
             /\ Go(IF HasPre /\ Staging THEN "pre" ELSE "run")
    <3>1. PICK to \in {"pre", "run"} : Go(to)
      BY <2>1
    <3>2. ~preview /\ verb \notin Once
      BY <2>1 DEF Inv, Counted, Progress, Ahead
    <3> QED
      BY <2>1, <3>1, <3>2, GoStep DEF Early, Ahead, Behind, Recording
  <2>2. CASE /\ pc = "top" /\ ~forever /\ loop > Rounds
             /\ Fails(IF anyFailed THEN 1 ELSE 0)
    <3>1. CASE anyFailed
      BY <2>2, <3>1, FailureStep
    <3>2. CASE ~anyFailed
      <4>1. Fails(0)
        BY <2>2, <3>2
      <4>2. Typed'
        BY <4>1, FailsEffect DEF Inv, Typed, Fixed
      <4>3. Progress'
        BY <4>1, FailsEffect DEF Progress, Early, Ahead, Behind, Recording
      <4>4. Counted'
        BY <4>1, FailsEffect DEF Inv, Counted, Confirmed, Fixed, Early, Ahead, Behind, Recording
      <4>5. verb # "provision" /\ ~bad /\ ~ctlBad
        BY <2>2, <3>2 DEF Inv, Progress, Ahead, Once
      <4>6. runs = Rounds
        BY <2>2, RoundsType DEF Inv, Typed, Progress, Ahead
      <4>7. Rounds' = Rounds
        BY DEF Rounds, Fixed
      <4>8. ExitZeroMeansClean'
        BY <2>2, <4>1, <4>5, <4>6, <4>7, FailsEffect DEF Fixed, ExitZeroMeansClean
      <4> QED
        BY <4>2, <4>3, <4>4, <4>8 DEF Inv
    <3> QED
      BY <3>1, <3>2
  <2> QED
    BY <1>3, <2>1, <2>2 DEF Top
<1>4. CASE Watch
  <2>1. pc = "watch" /\ Exit(0) /\ runs' \in 0..(IF forever THEN 1 ELSE Rounds)
        /\ (listed' <=> listed)
    BY <1>4 DEF Watch
  <2>2. Typed'
    BY <2>1, RoundsType, ExitEffect DEF Inv, Typed, Fixed
  <2>3. Progress'
    BY <2>1, ExitEffect DEF Progress, Early, Ahead, Behind, Recording
  <2>4. Counted'
    BY <2>1, ExitEffect DEF Inv, Counted, Confirmed, Fixed, Early, Ahead, Behind, Recording
  <2>5. ExitZeroMeansClean'
    BY <2>1 DEF Inv, Progress, Fixed, ExitZeroMeansClean
  <2> QED
    BY <2>2, <2>3, <2>4, <2>5 DEF Inv
<1>5. CASE ControlFails
  <2>1. Exit(1) /\ UNCHANGED runs /\ (listed' <=> listed)
    BY <1>5 DEF ControlFails
  <2>2. Typed'
    BY <2>1, ExitEffect DEF Inv, Typed, Fixed
  <2>3. Progress'
    BY <2>1, ExitEffect DEF Progress, Early, Ahead, Behind, Recording
  <2>4. Counted'
    BY <2>1, ExitEffect DEF Inv, Counted, Confirmed, Fixed, Early, Ahead, Behind, Recording
  <2>5. ExitZeroMeansClean'
    BY <2>1, ExitEffect DEF ExitZeroMeansClean
  <2> QED
    BY <2>2, <2>3, <2>4, <2>5 DEF Inv
<1>6. ASSUME NEW failed \in BOOLEAN, RunOnce(failed) PROVE Inv'
  <2>1. pc = "run" /\ (anyFailed' <=> anyFailed \/ failed)
    BY <1>6 DEF RunOnce
  <2>2. PICK to \in {"export", "after"} : Ran(failed, to)
    BY <1>6 DEF RunOnce, AfterOnce
  <2>3. Rounds' = Rounds /\ Rounds \in Nat \ {0}
    BY RoundsType DEF Rounds, Fixed
  <2>4. Typed'
    BY <2>2, RanEffect DEF Inv, Typed, Fixed, Behind
  <2>5. Progress'
    <3>1. verb \notin Once /\ ~ctlBad /\ (anyFailed <=> bad) /\ exit = Absent
          /\ (~forever => loop = runs + 1 /\ loop <= Rounds)
      BY <2>1 DEF Inv, Progress, Ahead
    <3> QED
      BY <2>1, <2>2, <2>3, <3>1, RanEffect
      DEF Inv, Typed, Progress, Fixed, Early, Ahead, Behind, Recording
  <2>6. Counted'
    BY <2>1, <2>2, RanEffect DEF Inv, Counted, Confirmed, Fixed, Ahead, Behind
  <2>7. ExitZeroMeansClean'
    BY <2>1, <2>2, RanEffect DEF Inv, Progress, ExitZeroMeansClean, Absent
  <2> QED
    BY <2>4, <2>5, <2>6, <2>7 DEF Inv
<1>7. CASE NextLoop
  <2>1. /\ pc \in {"post", "after"} /\ pc' = "top"
        /\ loop' = IF loop > Rounds THEN loop ELSE loop + 1
        /\ UNCHANGED <<list, targets, exit, runs>>
        /\ anyFailed' <=> anyFailed
        /\ listed' <=> listed
        /\ edited' <=> edited
        /\ bad' <=> bad
        /\ ctlBad' <=> ctlBad
    BY <1>7 DEF NextLoop, sources, history
  <2>2. Rounds' = Rounds /\ Rounds \in Nat \ {0}
    BY RoundsType DEF Rounds, Fixed
  <2>3. Typed'
    BY <2>1, <2>2 DEF Inv, Typed, Fixed, Ahead
  <2>4. Progress'
    BY <2>1, <2>2 DEF Inv, Typed, Progress, Fixed, Early, Ahead, Behind, Recording
  <2>5. Counted'
    BY <2>1 DEF Inv, Counted, Confirmed, Fixed, Ahead, Behind
  <2>6. ExitZeroMeansClean'
    BY <2>1 DEF Inv, Progress, ExitZeroMeansClean, Absent
  <2> QED
    BY <2>3, <2>4, <2>5, <2>6 DEF Inv
<1> QED
  BY <1>1, <1>2, <1>3, <1>4, <1>5, <1>6, <1>7

\* gather and provision.
LEMMA OnceStep ==
    ASSUME Inv, Fixed,
           \/ \E failed \in BOOLEAN : Gather(failed) \/ Install(failed)
           \/ RegistryFails \/ RegistryRead \/ Recorded
    PROVE  Inv'
<1>1. CASE RegistryFails
  BY <1>1, FailureStep DEF RegistryFails
<1>2. CASE RegistryRead
  BY <1>2, GoStep DEF RegistryRead, Early, Ahead, Behind, Recording
<1>3. ASSUME NEW failed \in BOOLEAN, Gather(failed) PROVE Inv'
  <2>1. pc = "once" /\ verb = "gather" /\ Exit(0) /\ runs' = 1 /\ (listed' <=> listed)
    BY <1>3 DEF Gather
  <2>2. Typed'
    BY <2>1, ExitEffect DEF Inv, Typed, Fixed
  <2>3. Progress'
    BY <2>1, ExitEffect DEF Progress, Early, Ahead, Behind, Recording
  <2>4. Counted'
    BY <2>1, ExitEffect DEF Inv, Counted, Confirmed, Fixed, Early, Ahead, Behind, Recording
  <2>5. ExitZeroMeansClean'
    BY <2>1 DEF Fixed, ExitZeroMeansClean
  <2> QED
    BY <2>2, <2>3, <2>4, <2>5 DEF Inv
<1>4. ASSUME NEW failed \in BOOLEAN, Install(failed) PROVE Inv'
  <2>1. pc = "once" /\ verb = "provision" /\ Ran(failed, "load") /\ (anyFailed' <=> failed)
    BY <1>4 DEF Install
  <2>2. Typed'
    BY <2>1, RanEffect DEF Inv, Typed, Fixed, Recording
  <2>3. Progress'
    <3>1. runs = 0 /\ ~bad /\ ~ctlBad /\ exit = Absent
      BY <2>1 DEF Inv, Progress, Early
    <3> QED
      BY <2>1, <3>1, RanEffect DEF Progress, Fixed, Early, Ahead, Behind, Recording
  <2>4. Counted'
    BY <2>1, RanEffect DEF Inv, Counted, Confirmed, Fixed, Ahead, Behind
  <2>5. ExitZeroMeansClean'
    BY <2>1, RanEffect DEF Inv, Progress, ExitZeroMeansClean, Absent
  <2> QED
    BY <2>2, <2>3, <2>4, <2>5 DEF Inv
<1>5. CASE Recorded
  <2>1. /\ pc = "save" /\ recorded' /\ Exit(IF anyFailed THEN 1 ELSE 0)
        /\ UNCHANGED runs
        /\ listed' <=> listed
        /\ bad' <=> bad
        /\ ctlBad' <=> ctlBad
    BY <1>5 DEF Recorded
  <2>2. Typed'
    BY <2>1, ExitEffect DEF Inv, Typed, Fixed
  <2>3. Progress'
    BY <2>1, ExitEffect DEF Progress, Early, Ahead, Behind, Recording
  <2>4. Counted'
    BY <2>1, ExitEffect DEF Inv, Counted, Confirmed, Fixed, Early, Ahead, Behind, Recording
  <2>5. ExitZeroMeansClean'
    <3>1. verb = "provision" /\ runs = 1 /\ ~ctlBad /\ (anyFailed <=> bad)
      BY <2>1 DEF Inv, Progress, Recording
    <3>2. Rounds' = 1
      BY <3>1 DEF Rounds, Once, Fixed
    <3>3. anyFailed => exit' = 1
      BY <2>1, ExitEffect
    <3> QED
      BY <2>1, <3>1, <3>2, <3>3 DEF Fixed, ExitZeroMeansClean
  <2> QED
    BY <2>2, <2>3, <2>4, <2>5 DEF Inv
<1> QED
  BY <1>1, <1>2, <1>3, <1>4, <1>5

\* The list, the clock and the user.
LEMMA OutsideStep ==
    ASSUME Inv, Fixed, EditList \/ Delayed \/ Waiting \/ WaitOver \/ Kill \/ UNCHANGED vars
    PROVE  Inv'
<1>1. CASE EditList
  <2>1. /\ pc \in {"flags", "guard", "build"} /\ list' \in Sizes
        /\ edited'
        /\ UNCHANGED <<pc, targets, loop, exit, runs>>
        /\ anyFailed' <=> anyFailed
        /\ listed' <=> listed
        /\ bad' <=> bad
        /\ ctlBad' <=> ctlBad
    BY <1>1 DEF EditList, history
  <2>2. list' \in Int /\ list' # Absent
    BY <2>1, JobAssumption DEF Sizes, Absent
  <2>3. Typed'
    BY <2>1, <2>2 DEF Inv, Typed, Fixed
  <2>4. Progress'
    BY <2>1 DEF Inv, Progress, Fixed, Early, Ahead, Behind, Recording
  <2>5. Counted'
    BY <2>1, <2>2 DEF Inv, Counted, Confirmed, Fixed, Ahead, Behind
  <2>6. ExitZeroMeansClean'
    BY <2>1 DEF Inv, Progress, ExitZeroMeansClean, Absent
  <2> QED
    BY <2>3, <2>4, <2>5, <2>6 DEF Inv
<1>2. CASE Delayed \/ Waiting \/ WaitOver
  <2>1. PICK to \in {"start", "top"} :
        /\ pc' = to
        /\ pc \in {"plan", "start"}
        /\ pc = "plan" => ~preview /\ verb \notin Once
        /\ UNCHANGED <<list, targets, loop, exit, runs>>
        /\ edited' <=> edited
        /\ anyFailed' <=> anyFailed
        /\ listed' <=> listed
        /\ bad' <=> bad
        /\ ctlBad' <=> ctlBad
    BY <1>2 DEF Delayed, Planned, Waiting, WaitOver, sources, history
  <2>2. ~preview /\ verb \notin Once
    BY <2>1 DEF Inv, Progress, Counted
  <2>3. Typed'
    BY <2>1 DEF Inv, Typed, Fixed, Early, Ahead
  <2>4. Progress'
    BY <2>1, <2>2, RoundsType DEF Inv, Progress, Fixed, Rounds, Early, Ahead, Behind, Recording
  <2>5. Counted'
    BY <2>1, <2>2 DEF Inv, Counted, Confirmed, Fixed
  <2>6. ExitZeroMeansClean'
    BY <2>1 DEF Inv, Progress, ExitZeroMeansClean, Absent
  <2> QED
    BY <2>3, <2>4, <2>5, <2>6 DEF Inv
<1>3. CASE Kill
  <2>1. /\ pc # "exited" /\ pc' = "killed"
        /\ UNCHANGED <<list, targets, loop, exit, runs>>
        /\ listed' <=> listed
    BY <1>3 DEF Kill, sources, history
  <2>2. exit = Absent
    BY <2>1 DEF Inv, Progress
  <2>3. Typed'
    BY <2>1 DEF Inv, Typed, Fixed
  <2>4. Progress'
    BY <2>1, <2>2 DEF Progress, Absent, Early, Ahead, Behind, Recording
  <2>5. Counted'
    BY <2>1 DEF Inv, Counted, Confirmed, Fixed, Ahead, Behind
  <2>6. ExitZeroMeansClean'
    BY <2>1, <2>2 DEF ExitZeroMeansClean, Absent
  <2> QED
    BY <2>3, <2>4, <2>5, <2>6 DEF Inv
<1>4. CASE UNCHANGED vars
  <2>1. /\ UNCHANGED <<list, pc, targets, loop, exit, runs>>
        /\ edited' <=> edited
        /\ anyFailed' <=> anyFailed
        /\ listed' <=> listed
        /\ bad' <=> bad
        /\ ctlBad' <=> ctlBad
        /\ recorded' <=> recorded
    BY <1>4 DEF vars, sources, history
  <2>2. Rounds' = Rounds
    BY DEF Rounds, Fixed
  <2>3. GuardCount' = GuardCount /\ (Confirmed' <=> Confirmed)
    BY <2>1 DEF GuardCount, Confirmed, Fixed
  <2> QED
    BY <2>1, <2>2, <2>3 DEF Inv, Typed, Progress, Counted, ExitZeroMeansClean, Fixed
<1> QED
  BY <1>1, <1>2, <1>3, <1>4

\* Every step keeps the invariant.
LEMMA InvStep == Inv /\ [Next]_vars => Inv'
<1> SUFFICES ASSUME Inv, [Next]_vars PROVE Inv'
  OBVIOUS
<1>1. Fixed
  BY FlagsStay DEF Fixed
<1> QED
  BY <1>1, PlanStep, RunStep, OnceStep, OutsideStep DEF Next, Steps, Ended

\* It holds in every behaviour.
LEMMA Invariance == Spec => []Inv
BY Initially, InvStep, PTL DEF Spec

\* Exit status 0 of a verb that reports what it did means that its loop was
\* run to the end without a failure, however many runs it had.
THEOREM ExitZeroIsEarned == Spec => []ExitZeroMeansClean
<1>1. Inv => ExitZeroMeansClean
  BY DEF Inv
<1> QED
  BY <1>1, Invariance, PTL

\* With the list as the only source, and not edited between the guard's count
\* and the plan's, no destructive verb runs on two targets unconfirmed.
THEOREM ListNeedsConfirmation == Spec => []ListIsConfirmed
<1>1. Inv => ListIsConfirmed
  BY DEF Inv, Counted, Confirmed, ListIsConfirmed, UnconfirmedHitsOne, Ahead
<1> QED
  BY <1>1, Invariance, PTL

-----------------------------------------------------------------------------
(***************************************************************************)
(* The delayed start.  An instant announced or armed is one that StartTime *)
(* gives for the moment it was asked at; what that says of the wait is     *)
(* arithmetic of the clock.                                                *)
(***************************************************************************)

\* An hour is a day and an hour of that day.
LEMMA DayAndHour ==
    ASSUME NEW w \in Int
    PROVE  /\ w \div DayLen \in Int /\ w % DayLen \in 0..(DayLen - 1)
           /\ w = (w \div DayLen) * DayLen + (w % DayLen)
BY JobAssumption

\* The hour of the day h hours into any day is h.
LEMMA HourOfDay ==
    ASSUME NEW day \in Int, NEW h \in 0..(DayLen - 1)
    PROVE  day * DayLen + h \in Int /\ (day * DayLen + h) % DayLen = h
BY JobAssumption

\* Days are a whole number of hours apart.
LEMMA DaysApart ==
    ASSUME NEW i \in Int, NEW j \in Int, i < j
    PROVE  i * DayLen \in Int /\ j * DayLen \in Int /\ i * DayLen + DayLen <= j * DayLen
<1>0. DayLen \in Int /\ DayLen > 0
  BY JobAssumption
<1>1. j * DayLen - i * DayLen - DayLen = (j - i - 1) * DayLen
  BY <1>0
<1>2. (j - i - 1) * DayLen >= 0
  <2>1. PICK n \in Nat : n = j - i - 1
    OBVIOUS
  <2>2. n * DayLen >= 0
    BY <1>0
  <2> QED
    BY <2>1, <2>2
<1> QED
  BY <1>0, <1>1, <1>2

\* What was asked for is an hour of the day and a change of an hour at most.
Asked ==
    /\ shift \in {-1, 0, 1} /\ delay \in Nat
    /\ hour # Clock!NoClock => hour \in 0..(DayLen - 1)

\* Today's hour is less than a day from now, by the wall clock.
LEMMA TodaysHour ==
    ASSUME Asked, hour # Clock!NoClock, NEW t \in Nat,
           NEW d \in Clock!Date(Clock!Day(t), hour)
    PROVE  \E w \in Int :
               /\ Clock!Wall(t) - DayLen < w /\ w < Clock!Wall(t) + DayLen
               /\ w % DayLen = hour
               /\ w = Clock!Day(t) * DayLen + hour
               /\ d \in {w, w - shift}
               /\ Clock!Wall(d) = w \/ (Clock!Wall(w) # w /\ Clock!Wall(w - shift) # w)
<1> DEFINE wall == Clock!Wall(t)
           day == Clock!Day(t)
           w == day * DayLen + hour
<1>1. wall \in Int
  BY JobAssumption DEF Clock!Wall, Asked
<1>2. hour \in 0..(DayLen - 1)
  BY DEF Asked
<1>3. day \in Int /\ wall = day * DayLen + (wall % DayLen) /\ wall % DayLen \in 0..(DayLen - 1)
  BY <1>1, DayAndHour DEF Clock!Day
<1>4. w \in Int /\ w % DayLen = hour
  BY <1>2, <1>3, HourOfDay
<1>5. day * DayLen \in Int /\ DayLen \in Int
  BY <1>3, JobAssumption
<1>6. wall - DayLen < w /\ w < wall + DayLen
  BY <1>1, <1>2, <1>3, <1>5
<1>7. /\ d \in {w, w - shift}
      /\ Clock!Wall(d) = w \/ (Clock!Wall(w) # w /\ Clock!Wall(w - shift) # w)
  BY DEF Clock!Date
<1> QED
  BY <1>4, <1>6, <1>7

\* Whole days do not change the hour.
LEMMA HourPlusDays ==
    ASSUME NEW x \in Int, NEW k \in Int
    PROVE  k * DayLen \in Int /\ (x + k * DayLen) % DayLen = x % DayLen
<1> DEFINE q == x \div DayLen
           h == x % DayLen
<1>1. q \in Int /\ h \in 0..(DayLen - 1) /\ x = q * DayLen + h
  BY DayAndHour
<1> HIDE DEF q, h
<1>2. DayLen \in Int /\ q * DayLen \in Int /\ k * DayLen \in Int /\ q + k \in Int
  BY <1>1, JobAssumption
<1>3. (q + k) * DayLen = q * DayLen + k * DayLen
  BY <1>1, <1>2
<1>4. x + k * DayLen = (q + k) * DayLen + h
  BY <1>1, <1>2, <1>3
<1>5. (x + k * DayLen) % DayLen = h
  BY <1>1, <1>2, <1>4, HourOfDay
<1> QED
  BY <1>2, <1>5 DEF h

\* An hour later by a is an hour of the day later by a, a day later or not.
LEMMA HoursLater ==
    ASSUME NEW x \in Int, NEW a \in Int
    PROVE  /\ (x + a) % DayLen = ((x % DayLen) + a) % DayLen
           /\ (x + DayLen + a) % DayLen = ((x % DayLen) + a) % DayLen
           /\ (x + DayLen) % DayLen = x % DayLen
<1> DEFINE q == x \div DayLen
           h == x % DayLen
<1>1. q \in Int /\ h \in 0..(DayLen - 1) /\ x = q * DayLen + h
  BY DayAndHour
<1> HIDE DEF q, h
<1>2. DayLen \in Int /\ q * DayLen \in Int /\ h + a \in Int
  BY <1>1, JobAssumption
<1>3. (q + 1) * DayLen = q * DayLen + DayLen
  BY <1>1, <1>2
<1>4. x + a = (h + a) + q * DayLen /\ x + DayLen + a = (h + a) + (q + 1) * DayLen
  BY <1>1, <1>2, <1>3
<1>5. (x + a) % DayLen = (h + a) % DayLen /\ (x + DayLen + a) % DayLen = (h + a) % DayLen
  <2> DEFINE n == h + a
  <2>1. n \in Int /\ q \in Int /\ q + 1 \in Int
    BY <1>1, <1>2
  <2>2. x + a = n + q * DayLen /\ x + DayLen + a = n + (q + 1) * DayLen
    BY <1>4
  <2> HIDE DEF n
  <2>3. (n + q * DayLen) % DayLen = n % DayLen /\ (n + (q + 1) * DayLen) % DayLen = n % DayLen
    BY <2>1, HourPlusDays
  <2> QED
    BY <2>2, <2>3 DEF n
<1>6. x + DayLen = x + 1 * DayLen
  BY <1>2
<1>7. (x + DayLen) % DayLen = h
  BY <1>6, HourPlusDays DEF h
<1> QED
  BY <1>5, <1>7 DEF h

\* Hours less than a day apart are different hours.
LEMMA HoursDiffer ==
    ASSUME NEW x \in Int, NEW y \in Int, x < y, y < x + DayLen
    PROVE  x % DayLen # y % DayLen
<1> DEFINE i == x \div DayLen
           j == y \div DayLen
<1>1. i \in Int /\ x = i * DayLen + (x % DayLen)
  BY DayAndHour
<1>2. j \in Int /\ y = j * DayLen + (y % DayLen)
  BY DayAndHour
<1>3. x % DayLen \in Int /\ y % DayLen \in Int /\ DayLen \in Int
  BY DayAndHour, JobAssumption
<1> HIDE DEF i, j
<1>4. i * DayLen \in Int /\ j * DayLen \in Int
  BY <1>1, <1>2, <1>3
<1> SUFFICES ASSUME x % DayLen = y % DayLen PROVE FALSE
  OBVIOUS
<1>5. i * DayLen < j * DayLen /\ j * DayLen < i * DayLen + DayLen
  BY <1>1, <1>2, <1>3, <1>4
<1>6. CASE i < j
  BY <1>1, <1>2, <1>3, <1>4, <1>5, <1>6, DaysApart
<1>7. CASE i = j
  BY <1>4, <1>5, <1>7
<1>8. CASE j < i
  <2>1. j * DayLen + DayLen <= i * DayLen
    BY <1>1, <1>2, <1>8, DaysApart
  <2> QED
    BY <1>3, <1>4, <1>5, <2>1, JobAssumption
<1> QED
  BY <1>1, <1>2, <1>6, <1>7, <1>8

\* What nextClockTime gives is a day away at most; it is not now, unless clocks
\* were put back.
LEMMA NextHourIsNear ==
    ASSUME Asked, hour # Clock!NoClock, NEW t \in Nat, NEW s \in Clock!NextClockTime(t)
    PROVE  /\ s \in Int
           /\ t <= s /\ s <= t + DayLen
           /\ s = t => shift = -1 /\ Clock!ClockChange(s)
<1>1. PICK d \in Clock!Date(Clock!Day(t), hour) : s = IF d > t THEN d ELSE d + DayLen
  BY DEF Clock!NextClockTime
<1>2. PICK w \in Int :
          /\ Clock!Wall(t) - DayLen < w /\ w < Clock!Wall(t) + DayLen
          /\ d \in {w, w - shift}
          /\ Clock!Wall(d) = w \/ (Clock!Wall(w) # w /\ Clock!Wall(w - shift) # w)
  BY TodaysHour
<1>3. DayLen \in Nat /\ DayLen >= 2 /\ Change \in Nat
  BY JobAssumption
<1> QED
  BY <1>1, <1>2, <1>3 DEF Clock!Wall, Clock!ClockChange, Asked

\* The hours by which it may be off.
OffBy(s) ==
    \/ Clock!ClockChange(s) /\ Clock!Hour(s) = (hour + shift) % DayLen
    \/ shift = 1 /\ Change = s + 1 /\ Clock!Hour(s) = (hour - 1) % DayLen

\* The clock shows the hour then, or is off by the change.
LEMMA NextHourIsShown ==
    ASSUME Asked, hour # Clock!NoClock, NEW t \in Nat, NEW s \in Clock!NextClockTime(t)
    PROVE  Clock!Hour(s) = hour \/ OffBy(s)
<1>1. PICK d \in Clock!Date(Clock!Day(t), hour) : s = IF d > t THEN d ELSE d + DayLen
  BY DEF Clock!NextClockTime
<1>2. PICK w \in Int :
          /\ Clock!Wall(t) - DayLen < w /\ w < Clock!Wall(t) + DayLen
          /\ w % DayLen = hour
          /\ d \in {w, w - shift}
          /\ Clock!Wall(d) = w \/ (Clock!Wall(w) # w /\ Clock!Wall(w - shift) # w)
  BY TodaysHour
<1>3. DayLen \in Nat /\ DayLen >= 2 /\ Change \in Nat
  BY JobAssumption
<1>4. /\ (w + DayLen) % DayLen = hour
      /\ \A a \in Int : /\ (w + a) % DayLen = (hour + a) % DayLen
                        /\ (w + DayLen + a) % DayLen = (hour + a) % DayLen
  BY <1>2, HoursLater
<1>5. \/ Clock!Wall(s) \in {w, w + DayLen}
      \/ Clock!ClockChange(s) /\ Clock!Wall(s) \in {w + shift, w + DayLen + shift}
      \/ shift = 1 /\ Change = s + 1 /\ Clock!Wall(s) = w - 1
  BY <1>1, <1>2, <1>3 DEF Clock!Wall, Clock!ClockChange, Asked
<1>6. CASE Clock!Wall(s) \in {w, w + DayLen}
  BY <1>2, <1>4, <1>6 DEF Clock!Hour
<1>7. CASE Clock!ClockChange(s) /\ Clock!Wall(s) \in {w + shift, w + DayLen + shift}
  <2>1. shift \in Int
    BY DEF Asked
  <2> QED
    BY <1>4, <1>7, <2>1 DEF Clock!Hour, OffBy
<1>8. CASE shift = 1 /\ Change = s + 1 /\ Clock!Wall(s) = w - 1
  <2>1. (w + (-1)) % DayLen = (hour + (-1)) % DayLen
    BY <1>4
  <2>2. w + (-1) = w - 1 /\ hour + (-1) = hour - 1
    BY DEF Asked
  <2> QED
    BY <1>8, <2>1, <2>2 DEF Clock!Hour, OffBy
<1> QED
  BY <1>5, <1>6, <1>7, <1>8

\* Where no change is near, it shows the hour, and no instant since t did.
LEMMA NextHourIsFirst ==
    ASSUME Asked, hour # Clock!NoClock, NEW t \in Nat, NEW s \in Clock!NextClockTime(t),
           ~Clock!ClockChange(s)
    PROVE  /\ t < s /\ Clock!Hour(s) = hour
           /\ \A u \in Nat : t < u /\ Clock!Hour(u) = hour => s <= u
<1>1. s \in Int /\ t < s /\ s <= t + DayLen
  BY NextHourIsNear
<1>2. DayLen \in Nat /\ DayLen >= 2 /\ Change \in Nat
  BY JobAssumption
<1>3. Clock!Hour(s) = hour
  <2>1. ~OffBy(s)
    BY <1>1, <1>2 DEF OffBy, Clock!ClockChange
  <2> QED
    BY <2>1, NextHourIsShown
<1>4. ASSUME NEW u \in Nat, t < u, Clock!Hour(u) = hour PROVE s <= u
  <2> SUFFICES ASSUME u < s PROVE FALSE
    BY <1>1
  <2>1. /\ Clock!Wall(u) \in Int /\ Clock!Wall(s) \in Int
        /\ Clock!Wall(u) < Clock!Wall(s) /\ Clock!Wall(s) < Clock!Wall(u) + DayLen
    BY <1>1, <1>2, <1>4 DEF Clock!Wall, Clock!ClockChange, Asked
  <2>2. Clock!Wall(u) % DayLen # Clock!Wall(s) % DayLen
    BY <2>1, HoursDiffer
  <2> QED
    BY <1>3, <1>4, <2>2 DEF Clock!Hour
<1> QED
  BY <1>1, <1>3, <1>4

\* What StartTime gives for t, as the sum it is.
LEMMA Instants ==
    ASSUME NEW t, NEW x \in Clock!StartInstants(t)
    PROVE  \E s : /\ x = s + delay
                  /\ hour = Clock!NoClock => s = t
                  /\ hour # Clock!NoClock => s \in Clock!NextClockTime(t)
BY DEF Clock!StartInstants

\* It depends on nothing but what was asked for.
LEMMA InstantsStay ==
    ASSUME UNCHANGED <<shift, hour, delay>>, NEW t
    PROVE  Clock!StartInstants(t)' = Clock!StartInstants(t)
BY DEF Clock!StartInstants, Clock!NextClockTime, Clock!Date, Clock!Day, Clock!Wall

\* shown and target are instants that StartTime gave, the first of them no
\* later than the timer was armed.
Timed ==
    /\ now \in Nat
    /\ clock \in {"none", "show", "arm", "wait", "run"}
    /\ clock # "none" => Asked
    /\ clock = "arm" => \E t \in 0..now : shown \in Clock!StartInstants(t)
    /\ clock \in {"wait", "run"} =>
        /\ armed \in Nat /\ armed <= now
        /\ target \in Clock!StartInstants(armed)
        /\ \E t \in 0..armed : shown \in Clock!StartInstants(t)

\* Every step keeps the instants, or forgets them.
LEMMA TimedStep == Timed /\ [Next]_vars => Timed'
<1> SUFFICES ASSUME Timed, [Next]_vars PROVE Timed'
  OBVIOUS
<1>1. CASE Delayed
  <2>1. PICK r \in Clock!Requests :
            now' = r.now /\ shift' = r.shift /\ hour' = r.hour /\ delay' = r.delay
    BY <1>1 DEF Delayed
  <2>2. /\ r.now \in Nat /\ r.shift \in {-1, 0, 1} /\ r.delay \in Nat
        /\ r.hour # Clock!NoClock => r.hour \in 0..(DayLen - 1)
    BY JobAssumption DEF Clock!Requests
  <2>3. clock' = "show"
    BY <1>1 DEF Delayed
  <2> QED
    BY <2>1, <2>2, <2>3 DEF Timed, Asked, Clock!NoClock
<1>2. CASE ClockGone
  BY <1>2 DEF ClockGone, Timed
<1>3. CASE UNCHANGED clockVars
  BY <1>3, InstantsStay DEF clockVars, Timed, Asked
<1>4. CASE Clock!Next
  <2>1. UNCHANGED <<shift, hour, delay>>
    BY <1>4 DEF Clock!Next, Clock!Show, Clock!Arm, Clock!Fire, Clock!Pass, Clock!asked
  <2>2. \A t : Clock!StartInstants(t)' = Clock!StartInstants(t)
    BY <2>1, InstantsStay
  <2>3. Asked' <=> Asked
    BY <2>1 DEF Asked, Clock!NoClock
  <2>4. CASE Clock!Show
    BY <2>1, <2>2, <2>3, <2>4 DEF Clock!Show, Timed
  <2>5. CASE Clock!Arm
    BY <2>1, <2>2, <2>3, <2>5 DEF Clock!Arm, Timed
  <2>6. CASE Clock!Fire
    BY <2>1, <2>2, <2>3, <2>6 DEF Clock!Fire, Timed
  <2>7. CASE Clock!Pass
    BY <2>1, <2>2, <2>3, <2>7 DEF Clock!Pass, Clock!asked, Timed
  <2> QED
    BY <1>4, <2>4, <2>5, <2>6, <2>7 DEF Clock!Next
<1>5. Delayed \/ ClockGone \/ UNCHANGED clockVars \/ Clock!Next
  BY DEF Next, Steps, FlagsFail, ListQueries, FlagsRead, Guard, BuildFails, Build, Preview,
     NoTargets, BadStart, Started, Waiting, WaitOver, Watch, WatchFails, Top,
     ControlFails, PrePasses, RunOnce, Gather, Install, Ran, Export, AfterRun, NextLoop,
     RegistryFails, RegistryRead, Recorded, EditList, Kill, Ended, Fails, Exit, Go, vars
<1> QED
  BY <1>1, <1>2, <1>3, <1>4, <1>5

\* Instants that StartTime gave are the right ones.
LEMMA TimedMeans == Timed => StartIsRight
<1> SUFFICES ASSUME Timed PROVE StartIsRight
  OBVIOUS
<1>0. DayLen \in Nat /\ DayLen >= 2
  BY JobAssumption
<1>1. Clock!WaitIsBounded
  <2> SUFFICES ASSUME clock \in {"wait", "run"}
               PROVE  /\ target >= armed + delay
                      /\ target = armed + delay =>
                            hour = Clock!NoClock \/ (shift = -1 /\ Clock!ClockChange(armed))
                      /\ target <= armed + DayLen + delay
    BY DEF Clock!WaitIsBounded
  <2>1. Asked /\ delay \in Nat /\ armed \in Nat /\ target \in Clock!StartInstants(armed)
    BY DEF Timed, Asked
  <2>2. PICK s : /\ target = s + delay
                 /\ hour = Clock!NoClock => s = armed
                 /\ hour # Clock!NoClock => s \in Clock!NextClockTime(armed)
    BY <2>1, Instants
  <2>3. CASE hour = Clock!NoClock
    BY <1>0, <2>1, <2>2, <2>3
  <2>4. CASE hour # Clock!NoClock
    <3>1. /\ s \in Int /\ armed <= s /\ s <= armed + DayLen
          /\ s = armed => shift = -1 /\ Clock!ClockChange(armed)
      BY <2>1, <2>2, <2>4, NextHourIsNear
    <3> QED
      BY <1>0, <2>1, <2>2, <3>1
  <2> QED
    BY <2>3, <2>4
<1>2. Clock!StartsAtHour
  <2> DEFINE s == target - delay
             r == shown - delay
  <2> SUFFICES ASSUME clock = "wait", hour # Clock!NoClock
               PROVE  /\ Clock!Hour(s) = hour \/ OffBy(s)
                      /\ \A t \in armed..(s - 1) :
                            Clock!Hour(t) = hour => t = armed \/ Clock!ClockChange(s)
                      /\ \/ s = r \/ r <= armed
                         \/ Clock!ClockChange(s) \/ Clock!ClockChange(r)
    BY DEF Clock!StartsAtHour, OffBy
  <2>1. Asked /\ delay \in Nat /\ armed \in Nat /\ target \in Clock!StartInstants(armed)
    BY DEF Timed, Asked
  <2>2. PICK t \in 0..armed : shown \in Clock!StartInstants(t)
    BY DEF Timed
  <2>3. s \in Clock!NextClockTime(armed) /\ s \in Int
    <3>1. PICK x : target = x + delay /\ x \in Clock!NextClockTime(armed)
      BY <2>1, Instants
    <3>2. x \in Int
      BY <2>1, <3>1, NextHourIsNear
    <3> QED
      BY <2>1, <3>1, <3>2
  <2>4. r \in Clock!NextClockTime(t) /\ r \in Int /\ t \in Nat
    <3>1. PICK x : shown = x + delay /\ x \in Clock!NextClockTime(t)
      BY <2>2, Instants
    <3>2. x \in Int /\ t \in Nat
      BY <2>1, <2>2, <3>1, NextHourIsNear
    <3> QED
      BY <2>1, <3>1, <3>2
  <2> HIDE DEF s, r
  <2>5. Clock!Hour(s) = hour \/ OffBy(s)
    BY <2>1, <2>3, NextHourIsShown
  <2>6. ~Clock!ClockChange(s) =>
            /\ armed < s /\ Clock!Hour(s) = hour
            /\ \A u \in Nat : armed < u /\ Clock!Hour(u) = hour => s <= u
    BY <2>1, <2>3, NextHourIsFirst
  <2>7. ~Clock!ClockChange(r) =>
            /\ Clock!Hour(r) = hour
            /\ \A u \in Nat : t < u /\ Clock!Hour(u) = hour => r <= u
    BY <2>1, <2>4, NextHourIsFirst
  <2>8. ASSUME NEW u \in armed..(s - 1), Clock!Hour(u) = hour
        PROVE  u = armed \/ Clock!ClockChange(s)
    BY <2>1, <2>3, <2>6, <2>8
  <2>9. ASSUME r > armed, ~Clock!ClockChange(s), ~Clock!ClockChange(r) PROVE s = r
    <3>1. s <= r
      BY <2>1, <2>4, <2>6, <2>7, <2>9
    <3>2. r <= s
      BY <2>1, <2>2, <2>3, <2>4, <2>6, <2>7, <2>9
    <3> QED
      BY <2>3, <2>4, <3>1, <3>2
  <2> QED
    BY <2>1, <2>4, <2>5, <2>8, <2>9
<1> QED
  BY <1>1, <1>2 DEF StartIsRight

\* A delayed job starts at the first instant after the command at which the wall
\* clock shows the hour asked for, and delay past it, or, within a day of a change
\* of the clocks, off by the change; whatever the clocks do, it never starts before
\* its delay, nor more than a day past it.
THEOREM DelayedStartIsRight == Spec => []StartIsRight
<1>1. Init => Timed
  BY DEF Init, Timed
<1> QED
  BY <1>1, TimedStep, TimedMeans, PTL DEF Spec
=============================================================================
