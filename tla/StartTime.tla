----------------------------- MODULE StartTime -----------------------------
(***************************************************************************)
(* The delayed start (fleet/lifecycle.go: StartTime, WaitForStart and      *)
(* nextClockTime), as runPlan makes it (module RunPlan): one call after    *)
(* the other, each with its own reading of the clock, under a context that *)
(* is never cancelled.  Instants are integers in hours; the wall clock     *)
(* runs shift ahead of them from the instant Change on, as it does where   *)
(* clocks are changed twice a year.                                        *)
(***************************************************************************)
EXTENDS Integers

CONSTANTS
    DayLen,   \* hours in a day, two at least
    Horizon,  \* bound: the last instant
    MaxDelay, \* bound: Delay
    Change    \* when the clocks are changed, if they are

NoClock == -1

VARIABLES
    now,
    shift,   \* what the clocks are changed by: 1 in spring, -1 in autumn
    hour,    \* StartAt, or NoClock when only a delay is asked for
    delay,   \* Delay
    pc,      \* "show", "arm", "wait" or "run"
    shown,   \* the instant announced to the user
    armed,   \* when the timer was set
    target   \* the instant it is set to

asked == <<shift, hour, delay>>
vars == <<now, asked, pc, shown, armed, target>>

Wall(t) == IF t < Change THEN t ELSE t + shift
Day(t) == Wall(t) \div DayLen
Hour(t) == Wall(t) % DayLen

\* time.Date: an instant that the wall clock shows as hour h of this day.
\* An hour that is skipped or shown twice may be read before or after the
\* change; the package promises one of the two.
Date(day, h) ==
    LET w == day * DayLen + h
        exact == {t \in {w, w - shift} : Wall(t) = w}
    IN  IF exact # {} THEN exact ELSE {w, w - shift}

\* What may be asked for, and when.
Requests ==
    {r \in [now : 0..(2 * DayLen - 1), shift : {-1, 0, 1},
            hour : {NoClock} \cup 0..(DayLen - 1), delay : 0..MaxDelay] :
        r.hour # NoClock \/ r.delay > 0}

Init ==
    /\ \E r \in Requests :
        now = r.now /\ shift = r.shift /\ hour = r.hour /\ delay = r.delay
    /\ pc = "show" /\ shown = 0 /\ armed = 0 /\ target = 0

\* nextClockTime: today's, or 24 hours later if that has passed.
NextClockTime(t) ==
    {IF d > t THEN d ELSE d + DayLen : d \in Date(Day(t), hour)}

\* Mutation: the delay counts only without StartAt.
StartInstantsNoDelay(t) ==
    IF hour = NoClock THEN {t + delay} ELSE NextClockTime(t)

\* StartTime
StartInstants(t) ==
    {s + delay : s \in IF hour = NoClock THEN {t} ELSE NextClockTime(t)}

\* when, err := life.StartTime(time.Now())
Show ==
    /\ pc = "show" /\ pc' = "arm"
    /\ shown' \in StartInstants(now)
    /\ UNCHANGED <<now, asked, armed, target>>

\* WaitForStart(ctx) computes the instant again and sets its timer.
Arm ==
    /\ pc = "arm" /\ pc' = "wait"
    /\ armed' = now
    /\ target' \in StartInstants(now)
    /\ UNCHANGED <<now, asked, shown>>

\* The timer fires.
Fire ==
    /\ pc = "wait" /\ now >= target
    /\ pc' = "run"
    /\ UNCHANGED <<now, asked, shown, armed, target>>

\* Time passes; a timer that is due fires first.
Pass ==
    /\ now < Horizon /\ ~(pc = "wait" /\ now >= target)
    /\ now' = now + 1
    /\ UNCHANGED <<asked, pc, shown, armed, target>>

Next == Show \/ Arm \/ Fire \/ Pass

Spec == Init /\ [][Next]_vars

-----------------------------------------------------------------------------
\* The clocks are changed within the day before t, or right after t.
ClockChange(t) == shift # 0 /\ Change \in (t - DayLen)..(t + 1)

\* "The next instant matching it on or after now (today if still ahead, otherwise
\* tomorrow)" (lifecycle.go:101): the wall clock shows the hour when the job
\* starts, delay aside, and does not show it any earlier.  There are two
\* exceptions.  It is not "on or after": the hour that begins right now is left
\* out, and its next showing taken.  And tomorrow is 24 hours later: a start
\* within a day after a change comes as much too early or too late as the clocks
\* were changed, perhaps behind a showing of the hour that it missed, and an hour
\* that is skipped is taken for the one before or after.  The start is the one
\* that was announced, unless that went by between the two readings of the clock.
StartsAtHour ==
    pc = "wait" /\ hour # NoClock =>
        LET s == target - delay
            announced == shown - delay
        IN  /\ \/ Hour(s) = hour
               \/ ClockChange(s) /\ Hour(s) = (hour + shift) % DayLen
               \/ shift = 1 /\ Change = s + 1 /\ Hour(s) = (hour - 1) % DayLen
            /\ \A t \in armed..(s - 1) : Hour(t) = hour => t = armed \/ ClockChange(s)
            /\ \/ s = announced \/ announced <= armed
               \/ ClockChange(s) \/ ClockChange(announced)

\* It never starts at once and never later than a day and the delay.  Where the
\* clocks were put back, today's instant plus 24 hours may lie within the last
\* hour of this long day: such a job starts without waiting.
WaitIsBounded ==
    pc \in {"wait", "run"} =>
        /\ target >= armed + delay
        /\ target = armed + delay => hour = NoClock \/ (shift = -1 /\ ClockChange(armed))
        /\ target <= armed + DayLen + delay
=============================================================================
