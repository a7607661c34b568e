---------------------------- MODULE StatusBoard ----------------------------
(***************************************************************************)
(* The live status board (tui/statusboard_model.go).  A poll is a fan-out  *)
(* in the background; its message stamps the rows and arms a timer, whose  *)
(* message starts the next poll, unless one is under way.  The key r polls *)
(* at once.  What is modelled is who drives the board, how many polls and  *)
(* timers there are, and how old the sample a row shows is: a poll samples *)
(* a machine at some moment of its life and reports when all of it is over. *)
(***************************************************************************)
EXTENDS Integers, FiniteSets

CONSTANTS
    MaxKeys,   \* bound: presses of r
    MaxPolls   \* bound: polls started

ASSUME BoundsAssumption == {MaxKeys, MaxPolls} \subseteq Nat \ {0}

Polls == 1..MaxPolls

VARIABLES
    started,   \* polls started so far; poll i is the i-th
    sampled,   \* sampled[i]: when poll i sampled the machine, 0 if it has not
    running,   \* the polls whose message has not been handled
    clock,     \* the samples taken so far
    row,       \* the sample the row shows, 0 before the first
    ticks,     \* timers armed and not yet handled
    polling,   \* the board's flag
    keys,      \* presses of r so far
    quit

boardVars == <<started, sampled, running, clock, row, ticks, polling, keys, quit>>

\* Init returns poll() alone: the first poll runs without the flag.
BoardStart ==
    /\ started = 1 /\ running = {1}
    /\ sampled = [i \in Polls |-> 0]
    /\ clock = 0 /\ row = 0 /\ ticks = 0
    /\ polling = FALSE /\ keys = 0 /\ quit = FALSE

\* b.polling = true; return b, b.poll()
StartPoll ==
    /\ started < MaxPolls
    /\ started' = started + 1
    /\ running' = running \cup {started + 1}
    /\ polling' = TRUE

\* Mutation: r does not look at the flag.
KeyRUnguarded ==
    /\ ~quit /\ keys < MaxKeys
    /\ keys' = keys + 1
    /\ StartPoll
    /\ UNCHANGED <<sampled, clock, row, ticks, quit>>

\* r: ignored while the flag is set.
KeyR ==
    /\ ~quit /\ keys < MaxKeys
    /\ keys' = keys + 1
    /\ \/ ~polling /\ StartPoll
       \/ polling /\ UNCHANGED <<started, running, polling>>
    /\ UNCHANGED <<sampled, clock, row, ticks, quit>>

KeyQuit ==
    /\ ~quit /\ quit' = TRUE
    /\ UNCHANGED <<started, sampled, running, clock, row, ticks, polling, keys>>

\* sbTickMsg: a tick that finds the flag set is the end of its timer.
Tick ==
    /\ ~quit /\ ticks > 0
    /\ ticks' = ticks - 1
    /\ \/ ~polling /\ StartPoll
       \/ polling /\ UNCHANGED <<started, running, polling>>
    /\ UNCHANGED <<sampled, clock, row, keys, quit>>

\* The fan-out of poll i gets the machine's state.
Sample(i) ==
    /\ i \in running /\ sampled[i] = 0
    /\ clock' = clock + 1
    /\ sampled' = [sampled EXCEPT ![i] = clock + 1]
    /\ UNCHANGED <<started, running, row, ticks, polling, keys, quit>>

\* Mutation: the timer is armed only by a poll the flag was set for.
PollDoneFlagged(i) ==
    /\ ~quit /\ i \in running /\ sampled[i] # 0
    /\ running' = running \ {i}
    /\ row' = sampled[i]
    /\ polling' = FALSE
    /\ ticks' = IF polling THEN ticks + 1 ELSE ticks
    /\ UNCHANGED <<started, sampled, clock, keys, quit>>

\* sbPollMsg: stamp the row, clear the flag, arm a timer.
PollDone(i) ==
    /\ ~quit /\ i \in running /\ sampled[i] # 0
    /\ running' = running \ {i}
    /\ row' = sampled[i]
    /\ polling' = FALSE
    /\ ticks' = ticks + 1
    /\ UNCHANGED <<started, sampled, clock, keys, quit>>

\* The program is left, or the bound on polls is reached.
Stopped == (quit \/ started = MaxPolls) /\ UNCHANGED boardVars

Drive == Tick \/ \E i \in Polls : Sample(i) \/ PollDone(i)

BoardNext == Drive \/ KeyR \/ KeyQuit \/ Stopped

BoardSpec == BoardStart /\ [][BoardNext]_boardVars

\* Timers fire, fan-outs return, messages are handled.
BoardFairSpec == BoardSpec /\ WF_boardVars(Drive)

-----------------------------------------------------------------------------
BoardTypeOK ==
    /\ started \in Polls /\ running \subseteq 1..started
    /\ sampled \in [Polls -> Nat] /\ clock \in Nat /\ row \in Nat
    /\ ticks \in Nat /\ polling \in BOOLEAN
    /\ keys \in 0..MaxKeys /\ quit \in BOOLEAN

\* The board never runs dry: as long as it is up there is a poll whose answer
\* will arm a timer or a timer that will start a poll, although ticks that
\* meet a poll are dropped.
BoardIsDriven == running # {} \/ ticks > 0

\* The flag is never left set with no poll to clear it; r and the timer would
\* be dead for good.
FlagHasPoll == polling => running # {}

\* However keys and ticks fall, at most two polls are under way, and only one
\* when the flag is clear: the flag misses the first poll and no other.
OverlapBounded == Cardinality(running) <= (IF polling THEN 2 ELSE 1)

\* The board polls on: until it is quit, another poll starts.
KeepsPolling ==
    \A n \in 1..(MaxPolls - 1) : started = n ~> started > n \/ quit
=============================================================================
