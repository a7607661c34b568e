--------------------------- MODULE WatcherProofs ---------------------------
(***************************************************************************)
(* The dashboard, for any number of targets, slots and loops and a channel *)
(* of any size: what stands in the channel, or has been taken from it,     *)
(* since the last message of a kind.                                       *)
(***************************************************************************)
EXTENDS Watcher, FiniteSetTheorems, TLAPS

-----------------------------------------------------------------------------
(* The channel.                                                            *)

Positions == 1..Len(events)
Kind(i) == events[i].kind

\* The channel is a sequence of some messages.
Channel == \E S : events \in Seq(S)

\* No message of this kind is under way; the last one under way says x; and
\* the messages from the last announced loop on.
Quiet(kind) == \A i \in Positions : Kind(i) # kind
Latest(kind, x) ==
    \E i \in Positions :
        /\ Kind(i) = kind /\ events[i].arg = x
        /\ \A j \in Positions : j > i => Kind(j) # kind
Fresh(i) == \A j \in Positions : j > i => Kind(j) # "loop"
Current == {events[i] : i \in {k \in Positions : Fresh(k)}}

\* A message is sent.
LEMMA SendEffect ==
    ASSUME Channel, NEW m, events' = Append(events, m)
    PROVE  /\ Channel'
           /\ Len(events) \in Nat /\ Len(events') = Len(events) + 1
           /\ \A i \in Positions : events'[i] = events[i]
           /\ events'[Len(events) + 1] = m
<1>1. PICK S : events \in Seq(S)
  BY DEF Channel
<1>2. events \in Seq(S \cup {m})
  BY <1>1
<1>3. /\ events' \in Seq(S \cup {m})
      /\ Len(events') = Len(events) + 1 /\ Len(events) \in Nat
      /\ \A i \in 1..Len(events) : events'[i] = events[i]
      /\ events'[Len(events) + 1] = m
  BY <1>2
<1> QED
  BY <1>3 DEF Channel, Positions

\* The first message is taken.
LEMMA TakeEffect ==
    ASSUME Channel, events # <<>>, events' = Tail(events)
    PROVE  /\ Channel'
           /\ Len(events) \in Nat /\ Len(events) >= 1 /\ Len(events') = Len(events) - 1
           /\ \A i \in 1..(Len(events) - 1) : events'[i] = events[i + 1]
           /\ Head(events) = events[1]
<1>1. PICK S : events \in Seq(S)
  BY DEF Channel
<1>2. /\ events' \in Seq(S)
      /\ Len(events) \in Nat /\ Len(events) >= 1 /\ Len(events') = Len(events) - 1
      /\ \A i \in 1..(Len(events) - 1) : events'[i] = events[i + 1]
      /\ Head(events) = events[1]
  BY <1>1
<1> QED
  BY <1>2 DEF Channel

\* What is known of one kind does not depend on messages of another.
LEMMA SendOther ==
    ASSUME Channel, NEW m, events' = Append(events, m), NEW kind, m.kind # kind
    PROVE  /\ Quiet(kind)' <=> Quiet(kind)
           /\ \A x : Latest(kind, x)' <=> Latest(kind, x)
<1>1. /\ Len(events) \in Nat /\ Len(events') = Len(events) + 1
      /\ \A i \in 1..Len(events) : events'[i] = events[i]
      /\ events'[Len(events) + 1] = m
  BY SendEffect DEF Positions
<1> DEFINE n == Len(events)
<1>2. n \in Nat /\ 1..Len(events') = (1..n) \cup {n + 1}
  BY <1>1
<1>3. Quiet(kind)' <=> Quiet(kind)
  BY <1>1, <1>2 DEF Quiet, Positions, Kind
<1>4. ASSUME NEW x PROVE Latest(kind, x)' <=> Latest(kind, x)
  BY <1>1, <1>2 DEF Latest, Positions, Kind
<1> QED
  BY <1>3, <1>4

LEMMA SendSame ==
    ASSUME Channel, NEW m, events' = Append(events, m)
    PROVE  Latest(m.kind, m.arg)' /\ ~Quiet(m.kind)'
<1>1. Len(events) + 1 \in 1..Len(events') /\ events'[Len(events) + 1] = m
  BY SendEffect
<1>2. \A j \in 1..Len(events') : ~(j > Len(events) + 1)
  BY SendEffect
<1> QED
  BY <1>1, <1>2 DEF Latest, Quiet, Positions, Kind

\* The last message of a kind stays until it is taken itself.
LEMMA TakeAny ==
    ASSUME Channel, events # <<>>, events' = Tail(events), NEW kind
    PROVE  /\ Head(events).kind # kind =>
                /\ Quiet(kind)' <=> Quiet(kind)
                /\ \A x : Latest(kind, x) => Latest(kind, x)'
           /\ Head(events).kind = kind =>
                /\ ~Quiet(kind)
                /\ \A x : Latest(kind, x) =>
                        Latest(kind, x)' \/ (Quiet(kind)' /\ Head(events).arg = x)
<1> DEFINE n == Len(events)
<1>1. /\ n \in Nat /\ n >= 1 /\ Len(events') = n - 1
      /\ \A i \in 1..(n - 1) : events'[i] = events[i + 1]
      /\ Head(events) = events[1]
  BY TakeEffect
<1>2. \A i \in 1..n : i # 1 => i - 1 \in 1..(n - 1) /\ events'[i - 1] = events[i]
  BY <1>1
<1>3. Quiet(kind)' <=> \A i \in 1..n : i # 1 => Kind(i) # kind
  <2>1. Quiet(kind)' <=> \A j \in 1..(n - 1) : events'[j].kind # kind
    BY <1>1 DEF Quiet, Positions, Kind
  <2>2. (\A j \in 1..(n - 1) : events'[j].kind # kind)
        => (\A i \in 1..n : i # 1 => events[i].kind # kind)
    BY <1>2
  <2>3. (\A i \in 1..n : i # 1 => events[i].kind # kind)
        => (\A j \in 1..(n - 1) : events'[j].kind # kind)
    <3> SUFFICES ASSUME \A i \in 1..n : i # 1 => events[i].kind # kind,
                        NEW j \in 1..(n - 1)
                 PROVE  events'[j].kind # kind
      OBVIOUS
    <3>1. j + 1 \in 1..n /\ j + 1 # 1 /\ events'[j] = events[j + 1]
      BY <1>1
    <3> QED
      BY <3>1
  <2> QED
    BY <2>1, <2>2, <2>3 DEF Kind
<1>4. ASSUME NEW x, Latest(kind, x)
      PROVE  Latest(kind, x)' \/ (Quiet(kind)' /\ Head(events).kind = kind /\ Head(events).arg = x)
  <2>1. PICK i \in 1..n : /\ Kind(i) = kind /\ events[i].arg = x
                          /\ \A j \in 1..n : j > i => Kind(j) # kind
    BY <1>4 DEF Latest, Positions
  <2>2. CASE i = 1
    BY <1>1, <1>3, <2>1, <2>2 DEF Kind
  <2>3. CASE i # 1
    <3>1. i - 1 \in 1..(n - 1) /\ events'[i - 1] = events[i]
      BY <1>2, <2>3
    <3>2. \A j \in 1..(n - 1) : j > i - 1 => events'[j].kind # kind
      BY <1>1, <2>1 DEF Kind
    <3> QED
      BY <1>1, <2>1, <3>1, <3>2 DEF Latest, Positions, Kind
  <2> QED
    BY <2>2, <2>3
<1>5. Head(events).kind = kind => ~Quiet(kind)
  BY <1>1 DEF Quiet, Positions, Kind
<1>6. Quiet(kind) <=> (\A i \in 1..n : i # 1 => Kind(i) # kind) /\ Head(events).kind # kind
  BY <1>1 DEF Quiet, Positions, Kind
<1> QED
  BY <1>3, <1>4, <1>5, <1>6

LEMMA CurrentHas ==
    ASSUME NEW k \in Positions, \A j \in Positions : j > k => Kind(j) # "loop"
    PROVE  events[k] \in Current
BY DEF Current, Fresh

\* The current loop's messages, when one more is sent, and when one is taken.
LEMMA SendCurrent ==
    ASSUME Channel, NEW m, events' = Append(events, m)
    PROVE  Current' \subseteq IF m.kind = "loop" THEN {m} ELSE Current \cup {m}
<1> DEFINE n == Len(events)
<1>1. /\ n \in Nat /\ Len(events') = n + 1
      /\ \A i \in 1..n : events'[i] = events[i]
      /\ events'[n + 1] = m
  BY SendEffect DEF Positions
<1> SUFFICES ASSUME NEW i \in 1..(n + 1),
                    \A j \in 1..(n + 1) : j > i => events'[j].kind # "loop"
             PROVE  events'[i] \in IF m.kind = "loop" THEN {m} ELSE Current \cup {m}
  BY <1>1 DEF Current, Fresh, Positions, Kind
<1>2. CASE i = n + 1
  BY <1>1, <1>2
<1>3. CASE i # n + 1
  <2>1. i \in 1..n /\ n + 1 > i /\ n + 1 \in 1..(n + 1)
    BY <1>1, <1>3
  <2>2. m.kind # "loop"
    BY <1>1, <2>1
  <2>3. \A j \in 1..n : j > i => events[j].kind # "loop"
    BY <1>1
  <2>4. events[i] \in Current
    BY <2>1, <2>3 DEF Current, Fresh, Positions, Kind
  <2> QED
    BY <1>1, <2>1, <2>2, <2>4
<1> QED
  BY <1>2, <1>3

LEMMA TakeCurrent ==
    ASSUME Channel, events # <<>>, events' = Tail(events)
    PROVE  /\ Current' \subseteq Current
           /\ Quiet("loop")' => Head(events) \in Current
<1> DEFINE n == Len(events)
<1>1. /\ n \in Nat /\ n >= 1 /\ Len(events') = n - 1
      /\ \A i \in 1..(n - 1) : events'[i] = events[i + 1]
      /\ Head(events) = events[1]
  BY TakeEffect
<1>2. \A j \in 1..n : j > 1 => j - 1 \in 1..(n - 1) /\ events'[j - 1] = events[j]
  BY <1>1
<1>3. ASSUME NEW i \in 1..(n - 1),
             \A j \in 1..(n - 1) : j > i => events'[j].kind # "loop"
      PROVE  events'[i] \in Current
  <2>1. PICK k \in 1..n : k = i + 1
    BY <1>1
  <2>2. events'[i] = events[k]
    BY <1>1, <2>1
  <2>3. \A j \in 1..n : j > k => events[j].kind # "loop"
    <3> SUFFICES ASSUME NEW j \in 1..n, j > k PROVE events[j].kind # "loop"
      OBVIOUS
    <3>1. j > 1 /\ j - 1 > i
      BY <1>1, <2>1
    <3> QED
      BY <1>2, <1>3, <3>1
  <2>4. events[k] \in Current
    BY <2>3, CurrentHas DEF Positions, Kind
  <2> QED
    BY <2>2, <2>4
<1>4. Current' \subseteq Current
  <2>1. Current' = {events'[i] : i \in {k \in 1..(n - 1) :
                        \A j \in 1..(n - 1) : j > k => events'[j].kind # "loop"}}
    BY <1>1 DEF Current, Fresh, Positions, Kind
  <2> QED
    BY <1>3, <2>1
<1>5. ASSUME Quiet("loop")' PROVE Head(events) \in Current
  <2>1. \A j \in 1..(n - 1) : events'[j].kind # "loop"
    BY <1>1, <1>5 DEF Quiet, Positions, Kind
  <2>2. \A j \in 1..n : j > 1 => events[j].kind # "loop"
    BY <1>2, <2>1
  <2>3. 1 \in 1..n
    BY <1>1
  <2> QED
    BY <1>1, <2>2, <2>3 DEF Current, Fresh, Positions, Kind
<1> QED
  BY <1>4, <1>5

-----------------------------------------------------------------------------
(* The loop on the board.                                                  *)

Begun == {"pre", "prestart", "prerun", "ready"}

\* Every message about a target names one.
Shape(m) ==
    /\ m.kind = "start" => m.arg \in AllTargets
    /\ m.kind = "result" => \E t \in AllTargets, o \in {"ok", "fail"} : m.arg = <<t, o>>

Typed ==
    /\ status \in [AllTargets -> {"pending", "running", "ok", "fail", "skip"}]
    /\ sent \in [AllTargets -> {"none", "start", "result"}]
    /\ rows \in [AllTargets -> {"queued", "running", "ok", "fail"}]
    /\ loop \in Nat \ {0}
    /\ Channel
    /\ \A i \in Positions : Shape(events[i])

\* Whoever holds a slot belongs to the Run that is under way.
Slots == \A t \in AllTargets : SlotTaken(t) => eng = "run" /\ phase = "batch" /\ ~over

\* A message of the current loop says what has happened in it.
Happened(m) ==
    /\ m.kind = "start" => sent[m.arg] # "none" /\ status[m.arg] # "pending"
    /\ m.kind = "result" => \A t \in AllTargets, o \in {"ok", "fail"} :
            m.arg = <<t, o>> => status[t] = o /\ sent[t] = "result"

RowTrue(t) ==
    /\ rows[t] = "running" => status[t] # "pending" /\ sent[t] # "none"
    /\ rows[t] \in {"ok", "fail"} => status[t] = rows[t] /\ sent[t] = "result"

NotStale ==
    /\ \A m \in Current : Happened(m)
    /\ Quiet("loop") => \A t \in AllTargets : RowTrue(t)

\* The loop announced last has run nothing yet; nor has a job of one loop, which
\* is not announced.
NothingYet == eng \in Begun \/ (~Looping /\ eng \in {"wait", "waiting", "top"} /\ loop <= Loops)

Fresh0 ==
    /\ ~Looping => eng # "announce"
    /\ NothingYet =>
        /\ \A m \in Current : m.kind \notin {"start", "result"}
        /\ Quiet("loop") => rows = Queued

Board == Typed /\ Slots /\ NotStale /\ Fresh0

\* What a worker does to its target, without a message.
LEMMA WorkerEffect ==
    ASSUME Board, NEW t \in AllTargets,
           \/ StartTarget(t) \/ SkipOne(t) \/ \E o \in {"ok", "fail"} : EndTarget(t, o)
    PROVE  /\ Underway /\ ~over
           /\ UNCHANGED <<sent, events, eng, loop, rows, phase, over>>
           /\ forever' <=> forever
           /\ \E o \in {"running", "skip", "ok", "fail"} :
                /\ status' = [status EXCEPT ![t] = o]
                /\ o \in {"running", "skip"} => status[t] = "pending"
                /\ o \in {"ok", "fail"} => status[t] = "running"
BY DEF StartTarget, SkipOne, EndTarget, Run!Start, Run!SkipTarget, Run!Finish, Run!Frontier,
   Run!Having, otherVars, engVars, boardVars, stageVars, Board, Typed

LEMMA WorkerKeeps ==
    ASSUME Board, NEW t \in AllTargets,
           \/ StartTarget(t) \/ SkipOne(t) \/ \E o \in {"ok", "fail"} : EndTarget(t, o)
    PROVE  Board'
<1>1. /\ eng = "run" /\ phase = "batch" /\ ~over
      /\ UNCHANGED <<sent, events, eng, loop, rows, phase>>
      /\ over' <=> over
      /\ forever' <=> forever
  BY WorkerEffect DEF Underway
<1>2. PICK o \in {"running", "skip", "ok", "fail"} :
          /\ status' = [status EXCEPT ![t] = o]
          /\ o \in {"running", "skip"} => status[t] = "pending"
          /\ o \in {"ok", "fail"} => status[t] = "running"
  BY WorkerEffect
<1>3. status \in [AllTargets -> {"pending", "running", "ok", "fail", "skip"}]
  BY DEF Board, Typed
<1>4. Typed'
  BY <1>1, <1>2, <1>3 DEF Board, Typed, Channel, Positions, Shape
<1>5. Slots'
  BY <1>1 DEF Slots
<1>6. Current' = Current /\ (Quiet("loop")' <=> Quiet("loop"))
  BY <1>1 DEF Current, Fresh, Quiet, Positions, Kind
<1>7. NotStale'
  <2>1. ASSUME NEW m \in Current, Happened(m), Shape(m) PROVE Happened(m)'
    BY <1>1, <1>2, <1>3, <2>1 DEF Happened, Shape
  <2>2. \A m \in Current : Shape(m)
    BY DEF Board, Typed, Current
  <2>3. ASSUME NEW u \in AllTargets, RowTrue(u) PROVE RowTrue(u)'
    BY <1>1, <1>2, <1>3, <2>3 DEF RowTrue
  <2> QED
    BY <1>6, <2>1, <2>2, <2>3 DEF Board, NotStale
<1>8. Fresh0'
  BY <1>1, <1>6 DEF Board, Fresh0, NothingYet, Looping, Begun
<1> QED
  BY <1>4, <1>5, <1>7, <1>8 DEF Board

\* A message about nothing but the job's course.
Courses(m) == m.kind \notin {"start", "result", "loop"}

\* The engine goroutine moves on, with or without such a message.
LEMMA EngineMoves ==
    ASSUME Board,
           UNCHANGED <<status, sent, rows>>, forever' <=> forever, loop' \in Nat \ {0},
           events' = events \/ \E m : Courses(m) /\ events' = Append(events, m),
           ~Looping => eng' # "announce",
           NothingYet' => NothingYet,
           Slots'
    PROVE  Board'
<1>1. Looping' <=> Looping
  BY DEF Looping
<1>2. CASE events' = events
  <2>1. Current' = Current /\ (Quiet("loop")' <=> Quiet("loop"))
    BY <1>2 DEF Current, Fresh, Quiet, Positions, Kind
  <2>2. Typed'
    BY <1>2 DEF Board, Typed, Channel, Positions, Shape
  <2>3. NotStale'
    BY <2>1 DEF Board, NotStale, Happened, RowTrue
  <2>4. Fresh0'
    BY <1>1, <2>1 DEF Board, Fresh0
  <2> QED
    BY <2>2, <2>3, <2>4 DEF Board
<1>3. ASSUME NEW m, Courses(m), events' = Append(events, m) PROVE Board'
  <2>0. Channel
    BY DEF Board, Typed
  <2>1. Current' \subseteq Current \cup {m}
    BY <1>3, <2>0, SendCurrent DEF Courses
  <2>2. Quiet("loop")' <=> Quiet("loop")
    BY <1>3, <2>0, SendOther DEF Courses
  <2>3. Typed'
    <3>1. /\ Channel' /\ Len(events) \in Nat /\ Len(events') = Len(events) + 1
          /\ \A i \in Positions : events'[i] = events[i]
          /\ events'[Len(events) + 1] = m
      BY <1>3, <2>0, SendEffect
    <3>2. \A i \in 1..Len(events') : Shape(events'[i])
      BY <1>3, <3>1 DEF Board, Typed, Shape, Courses, Positions
    <3> QED
      BY <3>1, <3>2 DEF Board, Typed, Positions, Shape
  <2>4. NotStale'
    <3>1. Happened(m)'
      BY <1>3 DEF Happened, Courses
    <3>2. ASSUME NEW k \in Current PROVE Happened(k)'
      BY <3>2 DEF Board, NotStale, Happened
    <3>3. \A k \in Current' : Happened(k)'
      BY <2>1, <3>1, <3>2
    <3>4. Quiet("loop")' => \A t \in AllTargets : RowTrue(t)'
      BY <2>2 DEF Board, NotStale, RowTrue
    <3> QED
      BY <3>3, <3>4 DEF NotStale
  <2>5. Fresh0'
    BY <1>1, <1>3, <2>1, <2>2 DEF Board, Fresh0, Courses
  <2> QED
    BY <2>3, <2>4, <2>5 DEF Board
<1> QED
  BY <1>2, <1>3

\* A worker tells of its target: what it says is so.
LEMMA Telling ==
    ASSUME Board, NEW t \in AllTargets, NEW m, m.kind \in {"start", "result"},
           events' = Append(events, m),
           sent' \in [AllTargets -> {"none", "start", "result"}],
           \A u \in AllTargets : sent'[u] = IF u = t THEN m.kind ELSE sent[u],
           m.kind = "start" => m.arg = t /\ sent[t] = "none" /\ status[t] = "running",
           m.kind = "result" => m.arg = <<t, status[t]>> /\ status[t] \in {"ok", "fail"},
           UNCHANGED <<status, eng, loop, rows, phase>>,
           forever' <=> forever, over' <=> over,
           eng = "run", phase = "batch", ~over
    PROVE  Board'
<1>0. Channel /\ sent \in [AllTargets -> {"none", "start", "result"}]
  BY DEF Board, Typed
<1>1. Current' \subseteq Current \cup {m} /\ (Quiet("loop")' <=> Quiet("loop"))
  BY <1>0, SendCurrent, SendOther
<1>2. Typed'
  <2>1. /\ Channel' /\ Len(events) \in Nat /\ Len(events') = Len(events) + 1
        /\ \A i \in Positions : events'[i] = events[i]
        /\ events'[Len(events) + 1] = m
    BY <1>0, SendEffect
  <2>2. Shape(m)
    BY DEF Shape
  <2>3. \A i \in 1..Len(events') : Shape(events'[i])
    BY <2>1, <2>2 DEF Board, Typed, Positions
  <2> QED
    BY <2>1, <2>3 DEF Board, Typed, Positions, Shape
<1>3. Slots'
  BY DEF Slots
<1>4. NotStale'
  <2>1. \A u \in AllTargets : sent'[u] = IF u = t THEN m.kind ELSE sent[u]
    OBVIOUS
  <2>2. Happened(m)'
    BY <2>1 DEF Happened
  <2>3. ASSUME NEW k \in Current PROVE Happened(k)'
    <3>1. Happened(k) /\ Shape(k)
      BY <2>3 DEF Board, NotStale, Typed, Current
    <3>2. m.kind = "start" => \A u \in AllTargets, o \in {"ok", "fail"} : k.kind = "result" /\ k.arg = <<u, o>> => u # t
      BY <3>1 DEF Happened
    <3> QED
      BY <2>1, <3>1, <3>2 DEF Happened, Shape
  <2>4. ASSUME NEW u \in AllTargets, RowTrue(u) PROVE RowTrue(u)'
    BY <2>1, <2>4 DEF RowTrue
  <2> QED
    BY <1>1, <2>2, <2>3, <2>4 DEF Board, NotStale
<1>5. Fresh0'
  BY DEF Board, Fresh0, NothingYet, Looping, Begun
<1> QED
  BY <1>2, <1>3, <1>4, <1>5 DEF Board

LEMMA TellKeeps ==
    ASSUME Board, NEW t \in AllTargets, SendStart(t) \/ SendResult(t)
    PROVE  Board'
<1>1. /\ UNCHANGED <<status, eng, loop, rows, phase>>
      /\ forever' <=> forever
      /\ over' <=> over
  BY DEF SendStart, SendResult, runVars, otherVars, engVars, boardVars, stageVars
<1>2. eng = "run" /\ phase = "batch" /\ ~over
  BY DEF SendStart, SendResult, SlotTaken, Board, Slots
<1>3. CASE SendStart(t)
  <2>1. PICK m : m = Msg("start", t)
    OBVIOUS
  <2>2. m.kind = "start" /\ m.arg = t
    BY <2>1 DEF Msg
  <2>3. /\ events' = Append(events, m)
        /\ sent' \in [AllTargets -> {"none", "start", "result"}]
        /\ \A u \in AllTargets : sent'[u] = IF u = t THEN m.kind ELSE sent[u]
        /\ sent[t] = "none"
        /\ status[t] = "running"
    BY <1>3, <2>1, <2>2 DEF SendStart, Send, Board, Typed
  <2> QED
    BY <1>1, <1>2, <2>2, <2>3, Telling
<1>4. CASE SendResult(t)
  <2>1. PICK m : m = Msg("result", <<t, status[t]>>)
    OBVIOUS
  <2>2. m.kind = "result" /\ m.arg = <<t, status[t]>>
    BY <2>1 DEF Msg
  <2>3. /\ events' = Append(events, m)
        /\ sent' \in [AllTargets -> {"none", "start", "result"}]
        /\ \A u \in AllTargets : sent'[u] = IF u = t THEN m.kind ELSE sent[u]
        /\ status[t] \in {"ok", "fail"}
    BY <1>4, <2>1, <2>2 DEF SendResult, Send, Board, Typed
  <2> QED
    BY <1>1, <1>2, <2>2, <2>3, Telling
<1> QED
  BY <1>3, <1>4

\* Everybody has let go of the pool when a Run returns.
LEMMA ReturnKeeps == ASSUME Board, ReturnRun PROVE Board'
<1>1. /\ UNCHANGED <<status, sent, rows, events, eng, loop>> /\ (forever' <=> forever)
      /\ \A t \in AllTargets : ~SlotTaken(t)
  BY DEF ReturnRun, Run!Return, otherVars, engVars, boardVars
<1>2. Slots'
  BY <1>1 DEF Slots, SlotTaken
<1>3. NothingYet' => NothingYet
  BY <1>1 DEF NothingYet, Looping, Begun
<1> QED
  BY <1>1, <1>2, <1>3, EngineMoves DEF Board, Typed, Fresh0

-----------------------------------------------------------------------------
(* The engine goroutine.                                                   *)

LEMMA Sending ==
    ASSUME NEW kind \in {"wait", "phase", "batch", "done"}, NEW arg, Send(Msg(kind, arg))
    PROVE  \E m : Courses(m) /\ m.kind = kind /\ m.arg = arg /\ events' = Append(events, m)
<1>1. PICK m : m = Msg(kind, arg)
  OBVIOUS
<1>2. m.kind = kind /\ m.arg = arg
  BY <1>1 DEF Msg
<1>3. Courses(m) /\ events' = Append(events, m)
  BY <1>1, <1>2 DEF Courses, Send
<1> QED
  BY <1>2, <1>3

\* Between Runs nobody holds a slot.
LEMMA NoSlots ==
    ASSUME Slots, eng # "run" \/ phase # "batch" \/ over, UNCHANGED <<status, sent>>
    PROVE  Slots'
BY DEF Slots, SlotTaken

\* The places in the order they are passed.
LEMMA GoesOn ==
    ASSUME Board, NEW to, GoOn(to) \/ \E m : Courses(m) /\ SendAndGo(m, to),
           eng # "run", ~Looping => to # "announce",
           NothingYet' => NothingYet
    PROVE  Board'
<1>1. UNCHANGED <<status, sent, rows, loop>> /\ (forever' <=> forever) /\ eng' = to
  BY DEF GoOn, SendAndGo, jobVars, runVars, boardVars
<1>2. events' = events \/ \E m : Courses(m) /\ events' = Append(events, m)
  BY DEF GoOn, SendAndGo, Send
<1>3. Slots'
  BY <1>1, NoSlots DEF Board
<1>4. loop' \in Nat \ {0}
  BY <1>1 DEF Board, Typed
<1> QED
  BY <1>1, <1>2, <1>3, <1>4, EngineMoves

\* The engine says something and goes on, or only goes on.
EngineGoes(from, to) ==
    eng = from /\ (GoOn(to) \/ \E m : Courses(m) /\ SendAndGo(m, to))

LEMMA Says ==
    ASSUME NEW kind \in {"wait", "phase", "batch", "done"}, NEW arg, NEW to,
           SendAndGo(Msg(kind, arg), to)
    PROVE  \E m : Courses(m) /\ SendAndGo(m, to)
<1>1. PICK m : m = Msg(kind, arg)
  OBVIOUS
<1>2. Courses(m)
  BY <1>1 DEF Msg, Courses
<1> QED
  BY <1>1, <1>2

LEMMA EngineSteps ==
    ASSUME Board,
           AnnounceWait \/ BadStart \/ WaitOver \/ WaitCancelled \/ Top
           \/ AnnouncePre \/ PreStarts \/ PrePasses \/ PreFails
           \/ AnnouncePost \/ PostStarts \/ PostFails \/ Finish
    PROVE  \/ EngineGoes("wait", "waiting") \/ EngineGoes("wait", "finish")
           \/ EngineGoes("waiting", "top") \/ EngineGoes("waiting", "finish")
           \/ EngineGoes("top", "finish")
           \/ EngineGoes("top", "announce") /\ Looping
           \/ \E to \in Begun : EngineGoes("top", to) /\ ~Looping /\ loop <= Loops
           \/ \E from \in Begun, to \in Begun \cup {"finish"} : EngineGoes(from, to)
           \/ \E from \in {"post", "poststart", "postrun"},
                 to \in {"poststart", "postrun", "finish"} : EngineGoes(from, to)
           \/ EngineGoes("finish", "exited")
<1>1. CASE AnnounceWait
  BY <1>1, Says DEF AnnounceWait, EngineGoes
<1>2. CASE BadStart \/ WaitOver \/ WaitCancelled
  BY <1>2 DEF BadStart, WaitOver, WaitCancelled, EngineGoes
<1>3. CASE Top
  <2>1. loop \in Nat /\ Loops \in Nat
    BY WatcherAssumption DEF Board, Typed
  <2>2. CASE interrupted \/ (~forever /\ loop > Loops)
    BY <1>3, <2>2 DEF Top, EngineGoes
  <2>3. CASE ~(interrupted \/ (~forever /\ loop > Loops)) /\ Looping
    BY <1>3, <2>3 DEF Top, EngineGoes
  <2>4. CASE ~(interrupted \/ (~forever /\ loop > Loops)) /\ ~Looping
    <3>1. PICK to \in Begun : GoOn(to)
      BY <1>3, <2>4 DEF Top, Begun
    <3>2. loop <= Loops
      BY <2>1, <2>4 DEF Looping
    <3> QED
      BY <1>3, <2>4, <3>1, <3>2 DEF Top, EngineGoes
  <2> QED
    BY <2>2, <2>3, <2>4
<1>4. CASE AnnouncePre
  BY <1>4, Says DEF AnnouncePre, EngineGoes, Begun
<1>5. CASE PreStarts \/ PrePasses
  BY <1>5 DEF PreStarts, PrePasses, ControlStarts, EngineGoes, Begun
<1>6. CASE PreFails
  BY <1>6, Says DEF PreFails, ControlFails, EngineGoes, Begun
<1>7. CASE AnnouncePost
  BY <1>7, Says DEF AnnouncePost, EngineGoes
<1>8. CASE PostStarts
  BY <1>8 DEF PostStarts, ControlStarts, EngineGoes
<1>9. CASE PostFails
  BY <1>9, Says DEF PostFails, ControlFails, EngineGoes
<1>10. CASE Finish
  <2>1. PICK a : a = total
    OBVIOUS
  <2>2. SendAndGo(Msg("done", a), "exited")
    BY <1>10, <2>1 DEF Finish
  <2> QED
    BY <1>10, <2>2, Says DEF Finish, EngineGoes
<1> QED
  BY <1>1, <1>2, <1>3, <1>4, <1>5, <1>6, <1>7, <1>8, <1>9, <1>10

\* On its way the goroutine comes to a loop that nothing was run of only from
\* the one before, or from no loop at all.
LEMMA ComesToNothing ==
    ASSUME Board,
           AnnounceWait \/ BadStart \/ WaitOver \/ WaitCancelled \/ Top
           \/ AnnouncePre \/ PreStarts \/ PrePasses \/ PreFails
           \/ AnnouncePost \/ PostStarts \/ PostFails \/ Finish
    PROVE  eng' # "run" /\ (NothingYet' => NothingYet)
<1>1. ASSUME NEW from, NEW to, EngineGoes(from, to), to # "run",
             \/ from \in Begun /\ to \in Begun \cup {"finish"}
             \/ to \in Begun => from = "top" /\ ~Looping /\ loop <= Loops,
             to \in {"wait", "waiting", "top"} => from \in {"wait", "waiting"}
      PROVE  eng' # "run" /\ (NothingYet' => NothingYet)
  <2>1. eng = from /\ eng' = to /\ loop' = loop /\ (forever' <=> forever)
    BY <1>1 DEF EngineGoes, GoOn, SendAndGo, jobVars
  <2> QED
    BY <1>1, <2>1 DEF NothingYet, Looping, Begun
<1> QED
  BY <1>1, EngineSteps DEF Begun

LEMMA ComesToNext == ASSUME Board, EndRun \/ PostPasses PROVE eng' # "run" /\ ~NothingYet'
<1>1. /\ (eng' = "post" /\ loop' = loop) \/ (eng' = "top" /\ loop' = NextLoop)
      /\ loop \in Nat \ {0}
  BY DEF EndRun, PostPasses, Board, Typed
<1>2. ~Looping' => Loops = 1
  BY WatcherAssumption DEF Looping
<1>3. ~Looping' /\ eng' = "top" => ~(loop' <= Loops)
  BY <1>1, <1>2 DEF NextLoop
<1> QED
  BY <1>1, <1>3 DEF NothingYet, Begun

LEMMA EngineKeepsBoard == ASSUME Board, Engine PROVE Board'
<1>1. CASE AnnounceWait \/ BadStart \/ WaitOver \/ WaitCancelled \/ Top
           \/ AnnouncePre \/ PreStarts \/ PrePasses \/ PreFails
           \/ AnnouncePost \/ PostStarts \/ PostFails \/ Finish
  <2>1. ASSUME NEW from, NEW to, EngineGoes(from, to),
               from # "run", to = "announce" => Looping,
               NothingYet' => NothingYet
        PROVE  Board'
    BY <2>1, GoesOn DEF EngineGoes
  <2> QED
    BY <1>1, <2>1, EngineSteps, ComesToNothing DEF Begun
<1>2. CASE AnnounceLoop
  <2>0. Channel
    BY DEF Board, Typed
  <2>1. PICK m : m = Msg("loop", loop)
    OBVIOUS
  <2>2. m.kind = "loop" /\ events' = Append(events, m) /\ eng = "announce"
        /\ eng' \in {"pre", "ready"}
    BY <1>2, <2>1 DEF AnnounceLoop, SendAndGo, Send, Msg
  <2>3. UNCHANGED <<status, sent, rows, loop>> /\ (forever' <=> forever)
    BY <1>2 DEF AnnounceLoop, SendAndGo, jobVars, runVars, boardVars
  <2>4. Current' \subseteq {m} /\ ~Quiet("loop")'
    BY <2>0, <2>2, SendCurrent, SendSame
  <2>5. Typed'
    <3>1. /\ Channel' /\ Len(events) \in Nat /\ Len(events') = Len(events) + 1
          /\ \A i \in Positions : events'[i] = events[i]
          /\ events'[Len(events) + 1] = m
      BY <2>0, <2>2, SendEffect
    <3>2. \A i \in 1..Len(events') : Shape(events'[i])
      BY <2>2, <3>1 DEF Board, Typed, Shape, Positions
    <3> QED
      BY <2>3, <3>1, <3>2 DEF Board, Typed, Positions, Shape
  <2>6. Slots'
    BY <2>2, <2>3, NoSlots DEF Board
  <2>7. NotStale'
    BY <2>2, <2>4 DEF NotStale, Happened
  <2>8. Fresh0'
    BY <2>2, <2>4 DEF Fresh0
  <2> QED
    BY <2>5, <2>6, <2>7, <2>8 DEF Board
<1>3. CASE BeginRun
  <2>0. Channel
    BY DEF Board, Typed
  <2>1. PICK m : Courses(m) /\ events' = Append(events, m)
    BY <1>3, Sending DEF BeginRun
  <2>2. /\ eng = "ready" /\ eng' = "run"
        /\ status' = [t \in AllTargets |-> "pending"]
        /\ sent' = [t \in AllTargets |-> "none"]
        /\ UNCHANGED <<rows, loop>> /\ (forever' <=> forever)
    BY <1>3 DEF BeginRun, boardVars
  <2>3. Current' \subseteq Current \cup {m} /\ (Quiet("loop")' <=> Quiet("loop"))
    BY <2>0, <2>1, SendCurrent, SendOther DEF Courses
  <2>4. /\ \A k \in Current : k.kind \notin {"start", "result"}
        /\ Quiet("loop") => rows = Queued
    BY <2>2 DEF Board, Fresh0, NothingYet, Begun
  <2>5. Typed'
    <3>1. /\ Channel' /\ Len(events) \in Nat /\ Len(events') = Len(events) + 1
          /\ \A i \in Positions : events'[i] = events[i]
          /\ events'[Len(events) + 1] = m
      BY <2>0, <2>1, SendEffect
    <3>2. \A i \in 1..Len(events') : Shape(events'[i])
      BY <2>1, <3>1 DEF Board, Typed, Shape, Positions, Courses
    <3> QED
      BY <2>2, <3>1, <3>2 DEF Board, Typed, Positions, Shape
  <2>6. Slots'
    BY <2>2 DEF Slots, SlotTaken
  <2>7. NotStale'
    <3>1. \A k \in Current' : Happened(k)'
      BY <2>1, <2>3, <2>4 DEF Courses, Happened
    <3>2. Quiet("loop")' => \A t \in AllTargets : RowTrue(t)'
      BY <2>2, <2>3, <2>4 DEF RowTrue, Queued
    <3> QED
      BY <3>1, <3>2 DEF NotStale
  <2>8. Fresh0'
    BY <2>2 DEF Fresh0, NothingYet, Begun
  <2> QED
    BY <2>5, <2>6, <2>7, <2>8 DEF Board
<1>4. CASE AnnounceBatch
  <2>1. \E m : Courses(m) /\ events' = Append(events, m)
    <3>1. PICK a : a = batch
      OBVIOUS
    <3>2. Send(Msg("batch", a))
      BY <1>4, <3>1 DEF AnnounceBatch
    <3> QED
      BY <3>2, Sending
  <2>2. UNCHANGED <<status, sent, rows, loop, eng, phase>> /\ (over' <=> over) /\ (forever' <=> forever)
    BY <1>4 DEF AnnounceBatch, runVars, stageVars, engVars, boardVars
  <2>3. eng = "run"
    BY <1>4 DEF AnnounceBatch
  <2>4. Slots'
    BY <2>2 DEF Board, Slots, SlotTaken
  <2>5. NothingYet' => NothingYet
    BY <2>2, <2>3 DEF NothingYet, Begun
  <2> QED
    BY <2>1, <2>2, <2>3, <2>4, <2>5, EngineMoves DEF Board, Typed
<1>5. CASE StageStep
  <2>1. /\ eng = "run" /\ (phase # "batch" \/ over)
        /\ UNCHANGED <<status, sent, rows, loop, eng, events>> /\ (forever' <=> forever)
    BY <1>5 DEF StageStep, Waves!Collect, Waves!GateStart, Waves!HealthPasses, Waves!HealthFails,
       Waves!PauseEnds, Waves!PauseInterrupted, Waves!AfterGate, Waves!NextBatch,
       Waves!runVars, engVars, boardVars
  <2>2. Slots'
    BY <2>1, NoSlots DEF Board
  <2>3. NothingYet' => NothingYet
    BY <2>1 DEF NothingYet, Begun
  <2> QED
    BY <2>1, <2>2, <2>3, EngineMoves DEF Board, Typed
<1>6. CASE EndRun \/ PostPasses
  <2>1. /\ eng \in {"run", "postrun"} /\ (eng # "run" \/ phase # "batch")
        /\ (eng' = "post" /\ loop' = loop) \/ (eng' = "top" /\ loop' = NextLoop)
        /\ UNCHANGED <<status, sent, rows>> /\ (forever' <=> forever)
    <3>1. CASE EndRun
      BY <3>1 DEF EndRun, jobVars, runVars, boardVars
    <3>2. CASE PostPasses
      BY <3>2 DEF PostPasses, jobVars, runVars, boardVars
    <3> QED
      BY <1>6, <3>1, <3>2
  <2>2. events' = events \/ \E m : Courses(m) /\ events' = Append(events, m)
    BY <1>6, Sending DEF EndRun, PostPasses
  <2>3. Slots'
    BY <2>1, NoSlots DEF Board
  <2>4. loop \in Nat \ {0} /\ loop' \in Nat \ {0} /\ (eng' = "top" => loop' = NextLoop)
    BY <2>1 DEF Board, Typed, NextLoop
  <2>5. ~NothingYet'
    BY <1>6, ComesToNext
  <2> QED
    BY <2>1, <2>2, <2>3, <2>4, <2>5, EngineMoves
<1> QED
  BY <1>1, <1>2, <1>3, <1>4, <1>5, <1>6 DEF Engine

-----------------------------------------------------------------------------
(* The Bubble Tea loop.                                                    *)

\* What the message taken does to the rows.
LEMMA ApplyEffect ==
    ASSUME Board, NEW h, Shape(h), Apply(h)
    PROVE  /\ h.kind = "loop" => rows' = Queued
           /\ h.kind = "start" =>
                /\ h.arg \in AllTargets
                /\ \A u \in AllTargets : rows'[u] =
                        IF u = h.arg /\ rows[u] = "queued" THEN "running" ELSE rows[u]
           /\ h.kind = "result" => \E t \in AllTargets, o \in {"ok", "fail"} :
                /\ h.arg = <<t, o>>
                /\ \A u \in AllTargets : rows'[u] = IF u = t THEN o ELSE rows[u]
           /\ Courses(h) => rows' = rows
           /\ rows' \in [AllTargets -> {"queued", "running", "ok", "fail"}]
<1>0. rows \in [AllTargets -> {"queued", "running", "ok", "fail"}]
  BY DEF Board, Typed
<1>1. CASE h.kind = "loop"
  BY <1>1 DEF Apply, ResetForLoop, Queued, Courses
<1>2. CASE h.kind = "start"
  <2>1. PICK t \in AllTargets : t = h.arg
    BY <1>2 DEF Shape
  <2>2. rows' = [rows EXCEPT ![t] = IF @ = "queued" THEN "running" ELSE @]
    BY <1>2, <2>1 DEF Apply, ApplyStart
  <2> QED
    BY <1>0, <1>2, <2>1, <2>2 DEF Courses
<1>3. CASE h.kind = "result"
  <2>1. PICK t \in AllTargets, o \in {"ok", "fail"} : h.arg = <<t, o>>
    BY <1>3 DEF Shape
  <2>2. rows' = [rows EXCEPT ![t] = o]
    BY <1>3, <2>1 DEF Apply, ApplyResult
  <2> QED
    BY <1>0, <1>3, <2>1, <2>2 DEF Courses
<1>4. CASE Courses(h)
  BY <1>0, <1>4 DEF Apply, ApplyLifecycle, Courses
<1> QED
  BY <1>1, <1>2, <1>3, <1>4 DEF Courses

LEMMA UpdateKeepsBoard == ASSUME Board, Update PROVE Board'
<1>1. /\ UNCHANGED <<status, sent, eng, loop, phase>> /\ (forever' <=> forever)
      /\ (over' <=> over)
      /\ events # <<>> /\ events' = Tail(events)
  BY DEF Update, jobVars, runVars, stageVars, engVars
<1>2. PICK h : h = Head(events)
  OBVIOUS
<1>3. /\ Channel' /\ Channel
      /\ Len(events) \in Nat /\ Len(events) >= 1 /\ Len(events') = Len(events) - 1
      /\ \A i \in 1..(Len(events) - 1) : events'[i] = events[i + 1]
      /\ h = events[1]
  BY <1>1, <1>2, TakeEffect DEF Board, Typed
<1>4. Shape(h)
  BY <1>3 DEF Board, Typed, Positions
<1>5. Apply(h)
  BY <1>2 DEF Update
<1>6. /\ Current' \subseteq Current
      /\ Quiet("loop")' => h \in Current
  BY <1>1, <1>2, <1>3, TakeCurrent
<1>7. Quiet("loop")' /\ h.kind # "loop" => Quiet("loop")
  BY <1>1, <1>2, <1>3, TakeAny
<1>8. Typed'
  <2>1. \A i \in 1..Len(events') : Shape(events'[i])
    BY <1>3 DEF Board, Typed, Positions
  <2>2. rows' \in [AllTargets -> {"queued", "running", "ok", "fail"}]
    BY <1>4, <1>5, ApplyEffect
  <2> QED
    BY <1>1, <1>3, <2>1, <2>2 DEF Board, Typed, Positions, Shape
<1>9. Slots'
  BY <1>1 DEF Board, Slots, SlotTaken
<1>10. NotStale'
  <2>1. \A m \in Current' : Happened(m)'
    BY <1>1, <1>6 DEF Board, NotStale, Happened
  <2>2. ASSUME Quiet("loop")', NEW t \in AllTargets PROVE RowTrue(t)'
    <3>1. h \in Current /\ Happened(h)
      BY <1>6, <2>2 DEF Board, NotStale
    <3>2. CASE h.kind = "loop"
      BY <1>4, <1>5, <3>2, ApplyEffect DEF RowTrue, Queued
    <3>3. CASE h.kind # "loop"
      <4>1. RowTrue(t)
        BY <1>7, <2>2, <3>3 DEF Board, NotStale
      <4>2. CASE h.kind = "start"
        BY <1>1, <1>4, <1>5, <3>1, <4>1, <4>2, ApplyEffect DEF RowTrue, Happened
      <4>3. CASE h.kind = "result"
        <5>1. PICK u \in AllTargets, o \in {"ok", "fail"} :
                  /\ h.arg = <<u, o>>
                  /\ \A v \in AllTargets : rows'[v] = IF v = u THEN o ELSE rows[v]
          BY <1>4, <1>5, <4>3, ApplyEffect
        <5>2. status[u] = o /\ sent[u] = "result"
          BY <3>1, <4>3, <5>1 DEF Happened
        <5> QED
          BY <1>1, <4>1, <5>1, <5>2 DEF RowTrue
      <4>4. CASE Courses(h)
        <5>1. rows' = rows
          BY <1>4, <1>5, <4>4, ApplyEffect
        <5> QED
          BY <1>1, <4>1, <5>1 DEF RowTrue
      <4> QED
        BY <3>3, <4>2, <4>3, <4>4 DEF Courses
    <3> QED
      BY <3>2, <3>3
  <2> QED
    BY <2>1, <2>2 DEF NotStale
<1>11. Fresh0'
  <2>1. (NothingYet' <=> NothingYet) /\ (~Looping' <=> ~Looping)
    BY <1>1 DEF NothingYet, Looping
  <2>2. ASSUME NothingYet PROVE \A m \in Current' : m.kind \notin {"start", "result"}
    BY <1>6, <2>2 DEF Board, Fresh0
  <2>3. ASSUME NothingYet, Quiet("loop")' PROVE rows' = Queued
    <3>1. h.kind \notin {"start", "result"}
      BY <1>6, <2>3 DEF Board, Fresh0
    <3>2. CASE h.kind = "loop"
      BY <1>4, <1>5, <3>2, ApplyEffect
    <3>3. CASE h.kind # "loop"
      <4>1. rows = Queued
        BY <1>7, <2>3, <3>3 DEF Board, Fresh0
      <4>2. rows' = rows
        BY <1>4, <1>5, <3>1, <3>3, ApplyEffect DEF Courses
      <4> QED
        BY <4>1, <4>2
    <3> QED
      BY <3>2, <3>3
  <2>4. (~Looping => eng # "announce") /\ eng' = eng /\ Queued' = Queued
    BY <1>1 DEF Board, Fresh0, Queued
  <2> QED
    BY <2>1, <2>2, <2>3, <2>4 DEF Fresh0
<1> QED
  BY <1>8, <1>9, <1>10, <1>11 DEF Board

\* Nothing the board rests on is touched.
LEMMA BoardStutters ==
    ASSUME Board, UNCHANGED <<status, sent, events, eng, loop, rows, phase>>,
           over' <=> over, forever' <=> forever
    PROVE  Board'
<1>1. Slots'
  BY DEF Board, Slots, SlotTaken
<1>2. NothingYet' => NothingYet
  BY DEF NothingYet, Looping
<1> QED
  BY <1>1, <1>2, EngineMoves DEF Board, Typed, Fresh0

LEMMA BoardStep == ASSUME Board, [Next]_vars PROVE Board'
<1>1. CASE Engine
  BY <1>1, EngineKeepsBoard
<1>2. CASE Workers
  BY <1>2, WorkerKeeps, TellKeeps, ReturnKeeps DEF Workers
<1>3. CASE Update
  BY <1>3, UpdateKeepsBoard
<1>4. CASE KeyQuit
  BY <1>4, BoardStutters DEF KeyQuit, boardVars, engVars, stageVars
<1>5. CASE UNCHANGED vars
  BY <1>5, BoardStutters DEF vars, jobVars, runVars, stageVars, boardVars, engVars
<1> QED
  BY <1>1, <1>2, <1>3, <1>4, <1>5 DEF Next, Exited

LEMMA BoardBegins == Init => Board
<1> SUFFICES ASSUME Init PROVE Board
  OBVIOUS
<1>1. /\ events = <<>> /\ rows = Queued /\ loop = 1
      /\ sent = [t \in AllTargets |-> "none"]
      /\ status = [t \in AllTargets |-> "pending"]
      /\ eng \in {"wait", "top"}
  BY DEF Init, Run!Init, AllTargets
<1>2. Positions = {} /\ Channel
  BY <1>1 DEF Positions, Channel
<1>3. Typed
  BY <1>1, <1>2 DEF Typed, Queued
<1>4. Slots
  BY <1>1 DEF Slots, SlotTaken
<1>5. NotStale
  BY <1>1, <1>2 DEF NotStale, Current, RowTrue, Queued
<1>6. Fresh0
  BY <1>1, <1>2 DEF Fresh0, Current
<1> QED
  BY <1>3, <1>4, <1>5, <1>6 DEF Board

LEMMA BoardHolds == Spec => []Board
<1>1. Board /\ [Next]_vars => Board'
  BY BoardStep
<1> QED
  BY <1>1, BoardBegins, PTL DEF Spec

\* While the engine runs the loop that the board shows, a row says only what has
\* happened to its target in that loop, whatever is still in the channel
\* (watcher.go's loopMsg and resetForLoop against the workers' events).
THEOREM RowsAreOfThisLoop == Spec => []BoardIsNotStale
<1>1. ASSUME Board PROVE BoardIsNotStale
  <2>1. Len(events) \in Nat /\ DOMAIN events = Positions
    BY <1>1 DEF Board, Typed, Channel, Positions
  <2>2. Pending("loop") = {} => Quiet("loop")
    BY <2>1 DEF Pending, Quiet, Kind
  <2> QED
    BY <1>1, <2>2 DEF BoardIsNotStale, Board, NotStale, RowTrue
<1> QED
  BY <1>1, BoardHolds, PTL

-----------------------------------------------------------------------------
(* How a job comes to its end.                                             *)

\* What the header and the phase line say, or will say once the messages under
\* way are taken.
ShowsLoop(n) == Latest("loop", n) \/ (Quiet("loop") /\ loopNum = n)
ShowsNote(s) == Latest("phase", s) \/ (Quiet("phase") /\ note = s)

Before == {"wait", "waiting", "top", "announce"}
Ending == {"finish", "exited"}

\* The loop that the header is due to say.
Due == IF ~Looping THEN 0 ELSE IF eng \in Before THEN loop - 1 ELSE loop

\* Why the engine goroutine leaves its loop.
Earned ==
    \/ ~forever /\ loop > Loops /\ \E x : x = (IF Looping THEN Loops ELSE 0) /\ ShowsLoop(x)
    \/ HasWait /\ ShowsLoop(0) /\ all = <<>>
    \/ ShowsNote("preFailed") \/ ShowsNote("postFailed")

Along ==
    /\ eng \in {"wait", "waiting"} => HasWait /\ all = <<>> /\ loop = 1 /\ ShowsLoop(0)
    /\ ~forever /\ eng \notin Ending =>
        /\ \E x : x = Due /\ ShowsLoop(x)
        /\ loop <= Loops \/ (eng = "top" /\ loop = Loops + 1)
    /\ eng \in Ending => interrupted \/ Earned

\* doneMsg is the last message of all.
DoneLast ==
    /\ \A i \in Positions : Kind(i) = "done" => i = Len(events) /\ eng = "exited"
    /\ finished => eng = "exited" /\ events = <<>>

Course == (~quit => ~interrupted) /\ DoneLast /\ Along

\* What the board is due to say of the loop, or of the phase, is settled by
\* messages of that kind alone.
LEMMA ShowsStay ==
    ASSUME Channel, UNCHANGED <<loopNum, note>>
    PROVE  /\ events' = events \/ (\E m : m.kind # "loop" /\ events' = Append(events, m))
                => \A x : ShowsLoop(x) => ShowsLoop(x)'
           /\ events' = events \/ (\E m : m.kind # "phase" /\ events' = Append(events, m))
                => \A s : ShowsNote(s) => ShowsNote(s)'
<1>1. CASE events' = events
  BY <1>1 DEF ShowsLoop, ShowsNote, Latest, Quiet, Positions, Kind
<1>2. ASSUME NEW m, events' = Append(events, m), NEW kind, m.kind # kind
      PROVE  (Quiet(kind)' <=> Quiet(kind)) /\ (\A x : Latest(kind, x)' <=> Latest(kind, x))
  BY <1>2, SendOther
<1>3. ASSUME NEW m, m.kind # "loop", events' = Append(events, m)
      PROVE  \A x : ShowsLoop(x) => ShowsLoop(x)'
  BY <1>2, <1>3 DEF ShowsLoop
<1>4. ASSUME NEW m, m.kind # "phase", events' = Append(events, m)
      PROVE  \A s : ShowsNote(s) => ShowsNote(s)'
  BY <1>2, <1>4 DEF ShowsNote
<1> QED
  BY <1>1, <1>3, <1>4

\* Until doneMsg is sent, anybody may send.
LEMMA DoneStaysLast ==
    ASSUME Board, Course, eng # "exited", finished' <=> finished,
           events' = events \/ \E m : m.kind # "done" /\ events' = Append(events, m)
    PROVE  DoneLast'
<1>1. ~finished' /\ \A i \in Positions : Kind(i) # "done"
  BY DEF Course, DoneLast
<1>2. CASE events' = events
  BY <1>1, <1>2 DEF DoneLast, Positions, Kind
<1>3. ASSUME NEW m, m.kind # "done", events' = Append(events, m) PROVE DoneLast'
  <2>1. /\ Len(events) \in Nat /\ Len(events') = Len(events) + 1
        /\ \A i \in Positions : events'[i] = events[i]
        /\ events'[Len(events) + 1] = m
    BY <1>3, SendEffect DEF Board, Typed
  <2>2. \A i \in 1..Len(events') : events'[i].kind # "done"
    BY <1>1, <1>3, <2>1 DEF Positions, Kind
  <2> QED
    BY <1>1, <2>2 DEF DoneLast, Positions, Kind
<1> QED
  BY <1>2, <1>3

\* A step of the job while the goroutine stays where it is.
LEMMA CourseStands ==
    ASSUME Board, Course, eng \notin Ending,
           UNCHANGED <<eng, loop, loopNum, note>>,
           forever' <=> forever, finished' <=> finished,
           quit' <=> quit, interrupted' <=> interrupted,
           events' = events \/ \E m : m.kind \in {"start", "result", "batch"} /\ events' = Append(events, m),
           eng \in {"wait", "waiting"} => all' = all
    PROVE  Course'
<1>1. \A x : ShowsLoop(x) => ShowsLoop(x)'
  BY ShowsStay DEF Board, Typed
<1>2. DoneLast'
  BY DoneStaysLast DEF Ending
<1>3. Due' = Due
  BY DEF Due, Looping
<1>4. Along'
  BY <1>1, <1>3 DEF Course, Along
<1> QED
  BY <1>2, <1>4 DEF Course

\* The goroutine goes from one place to the next, and says so or not.
LEMMA CourseGoes ==
    ASSUME Board, Course, eng \notin Ending, eng' # "exited",
           UNCHANGED <<loopNum, note>>,
           forever' <=> forever, finished' <=> finished,
           quit' <=> quit, interrupted' <=> interrupted,
           events' = events \/ \E m : Courses(m) /\ m.kind # "done" /\ events' = Append(events, m)
    PROVE  /\ \A x : ShowsLoop(x) => ShowsLoop(x)'
           /\ Along' => Course'
<1>1. \A x : ShowsLoop(x) => ShowsLoop(x)'
  BY ShowsStay DEF Board, Typed, Courses
<1>2. DoneLast'
  BY DoneStaysLast DEF Ending
<1> QED
  BY <1>1, <1>2 DEF Course

\* What all steps of the engine goroutine leave alone.
LEMMA EngineLeaves ==
    ASSUME Engine
    PROVE  /\ UNCHANGED <<loopNum, note>>
           /\ (forever' <=> forever) /\ (finished' <=> finished)
           /\ (quit' <=> quit) /\ (interrupted' <=> interrupted)
<1>1. CASE AnnounceWait \/ BadStart \/ WaitOver \/ WaitCancelled \/ Top \/ AnnounceLoop
  BY <1>1 DEF AnnounceWait, BadStart, WaitOver, WaitCancelled, Top, AnnounceLoop,
     GoOn, SendAndGo, jobVars, runVars, boardVars
<1>2. CASE AnnouncePre \/ PreStarts \/ PrePasses \/ PreFails
           \/ AnnouncePost \/ PostStarts \/ PostFails \/ Finish
  BY <1>2 DEF AnnouncePre, PreStarts, PrePasses, PreFails, AnnouncePost, PostStarts, PostFails,
     Finish, ControlStarts, GoOn, SendAndGo, jobVars, runVars, boardVars
<1>3. CASE BeginRun \/ AnnounceBatch \/ EndRun \/ PostPasses
  BY <1>3 DEF BeginRun, AnnounceBatch, EndRun, PostPasses, jobVars, runVars, boardVars
<1>4. CASE StageStep
  BY <1>4 DEF StageStep, Waves!Collect, Waves!GateStart, Waves!HealthPasses, Waves!HealthFails,
     Waves!PauseEnds, Waves!PauseInterrupted, Waves!AfterGate, Waves!NextBatch,
     Waves!runVars, boardVars
<1> QED
  BY <1>1, <1>2, <1>3, <1>4 DEF Engine

\* The wait for the start time: over, cancelled, or refused.
LEMMA WaitKeepsCourse ==
    ASSUME Board, Course, AnnounceWait \/ BadStart \/ WaitOver \/ WaitCancelled
    PROVE  Course'
<1>0. Engine
  BY DEF Engine
<1>1. /\ eng \in {"wait", "waiting"} /\ eng' \in {"waiting", "top", "finish"}
      /\ UNCHANGED <<loop, all>>
      /\ eng' = "finish" => eng = "wait" \/ interrupted
      /\ events' = events \/ \E m : Courses(m) /\ m.kind # "done" /\ events' = Append(events, m)
  <2>1. CASE AnnounceWait
    <3>1. PICK m : m = Msg("wait", "none")
      OBVIOUS
    <3>2. Courses(m) /\ m.kind # "done"
      BY <3>1 DEF Msg, Courses
    <3> QED
      BY <2>1, <3>1, <3>2 DEF AnnounceWait, SendAndGo, Send, jobVars, stageVars
  <2>2. CASE BadStart \/ WaitOver \/ WaitCancelled
    BY <2>2 DEF BadStart, WaitOver, WaitCancelled, GoOn, jobVars, stageVars
  <2> QED
    BY <2>1, <2>2
<1>2. (\A x : ShowsLoop(x) => ShowsLoop(x)') /\ (Along' => Course')
  BY <1>0, <1>1, EngineLeaves, CourseGoes DEF Ending
<1>3. HasWait /\ all = <<>> /\ loop = 1 /\ ShowsLoop(0)
  BY <1>1 DEF Course, Along
<1>4. ShowsLoop(0)'
  BY <1>2, <1>3
<1>5. CASE eng' = "finish"
  BY <1>0, <1>1, <1>2, <1>3, <1>4, <1>5, EngineLeaves DEF Along, Earned, Ending
<1>6. CASE eng' # "finish"
  <2>1. Due' = 0
    BY <1>1, <1>3, <1>6 DEF Due, Before
  <2> QED
    BY <1>1, <1>2, <1>3, <1>4, <1>6, <2>1, WatcherAssumption DEF Along, Ending
<1> QED
  BY <1>2, <1>5, <1>6 DEF Along

\* The head of the loop.
LEMMA TopKeepsCourse == ASSUME Board, Course, Top PROVE Course'
<1>0. Engine
  BY DEF Engine
<1>1. /\ eng = "top" /\ UNCHANGED <<loop, events>>
      /\ \/ eng' = "finish" /\ (interrupted \/ (~forever /\ loop > Loops))
         \/ eng' = "announce" /\ Looping /\ (forever \/ ~(loop > Loops))
         \/ eng' \in {"pre", "ready"} /\ ~Looping /\ (forever \/ ~(loop > Loops))
  BY DEF Top, GoOn
<1>2. (\A x : ShowsLoop(x) => ShowsLoop(x)') /\ (Along' => Course')
  BY <1>0, <1>1, EngineLeaves, CourseGoes DEF Ending
<1>3. loop \in Nat /\ Loops \in Nat
  BY WatcherAssumption DEF Board, Typed
<1>4. (forever' <=> forever) /\ (interrupted' <=> interrupted) /\ (Looping' <=> Looping)
  BY <1>0, EngineLeaves DEF Looping
<1>5. CASE forever
  BY <1>1, <1>2, <1>4, <1>5 DEF Along, Ending
<1>6. CASE ~forever
  <2>1. PICK x : x = Due /\ ShowsLoop(x)
    BY <1>1, <1>6 DEF Course, Along, Ending
  <2>2. loop <= Loops \/ loop = Loops + 1
    BY <1>1, <1>6 DEF Course, Along, Ending
  <2>3. ShowsLoop(x)'
    BY <1>2, <2>1
  <2>4. CASE eng' = "finish" /\ interrupted
    BY <1>2, <1>4, <2>4 DEF Along, Ending
  <2>5. CASE eng' = "finish" /\ ~interrupted
    <3>1. loop = Loops + 1
      BY <1>1, <1>3, <2>2, <2>5
    <3>2. x = IF Looping THEN Loops ELSE 0
      BY <1>1, <1>3, <2>1, <3>1 DEF Due, Before
    <3>3. loop' > Loops
      BY <1>1, <1>3, <3>1
    <3>4. Earned'
      BY <1>4, <1>6, <2>3, <3>2, <3>3 DEF Earned
    <3> QED
      BY <1>2, <2>5, <3>4 DEF Along, Ending
  <2>6. CASE eng' # "finish"
    <3>1. loop' <= Loops
      BY <1>1, <1>3, <1>6, <2>6
    <3>2. x = Due'
      BY <1>1, <1>4, <2>1, <2>6 DEF Due, Before
    <3> QED
      BY <1>1, <1>2, <2>3, <2>6, <3>1, <3>2 DEF Along, Ending
  <2> QED
    BY <1>2, <2>4, <2>5, <2>6
<1> QED
  BY <1>2, <1>5, <1>6

LEMMA AnnounceLoopKeepsCourse == ASSUME Board, Course, AnnounceLoop PROVE Course'
<1>0. Engine /\ Channel
  BY DEF Engine, Board, Typed
<1>1. PICK m : m = Msg("loop", loop)
  OBVIOUS
<1>2. /\ m.kind = "loop" /\ m.arg = loop /\ events' = Append(events, m)
      /\ eng = "announce" /\ eng' \in {"pre", "ready"} /\ loop' = loop
  BY <1>1 DEF AnnounceLoop, SendAndGo, Send, Msg
<1>3. /\ (forever' <=> forever) /\ (interrupted' <=> interrupted) /\ (quit' <=> quit)
      /\ (finished' <=> finished)
  BY <1>0, EngineLeaves
<1>4. Looping /\ Looping'
  BY <1>2, <1>3 DEF Board, Fresh0, Looping
<1>5. PICK n : n = loop
  OBVIOUS
<1>6. Latest("loop", n)'
  BY <1>0, <1>2, <1>5, SendSame
<1>7. n = Due' /\ ShowsLoop(n)'
  BY <1>2, <1>4, <1>5, <1>6 DEF Due, Before, ShowsLoop
<1>8. ~forever => loop' <= Loops
  BY <1>2 DEF Course, Along, Ending
<1>9. Along'
  BY <1>2, <1>7, <1>8, <1>3 DEF Along, Ending
<1>10. DoneLast'
  BY <1>2, <1>3, DoneStaysLast
<1> QED
  BY <1>3, <1>9, <1>10 DEF Course

\* The body of the loop, up to its end.
LEMMA BodyKeepsCourse ==
    ASSUME Board, Course,
           AnnouncePre \/ PreStarts \/ PrePasses \/ BeginRun \/ AnnouncePost \/ PostStarts
    PROVE  Course'
<1>0. Engine
  BY DEF Engine
<1>1. /\ eng \notin Before \cup Ending /\ eng' \notin Before \cup Ending
      /\ loop' = loop
      /\ events' = events \/ \E m : Courses(m) /\ m.kind # "done" /\ events' = Append(events, m)
  <2>1. CASE AnnouncePre \/ AnnouncePost \/ BeginRun
    <3>1. PICK a \in {"pre", "post", "none"} : Send(Msg("phase", a))
      BY <2>1 DEF AnnouncePre, AnnouncePost, BeginRun, SendAndGo
    <3>2. PICK m : m = Msg("phase", a)
      OBVIOUS
    <3>3. Courses(m) /\ m.kind # "done" /\ events' = Append(events, m)
      BY <3>1, <3>2 DEF Msg, Courses, Send
    <3> QED
      BY <2>1, <3>3 DEF AnnouncePre, AnnouncePost, BeginRun, SendAndGo, Before, Ending
  <2>2. CASE PreStarts \/ PrePasses \/ PostStarts
    BY <2>2 DEF PreStarts, PrePasses, PostStarts, ControlStarts, GoOn, Before, Ending
  <2> QED
    BY <2>1, <2>2
<1>2. (\A x : ShowsLoop(x) => ShowsLoop(x)') /\ (Along' => Course')
  BY <1>0, <1>1, EngineLeaves, CourseGoes DEF Ending
<1>3. Due' = Due /\ (forever' <=> forever)
  BY <1>0, <1>1, EngineLeaves DEF Due, Looping
<1>4. Along'
  BY <1>1, <1>2, <1>3 DEF Course, Along, Before, Ending
<1> QED
  BY <1>2, <1>4

\* A failed control command leaves its note.
LEMMA FailureKeepsCourse == ASSUME Board, Course, PreFails \/ PostFails PROVE Course'
<1>0. Engine /\ Channel
  BY DEF Engine, Board, Typed
<1>1. PICK s \in {"preFailed", "postFailed"} : SendAndGo(Msg("phase", s), "finish")
  BY DEF PreFails, PostFails
<1>2. PICK m : m = Msg("phase", s)
  OBVIOUS
<1>3. Courses(m) /\ m.kind = "phase" /\ m.arg = s /\ events' = Append(events, m) /\ eng' = "finish"
  BY <1>1, <1>2 DEF SendAndGo, Send, Msg, Courses
<1>4. eng \notin Ending
  BY DEF PreFails, PostFails, ControlFails, Ending
<1>5. Along' => Course'
  BY <1>0, <1>3, <1>4, EngineLeaves, CourseGoes
<1>6. Latest("phase", s)'
  BY <1>0, <1>3, SendSame
<1>7. Along'
  BY <1>3, <1>6 DEF Along, Earned, ShowsNote, Ending
<1> QED
  BY <1>5, <1>7

\* The end of a loop's body: its post-command, or the next loop.
LEMMA EndKeepsCourse == ASSUME Board, Course, EndRun \/ PostPasses PROVE Course'
<1>0. Engine
  BY DEF Engine
<1>1. /\ eng \in {"run", "postrun"}
      /\ (eng' = "post" /\ loop' = loop) \/ (eng' = "top" /\ loop' = NextLoop)
      /\ events' = events \/ \E m : Courses(m) /\ m.kind # "done" /\ events' = Append(events, m)
  <2>1. CASE EndRun
    BY <2>1 DEF EndRun
  <2>2. CASE PostPasses
    <3>1. PICK m : m = Msg("phase", "none")
      OBVIOUS
    <3>2. Courses(m) /\ m.kind # "done"
      BY <3>1 DEF Msg, Courses
    <3> QED
      BY <2>2, <3>1, <3>2 DEF PostPasses, Send
  <2> QED
    BY <2>1, <2>2
<1>2. (\A x : ShowsLoop(x) => ShowsLoop(x)') /\ (Along' => Course')
  BY <1>0, <1>1, EngineLeaves, CourseGoes DEF Ending
<1>3. (forever' <=> forever) /\ (Looping' <=> Looping)
  BY <1>0, EngineLeaves DEF Looping
<1>4. loop \in Nat /\ Loops \in Nat
  BY WatcherAssumption DEF Board, Typed
<1>5. CASE forever
  BY <1>1, <1>2, <1>3, <1>5 DEF Along, Ending
<1>6. CASE ~forever
  <2>1. PICK x : x = Due /\ ShowsLoop(x)
    BY <1>1, <1>6 DEF Course, Along, Ending
  <2>2. loop <= Loops
    BY <1>1, <1>6 DEF Course, Along, Ending
  <2>3. x = Due' /\ (loop' <= Loops \/ (eng' = "top" /\ loop' = Loops + 1))
    <3>1. CASE eng' = "post" /\ loop' = loop
      BY <1>1, <1>3, <2>1, <2>2, <3>1 DEF Due, Before
    <3>2. CASE eng' = "top" /\ loop' = NextLoop
      <4>1. loop' = loop + 1
        BY <1>4, <2>2, <3>2 DEF NextLoop
      <4>2. x = Due'
        BY <1>1, <1>3, <1>4, <2>1, <3>2, <4>1 DEF Due, Before
      <4> QED
        BY <1>4, <2>2, <3>2, <4>1, <4>2
    <3> QED
      BY <1>1, <3>1, <3>2
  <2>4. ShowsLoop(x)'
    BY <1>2, <2>1
  <2> QED
    BY <1>1, <1>2, <2>3, <2>4 DEF Along, Ending
<1> QED
  BY <1>2, <1>5, <1>6

LEMMA FinishKeepsCourse == ASSUME Board, Course, Finish PROVE Course'
<1>0. Engine /\ Channel
  BY DEF Engine, Board, Typed
<1>1. PICK m : m = Msg("done", total)
  OBVIOUS
<1>2. /\ m.kind = "done" /\ events' = Append(events, m)
      /\ eng = "finish" /\ eng' = "exited" /\ UNCHANGED <<loop, all>>
  BY <1>1 DEF Finish, SendAndGo, Send, Msg, jobVars, stageVars
<1>3. /\ UNCHANGED <<loopNum, note>> /\ (forever' <=> forever) /\ (finished' <=> finished)
      /\ (quit' <=> quit) /\ (interrupted' <=> interrupted)
  BY <1>0, EngineLeaves
<1>4. (\A x : ShowsLoop(x) => ShowsLoop(x)') /\ (\A x : ShowsNote(x) => ShowsNote(x)')
  BY <1>0, <1>2, <1>3, ShowsStay
<1>5. Earned => Earned'
  BY <1>2, <1>3, <1>4 DEF Earned, Looping
<1>6. Along'
  BY <1>2, <1>3, <1>5 DEF Course, Along, Ending
<1>7. DoneLast'
  <2>1. /\ Len(events) \in Nat /\ Len(events') = Len(events) + 1
        /\ \A i \in Positions : events'[i] = events[i]
    BY <1>0, <1>2, SendEffect
  <2>2. ~finished /\ \A i \in Positions : Kind(i) # "done"
    BY <1>2 DEF Course, DoneLast
  <2>3. \A i \in 1..Len(events') : events'[i].kind = "done" => i = Len(events')
    BY <2>1, <2>2 DEF Positions, Kind
  <2> QED
    BY <1>2, <1>3, <2>2, <2>3 DEF DoneLast, Positions, Kind
<1> QED
  BY <1>3, <1>6, <1>7 DEF Course

LEMMA EngineKeepsCourse == ASSUME Board, Course, Engine PROVE Course'
<1>1. CASE AnnounceBatch \/ StageStep
  <2>1. /\ eng = "run" /\ eng' = eng /\ loop' = loop
        /\ events' = events \/ \E m : m.kind \in {"start", "result", "batch"} /\ events' = Append(events, m)
    <3>1. CASE AnnounceBatch
      <4>1. PICK m : m = Msg("batch", batch)
        OBVIOUS
      <4>2. m.kind = "batch" /\ events' = Append(events, m)
        BY <3>1, <4>1 DEF AnnounceBatch, Send, Msg
      <4> QED
        BY <3>1, <4>2 DEF AnnounceBatch, engVars
    <3>2. CASE StageStep
      BY <3>2 DEF StageStep, engVars
    <3> QED
      BY <1>1, <3>1, <3>2
  <2> QED
    BY <2>1, EngineLeaves, CourseStands DEF Ending
<1> QED
  BY <1>1, WaitKeepsCourse, TopKeepsCourse, AnnounceLoopKeepsCourse, BodyKeepsCourse,
     FailureKeepsCourse, EndKeepsCourse, FinishKeepsCourse DEF Engine

LEMMA WorkersKeepCourse == ASSUME Board, Course, Workers PROVE Course'
<1>1. ASSUME NEW t \in AllTargets,
             \/ StartTarget(t) \/ SkipOne(t) \/ \E o \in {"ok", "fail"} : EndTarget(t, o)
      PROVE  Course'
  <2>1. /\ eng = "run" /\ UNCHANGED <<eng, loop, loopNum, note, events, all>>
        /\ (forever' <=> forever) /\ (finished' <=> finished) /\ (quit' <=> quit)
        /\ (interrupted' <=> interrupted)
    BY <1>1 DEF StartTarget, SkipOne, EndTarget, Run!Start, Run!SkipTarget, Run!Finish,
       Underway, otherVars, stageVars, engVars, boardVars
  <2> QED
    BY <2>1, CourseStands DEF Ending
<1>2. ASSUME NEW t \in AllTargets, SendStart(t) \/ SendResult(t) PROVE Course'
  <2>1. /\ UNCHANGED <<eng, loop, loopNum, note, all>>
        /\ (forever' <=> forever) /\ (finished' <=> finished) /\ (quit' <=> quit)
        /\ (interrupted' <=> interrupted)
    BY <1>2 DEF SendStart, SendResult, runVars, otherVars, stageVars, engVars, boardVars
  <2>2. eng = "run"
    BY <1>2 DEF SendStart, SendResult, SlotTaken, Board, Slots
  <2>3. \E m : m.kind \in {"start", "result", "batch"} /\ events' = Append(events, m)
    <3>1. CASE SendStart(t)
      <4>1. PICK m : m = Msg("start", t)
        OBVIOUS
      <4> QED
        BY <3>1, <4>1 DEF SendStart, Send, Msg
    <3>2. CASE SendResult(t)
      <4>1. PICK m : m = Msg("result", <<t, status[t]>>)
        OBVIOUS
      <4> QED
        BY <3>2, <4>1 DEF SendResult, Send, Msg
    <3> QED
      BY <1>2, <3>1, <3>2
  <2> QED
    BY <2>1, <2>2, <2>3, CourseStands DEF Ending
<1>3. CASE ReturnRun
  <2>1. /\ eng = "run" /\ UNCHANGED <<eng, loop, loopNum, note, events, all>>
        /\ (forever' <=> forever) /\ (finished' <=> finished) /\ (quit' <=> quit)
        /\ (interrupted' <=> interrupted)
    BY <1>3 DEF ReturnRun, Run!Return, Underway, otherVars, stageVars, engVars, boardVars
  <2> QED
    BY <2>1, CourseStands DEF Ending
<1> QED
  BY <1>1, <1>2, <1>3 DEF Workers

\* What the board is due to say, it says once the message is taken.
LEMMA TakeShows ==
    ASSUME Board, NEW h, h = Head(events), events # <<>>, events' = Tail(events), Apply(h)
    PROVE  /\ \A x : ShowsLoop(x) => ShowsLoop(x)'
           /\ \A s : ShowsNote(s) => ShowsNote(s)'
           /\ finished' <=> (finished \/ h.kind = "done")
<1>1. /\ loopNum' = IF h.kind = "loop" THEN h.arg ELSE loopNum
      /\ note' = IF h.kind = "phase" THEN h.arg ELSE note
      /\ finished' <=> (finished \/ h.kind = "done")
  <2>1. CASE h.kind = "loop"
    BY <2>1 DEF Apply, ResetForLoop
  <2>2. CASE h.kind = "start"
    BY <2>2 DEF Apply, ApplyStart
  <2>3. CASE h.kind = "result"
    BY <2>3 DEF Apply, ApplyResult
  <2>4. CASE Courses(h)
    BY <2>4 DEF Apply, ApplyLifecycle, Courses
  <2> QED
    BY <2>1, <2>2, <2>3, <2>4 DEF Courses
<1>2. ASSUME NEW kind
      PROVE  /\ h.kind # kind =>
                  /\ Quiet(kind)' <=> Quiet(kind)
                  /\ \A x : Latest(kind, x) => Latest(kind, x)'
             /\ h.kind = kind =>
                  /\ ~Quiet(kind)
                  /\ \A x : Latest(kind, x) => Latest(kind, x)' \/ (Quiet(kind)' /\ h.arg = x)
  BY TakeAny DEF Board, Typed
<1>3. \A x : ShowsLoop(x) => ShowsLoop(x)'
  BY <1>1, <1>2 DEF ShowsLoop
<1>4. \A s : ShowsNote(s) => ShowsNote(s)'
  BY <1>1, <1>2 DEF ShowsNote
<1> QED
  BY <1>1, <1>3, <1>4

LEMMA UpdateKeepsCourse == ASSUME Board, Course, Update PROVE Course'
<1>1. /\ UNCHANGED <<eng, loop, all>> /\ (forever' <=> forever) /\ (quit' <=> quit)
      /\ (interrupted' <=> interrupted) /\ ~finished
      /\ events # <<>> /\ events' = Tail(events)
  BY DEF Update, jobVars, runVars, stageVars, engVars
<1>2. PICK h : h = Head(events)
  OBVIOUS
<1>3. Apply(h)
  BY <1>2 DEF Update
<1>4. /\ \A x : ShowsLoop(x) => ShowsLoop(x)'
      /\ \A s : ShowsNote(s) => ShowsNote(s)'
      /\ finished' <=> (finished \/ h.kind = "done")
  BY <1>1, <1>2, <1>3, TakeShows
<1>5. /\ Len(events) \in Nat /\ Len(events) >= 1 /\ Len(events') = Len(events) - 1
      /\ \A i \in 1..(Len(events) - 1) : events'[i] = events[i + 1]
      /\ h = events[1] /\ Channel'
  BY <1>1, <1>2, TakeEffect DEF Board, Typed
<1>6. DoneLast'
  <2>1. \A i \in 1..Len(events) : events[i].kind = "done" => i = Len(events) /\ eng = "exited"
    BY DEF Course, DoneLast, Positions, Kind
  <2>2. ASSUME NEW i \in 1..Len(events'), events'[i].kind = "done"
        PROVE  i = Len(events') /\ eng = "exited"
    <3>1. i + 1 \in 1..Len(events) /\ events[i + 1].kind = "done"
      BY <1>5, <2>2
    <3> QED
      BY <1>5, <2>1, <3>1
  <2>3. h.kind = "done" => eng = "exited" /\ Len(events') = 0
    BY <1>5, <2>1
  <2>4. Len(events') = 0 => events' = <<>>
    BY <1>5 DEF Channel
  <2> QED
    BY <1>1, <1>4, <2>2, <2>3, <2>4 DEF DoneLast, Positions, Kind
<1>7. Earned => Earned'
  BY <1>1, <1>4 DEF Earned, Looping
<1>8. Due' = Due
  BY <1>1 DEF Due, Looping
<1>9. Along'
  BY <1>1, <1>4, <1>7, <1>8 DEF Course, Along, Ending
<1> QED
  BY <1>1, <1>6, <1>9 DEF Course

LEMMA CourseStutters ==
    ASSUME Course, UNCHANGED <<events, eng, loop, loopNum, note, all>>,
           forever' <=> forever, finished' <=> finished,
           interrupted => interrupted', (~quit' => ~interrupted')
    PROVE  Course'
<1>1. DoneLast'
  BY DEF Course, DoneLast, Positions, Kind
<1>2. /\ \A x : ShowsLoop(x) => ShowsLoop(x)'
      /\ \A s : ShowsNote(s) => ShowsNote(s)'
  BY DEF ShowsLoop, ShowsNote, Latest, Quiet, Positions, Kind
<1>3. (Earned => Earned') /\ Due' = Due
  BY <1>2 DEF Earned, Due, Looping
<1>4. Along'
  BY <1>2, <1>3 DEF Course, Along
<1> QED
  BY <1>1, <1>4 DEF Course

LEMMA CourseStep == ASSUME Board, Course, [Next]_vars PROVE Course'
<1>1. CASE KeyQuit
  BY <1>1, CourseStutters DEF KeyQuit, boardVars, engVars, stageVars
<1>2. CASE UNCHANGED vars
  BY <1>2, CourseStutters DEF Course, vars, jobVars, runVars, stageVars, boardVars, engVars
<1> QED
  BY <1>1, <1>2, EngineKeepsCourse, WorkersKeepCourse, UpdateKeepsCourse DEF Next, Exited

LEMMA CourseBegins == Init => Course
<1> SUFFICES ASSUME Init PROVE Course
  OBVIOUS
<1>1. /\ events = <<>> /\ loop = 1 /\ loopNum = 0 /\ ~finished /\ ~interrupted /\ all = <<>>
      /\ eng \in {"wait", "top"} /\ (eng = "wait" => HasWait)
  BY DEF Init
<1>2. Positions = {} /\ ShowsLoop(0)
  BY <1>1 DEF Positions, ShowsLoop, Quiet
<1>3. Due = 0 /\ loop <= Loops
  BY <1>1, WatcherAssumption DEF Due, Before
<1> QED
  BY <1>1, <1>2, <1>3 DEF Course, DoneLast, Along, Ending

LEMMA CourseHolds == Spec => []Course
<1>1. Board /\ Course /\ [Next]_vars => Course'
  BY CourseStep
<1> QED
  BY <1>1, BoardHolds, CourseBegins, PTL DEF Spec

\* A board that reports the end of its job, unquit and with no failed control
\* command on it, shows the last of the loops asked for (watcher.go's doneMsg
\* behind all other messages, against TotalRuns, StartTime and the breaks of
\* the loop).
THEOREM EndIsEarned == Spec => []FinishIsEarned
<1>1. ASSUME Course PROVE FinishIsEarned
  <2> SUFFICES ASSUME finished, note = "none", ~quit
               PROVE  \/ ~forever /\ loop > Loops /\ loopNum = (IF Looping THEN Loops ELSE 0)
                      \/ HasWait /\ loopNum = 0 /\ all = <<>>
    BY DEF FinishIsEarned
  <2>1. eng = "exited" /\ events = <<>> /\ ~interrupted
    BY <1>1 DEF Course, DoneLast
  <2>2. Positions = {}
    BY <2>1 DEF Positions
  <2>3. (\A x : ShowsLoop(x) => loopNum = x) /\ (\A s : ShowsNote(s) => note = s)
    BY <2>2 DEF ShowsLoop, ShowsNote, Latest
  <2>4. Earned
    BY <1>1, <2>1 DEF Course, Along, Ending
  <2> QED
    BY <2>3, <2>4 DEF Earned
<1> QED
  BY <1>1, CourseHolds, PTL

-----------------------------------------------------------------------------
(* The job of each loop is a rollout.                                      *)

Stage == INSTANCE RolloutProofs

LEMMA StageHolds == Stage!StageAssumption
BY WatcherAssumption DEF Stage!StageAssumption

\* The rollout of the proofs is the one of the dashboard.
LEMMA SameStages ==
    /\ Stage!AllTargets = AllTargets /\ Stage!Options = Waves!Options
    /\ Stage!Batches = Waves!Batches /\ Stage!NBatches = Waves!NBatches
    /\ Stage!Untouched = Waves!Untouched
    /\ Stage!Collected = Waves!Collected
    /\ \A S, f : Stage!InOrder(S, f) = Waves!InOrder(S, f)
    /\ \A r : Stage!Summarize(r) = Waves!Summarize(r)
<1>1. Stage!AllTargets = AllTargets /\ Stage!Options = Waves!Options
  BY DEF Stage!AllTargets, AllTargets, Stage!Options, Waves!Options
<1>2. Stage!WavesFrom = Waves!WavesFrom
  BY DEF Stage!WavesFrom, Waves!WavesFrom
<1>3. Stage!Batches = Waves!Batches
  BY <1>2 DEF Stage!Batches, Waves!Batches, Stage!AllTargets, Waves!AllTargets
<1>4. Stage!NBatches = Waves!NBatches
  BY <1>3 DEF Stage!NBatches, Waves!NBatches
<1>5. ASSUME NEW S PROVE Stage!Cardinality(S) = Waves!Cardinality(S)
  BY DEF Stage!Cardinality, Waves!Cardinality
<1>6. \A S, f : Stage!InOrder(S, f) = Waves!InOrder(S, f)
  BY <1>5 DEF Stage!InOrder, Waves!InOrder
<1>7. \A r : Stage!Summarize(r) = Waves!Summarize(r)
  BY <1>5 DEF Stage!Summarize, Waves!Summarize
<1>8. Stage!Untouched = Waves!Untouched
  BY <1>3, <1>4 DEF Stage!Untouched, Waves!Untouched
<1>9. Stage!Collected = Waves!Collected
  BY <1>6 DEF Stage!Collected, Waves!Collected
<1> QED
  BY <1>1, <1>3, <1>4, <1>6, <1>7, <1>8, <1>9

AfterRun == {"run", "post", "poststart", "postrun"}

\* No Run has begun.
NotYet ==
    /\ eng \notin AfterRun
    /\ phase = "returned" /\ all = <<>> /\ total = NoSummary
    /\ \A t \in AllTargets : status[t] = "pending"

\* Job and rollout: their invariant holds from the first Run on, and what ended
\* a pause early is still there.
Job ==
    /\ opts \in Waves!Options
    /\ NotYet \/ Stage!IInv
    /\ eng # "run" => phase = "returned"
    /\ interrupted \in BOOLEAN /\ (err = "ctx" => interrupted)

\* Nothing that the job rests on, but for the place and an interrupt.
LEMMA JobStands ==
    ASSUME Job,
           UNCHANGED <<scope, status, stopped, over, phase, batch, all, err, total, opts>>,
           interrupted' \in {interrupted, TRUE},
           NotYet => eng' \notin AfterRun, eng' # "run" => phase = "returned"
    PROVE  Job'
<1>1. CASE NotYet
  BY <1>1 DEF Job, NotYet, Waves!Options, NoSummary
<1>2. CASE Stage!IInv
  <2>1. Stage!IInv'
    BY <1>2, StageHolds, Stage!QuietKeeps
  <2> QED
    BY <2>1 DEF Job, Waves!Options
<1> QED
  BY <1>1, <1>2 DEF Job

\* A step of the rollout.
LEMMA JobSteps ==
    ASSUME Job, eng = "run", eng' = "run", Stage!Advance,
           UNCHANGED <<interrupted, opts>>, err' = "ctx" => err = "ctx" \/ interrupted
    PROVE  Job'
<1>1. Stage!IInv
  BY DEF Job, NotYet, AfterRun
<1>2. Stage!IInv'
  BY <1>1, StageHolds, Stage!StepKeeps DEF Stage!Next
<1> QED
  BY <1>2 DEF Job, Waves!Options

\* The steps of RunWaves between its batches are the rollout's.
LEMMA StageStepIsStage == ASSUME StageStep PROVE Stage!Advance
<1>1. Waves!NextBatch => Stage!NextBatch
  BY SameStages DEF Waves!NextBatch, Stage!NextBatch, Waves!NoCounts, Stage!NoCounts
<1>2. ASSUME NEW r, NEW e, Waves!Return(r, e) PROVE Stage!Return(r, e)
  BY <1>2, SameStages DEF Waves!Return, Stage!Return
<1>3. ASSUME NEW r, Waves!AfterGate(r) PROVE Stage!AfterGate(r)
  BY <1>1, <1>3 DEF Waves!AfterGate, Stage!AfterGate, Waves!runVars, Stage!runVars
<1>4. CASE Waves!Collect
  <2>1. PICK r : r = Waves!Collected /\ r = Stage!Collected
    BY SameStages
  <2>2. phase = "batch" /\ over
    BY <1>4 DEF Waves!Collect
  <2>3. CASE batch = Waves!NBatches
    <3>1. Waves!Return(r, "none") /\ UNCHANGED <<Waves!runVars, batch>>
      BY <1>4, <2>1, <2>3 DEF Waves!Collect
    <3>2. Stage!Return(r, "none") /\ UNCHANGED <<Stage!runVars, batch>>
      BY <1>2, <3>1 DEF Waves!runVars, Stage!runVars
    <3> QED
      BY <2>1, <2>2, <2>3, <3>2, SameStages DEF Stage!Collect, Stage!Advance
  <2>4. CASE batch # Waves!NBatches /\ opts.health
    <3>1. phase' = "gate" /\ all' = r /\ UNCHANGED <<Waves!runVars, batch, err, total, opts>>
      BY <1>4, <2>1, <2>4 DEF Waves!Collect
    <3> QED
      BY <2>1, <2>2, <2>4, <3>1, SameStages DEF Stage!Collect, Stage!Advance, Waves!runVars, Stage!runVars
  <2>5. CASE batch # Waves!NBatches /\ ~opts.health
    <3>1. Waves!AfterGate(r)
      BY <1>4, <2>1, <2>5 DEF Waves!Collect
    <3>2. Stage!AfterGate(r)
      BY <1>3, <3>1
    <3> QED
      BY <2>1, <2>2, <2>5, <3>2, SameStages DEF Stage!Collect, Stage!Advance
  <2> QED
    BY <2>3, <2>4, <2>5
<1>5. CASE Waves!GateStart
  BY <1>5 DEF Waves!GateStart, Stage!GateStart, Stage!Advance, Waves!runVars, Stage!runVars
<1>6. CASE Waves!HealthPasses
  <2>1. PICK r : r = all
    OBVIOUS
  <2>2. phase = "health" /\ Stage!AfterGate(r)
    BY <1>3, <1>6, <2>1 DEF Waves!HealthPasses
  <2> QED
    BY <2>1, <2>2 DEF Stage!HealthPasses, Stage!Advance
<1>7. CASE Waves!HealthFails
  <2>1. PICK U, f : U = Waves!Untouched /\ f = [t \in Waves!Untouched |-> "skip"]
    OBVIOUS
  <2>2. U = Stage!Untouched /\ f = [t \in Stage!Untouched |-> "skip"]
    BY <2>1, SameStages
  <2>3. PICK r : r = all \o Waves!InOrder(U, f) /\ r = all \o Stage!InOrder(U, f)
    BY SameStages
  <2>4. /\ phase = "health" \/ (phase = "gate" /\ interrupted)
        /\ Waves!Return(r, "health")
        /\ UNCHANGED <<Waves!runVars, batch>>
    BY <1>7, <2>1, <2>3 DEF Waves!HealthFails
  <2>5. Stage!Return(r, "health")
    BY <1>2, <2>4
  <2> QED
    BY <2>2, <2>3, <2>4, <2>5 DEF Stage!HealthFails, Stage!Advance, Waves!runVars, Stage!runVars
<1>8. CASE Waves!PauseEnds
  BY <1>1, <1>8 DEF Waves!PauseEnds, Stage!PauseEnds, Stage!Advance
<1>9. CASE Waves!PauseInterrupted
  <2>1. PICK r : r = all
    OBVIOUS
  <2>2. Stage!Return(r, "ctx")
    BY <1>2, <1>9, <2>1 DEF Waves!PauseInterrupted
  <2> QED
    BY <1>9, <2>1, <2>2 DEF Waves!PauseInterrupted, Stage!PauseInterrupted, Stage!Advance,
       Waves!runVars, Stage!runVars
<1> QED
  BY <1>4, <1>5, <1>6, <1>7, <1>8, <1>9 DEF StageStep

\* So are those of its Run.
LEMMA RunStepIsStage ==
    ASSUME \/ \E t \in AllTargets :
                StartTarget(t) \/ SkipOne(t) \/ \E o \in {"ok", "fail"} : EndTarget(t, o)
           \/ ReturnRun
    PROVE  Stage!BatchStep
<1>1. phase = "batch" /\ UNCHANGED stageVars
  BY DEF StartTarget, SkipOne, EndTarget, ReturnRun, Underway, otherVars
<1>2. \/ \E t \in scope : Run!Start(t) \/ Run!SkipTarget(t)
      \/ \E t \in scope, o \in {"ok", "fail"} : Run!Finish(t, o)
      \/ Run!Return
  BY DEF StartTarget, SkipOne, EndTarget, ReturnRun, Run!Start, Run!SkipTarget, Run!Finish,
     Run!Frontier, Run!Having
<1>3. ASSUME NEW S PROVE Run!Cardinality(S) = Stage!Run!Cardinality(S)
  BY DEF Run!Cardinality, Stage!Run!Cardinality
<1>4. ASSUME NEW t, Run!Start(t) PROVE Stage!Run!Start(t)
  BY <1>3, <1>4 DEF Run!Start, Stage!Run!Start, Run!Frontier, Stage!Run!Frontier,
     Run!Having, Stage!Run!Having, Run!Cut, Stage!Run!Cut
<1>5. ASSUME NEW t, Run!SkipTarget(t) PROVE Stage!Run!SkipTarget(t)
  BY <1>5 DEF Run!SkipTarget, Stage!Run!SkipTarget, Run!Frontier, Stage!Run!Frontier,
     Run!Having, Stage!Run!Having, Run!Cut, Stage!Run!Cut
<1>6. ASSUME NEW t, NEW o, Run!Finish(t, o) PROVE Stage!Run!Finish(t, o)
  BY <1>6 DEF Run!Finish, Stage!Run!Finish, Run!Having, Stage!Run!Having
<1>7. ASSUME Run!Return PROVE Stage!Run!Return
  BY <1>3, <1>7 DEF Run!Return, Stage!Run!Return, Run!Having, Stage!Run!Having
<1> QED
  BY <1>1, <1>2, <1>4, <1>5, <1>6, <1>7 DEF Stage!BatchStep, Stage!Run!Progress,
     stageVars, Stage!stageVars

\* Each loop begins a rollout of its own.
LEMMA NewRollout == ASSUME Job, BeginRun PROVE Job'
<1>1. (Stage!Init => Stage!IInv)'
  BY StageHolds, Stage!InitHolds, PTL
<1>2. /\ status' = [t \in AllTargets |-> "pending"]
      /\ stopped' = FALSE /\ over' = FALSE /\ summary' = NoSummary
      /\ phase' = "batch" /\ batch' = 1 /\ scope' = Waves!Batches[1]
      /\ all' = <<>> /\ err' = "none" /\ total' = NoSummary
      /\ opts' = opts /\ interrupted' = interrupted /\ eng' = "run"
  BY DEF BeginRun
<1>3. Stage!NBatches' > 0
  <2>1. NTargets > 0 /\ opts \in Stage!Options
    BY WatcherAssumption, SameStages DEF Job
  <2>2. Stage!NBatches > 0
    BY <2>1, StageHolds, Stage!CutFacts
  <2>3. Stage!NBatches' = Stage!NBatches
    BY <1>2, StageHolds, Stage!SameCut
  <2> QED
    BY <2>2, <2>3
<1>4. Stage!NBatches' # 0
  <2>1. Stage!NBatches \in Nat /\ Stage!NBatches' = Stage!NBatches
    BY <1>2, StageHolds, Stage!SameCut, Stage!CutFacts, SameStages DEF Job
  <2> QED
    BY <1>3, <2>1
<1>5. Stage!Batches' = Waves!Batches
  BY <1>2, StageHolds, Stage!SameCut, SameStages
<1>6. Stage!Init'
  BY <1>2, <1>4, <1>5, SameStages DEF Stage!Init, Job, NoSummary, Stage!NoCounts, Stage!Options
<1> QED
  BY <1>1, <1>2, <1>6 DEF Job, Waves!Options

LEMMA JobStep == ASSUME Board, Job, [Next]_vars PROVE Job'
<1> DEFINE same == UNCHANGED <<scope, status, stopped, over, phase, batch, all, err, total, opts,
                               interrupted>>
<1>1. CASE AnnounceWait \/ BadStart \/ WaitOver \/ WaitCancelled \/ Top \/ AnnounceLoop
  <2>1. same /\ eng # "run" /\ eng' \notin AfterRun
    BY <1>1 DEF AnnounceWait, BadStart, WaitOver, WaitCancelled, Top, AnnounceLoop, AfterRun,
       GoOn, SendAndGo, jobVars, runVars, stageVars
  <2> QED
    BY <2>1, JobStands DEF Job, AfterRun
<1>2. CASE AnnouncePre \/ PreStarts \/ PrePasses \/ PreFails
  <2>1. same /\ eng # "run" /\ eng' \notin AfterRun
    BY <1>2 DEF AnnouncePre, PreStarts, PrePasses, PreFails, ControlStarts, ControlFails, AfterRun,
       GoOn, SendAndGo, jobVars, runVars, stageVars
  <2> QED
    BY <2>1, JobStands DEF Job, AfterRun
<1>3. CASE AnnouncePost \/ PostStarts \/ PostFails \/ PostPasses \/ EndRun
  <2>1. same /\ eng \in AfterRun /\ eng' # "run" /\ (eng = "run" => phase = "returned")
    BY <1>3 DEF AnnouncePost, PostStarts, PostFails, PostPasses, EndRun, ControlStarts, ControlFails,
       AfterRun, GoOn, SendAndGo, jobVars, runVars, stageVars
  <2>2. ~NotYet
    BY <2>1 DEF NotYet
  <2> QED
    BY <2>1, <2>2, JobStands DEF Job
<1>4. CASE Finish
  <2>1. same /\ eng = "finish" /\ eng' = "exited"
    BY <1>4 DEF Finish, SendAndGo, jobVars, runVars, stageVars
  <2> QED
    BY <2>1, JobStands DEF Job, AfterRun
<1>5. CASE AnnounceBatch \/ Update \/ KeyQuit \/ UNCHANGED vars
           \/ \E t \in AllTargets : SendStart(t) \/ SendResult(t)
  <2>1. /\ UNCHANGED <<scope, status, stopped, over, phase, batch, all, err, total, opts>>
        /\ eng' = eng /\ interrupted' \in {interrupted, TRUE}
    BY <1>5 DEF AnnounceBatch, Update, KeyQuit, SendStart, SendResult, otherVars, engVars, vars,
       jobVars, runVars, stageVars
  <2> QED
    BY <2>1, JobStands DEF Job, NotYet
<1>6. CASE StageStep
  <2>1. /\ Stage!Advance /\ eng = "run" /\ eng' = "run" /\ interrupted' = interrupted /\ opts' = opts
        /\ err' = "ctx" => err = "ctx" \/ interrupted
    BY <1>6, StageStepIsStage DEF StageStep, engVars, Waves!Collect, Waves!GateStart,
       Waves!HealthPasses, Waves!HealthFails, Waves!PauseEnds, Waves!PauseInterrupted,
       Waves!AfterGate, Waves!NextBatch, Waves!Return, Waves!runVars
  <2> QED
    BY <2>1, JobSteps
<1>7. CASE \/ \E t \in AllTargets :
                StartTarget(t) \/ SkipOne(t) \/ \E o \in {"ok", "fail"} : EndTarget(t, o)
           \/ ReturnRun
  <2>1. Stage!Advance
    BY <1>7, RunStepIsStage DEF Stage!Advance
  <2>2. eng = "run" /\ eng' = "run" /\ interrupted' = interrupted /\ opts' = opts /\ err' = err
    BY <1>7 DEF StartTarget, SkipOne, EndTarget, ReturnRun, Underway, otherVars, engVars, stageVars,
       Run!Start, Run!SkipTarget, Run!Finish, Run!Return
  <2> QED
    BY <2>1, <2>2, JobSteps
<1> QED
  BY <1>1, <1>2, <1>3, <1>4, <1>5, <1>6, <1>7, NewRollout DEF Next, Engine, Workers, Exited

LEMMA JobBegins == Init => Job
BY StagesAssumption DEF Init, Job, NotYet, AfterRun, Run!Init, NoSummary

LEMMA JobHolds == Spec => []Job
<1>1. Board /\ Job /\ [Next]_vars => Job'
  BY JobStep
<1> QED
  BY <1>1, BoardHolds, JobBegins, PTL DEF Spec

-----------------------------------------------------------------------------
(* The board and the messages under way, as one line of places.            *)

\* Place 0 is the board, place i the message that will be taken i-th.
Places == 0..Len(events)

\* A place says how far the batches are, and which targets it says to have
\* ended, or to have moved.
IsLine(i) == i = 0 \/ Kind(i) = "batch"
LineAt(i) == IF i = 0 THEN batchNum ELSE events[i].arg
Tells(i, t) ==
    IF i = 0 THEN rows[t] \in {"ok", "fail"}
    ELSE Kind(i) = "result" /\ events[i].arg[1] = t
Moves(i, t) ==
    IF i = 0 THEN rows[t] # "queued"
    ELSE (Kind(i) = "start" /\ events[i].arg = t) \/ Tells(i, t)

\* Up to place i, and in the loop that is the latest there.
Told(t, i) == \E j \in 0..i : Fresh(j) /\ Tells(j, t)
Lined(c, i) == \E j \in 0..i : Fresh(j) /\ IsLine(j) /\ LineAt(j) >= c

\* One more message is one more place.
LEMMA SendPlaces ==
    ASSUME Channel, NEW m, m.kind # "loop", events' = Append(events, m),
           UNCHANGED <<rows, batchNum>>, NEW n, n = Len(events)
    PROVE  /\ n \in Nat /\ Len(events') = n + 1
           /\ \A i \in 0..n :
                /\ Fresh(i)' <=> Fresh(i)
                /\ IsLine(i)' <=> IsLine(i)
                /\ LineAt(i)' = LineAt(i)
                /\ \A t : (Tells(i, t)' <=> Tells(i, t)) /\ (Moves(i, t)' <=> Moves(i, t))
           /\ Fresh(n + 1)'
           /\ IsLine(n + 1)' <=> m.kind = "batch"
           /\ LineAt(n + 1)' = m.arg
           /\ \A t : Tells(n + 1, t)' <=> m.kind = "result" /\ m.arg[1] = t
           /\ \A t : Moves(n + 1, t)' <=>
                (m.kind = "start" /\ m.arg = t) \/ (m.kind = "result" /\ m.arg[1] = t)
<1>1. /\ n \in Nat /\ Len(events') = n + 1
      /\ \A i \in 1..n : events'[i] = events[i]
      /\ events'[n + 1] = m
  BY SendEffect DEF Positions
<1>2. ASSUME NEW i \in 0..n
      PROVE  /\ IsLine(i)' <=> IsLine(i)
             /\ LineAt(i)' = LineAt(i)
             /\ \A t : (Tells(i, t)' <=> Tells(i, t)) /\ (Moves(i, t)' <=> Moves(i, t))
  <2>1. i # 0 => events'[i] = events[i]
    BY <1>1
  <2> QED
    BY <2>1 DEF IsLine, LineAt, Tells, Moves, Kind
<1>3. ASSUME NEW i \in 0..n PROVE Fresh(i)' <=> Fresh(i)
  <2>1. 1..(n + 1) = (1..n) \cup {n + 1}
    BY <1>1
  <2> QED
    BY <1>1, <2>1 DEF Fresh, Positions, Kind
<1>4. Fresh(n + 1)'
  BY <1>1 DEF Fresh, Positions
<1>5. n + 1 # 0
  BY <1>1
<1> QED
  BY <1>1, <1>2, <1>3, <1>4, <1>5 DEF IsLine, LineAt, Tells, Moves, Kind

\* What is told and what the line has come to, when one more is sent.
LEMMA SendTold ==
    ASSUME Channel, NEW m, m.kind # "loop", events' = Append(events, m),
           UNCHANGED <<rows, batchNum>>, NEW n, n = Len(events)
    PROVE  /\ \A t : \A i \in 0..n : Told(t, i) => Told(t, i)'
           /\ \A c : \A i \in 0..n : Lined(c, i) => Lined(c, i)'
           /\ \A t : Told(t, n) => Told(t, n + 1)'
           /\ \A c : Lined(c, n) => Lined(c, n + 1)'
<1>1. /\ n \in Nat
      /\ \A i \in 0..n :
            /\ Fresh(i)' <=> Fresh(i)
            /\ IsLine(i)' <=> IsLine(i)
            /\ LineAt(i)' = LineAt(i)
            /\ \A t : Tells(i, t)' <=> Tells(i, t)
  BY SendPlaces
<1>2. \A i \in 0..n : \A j \in 0..i : j \in 0..n
  BY <1>1
<1>3. \A j \in 0..n : j \in 0..(n + 1)
  BY <1>1
<1>4. ASSUME NEW t, NEW i \in 0..n, Told(t, i) PROVE Told(t, i)'
  BY <1>1, <1>2, <1>4 DEF Told
<1>5. ASSUME NEW c, NEW i \in 0..n, Lined(c, i) PROVE Lined(c, i)'
  BY <1>1, <1>2, <1>5 DEF Lined
<1>6. ASSUME NEW t, Told(t, n) PROVE Told(t, n + 1)'
  BY <1>1, <1>3, <1>6 DEF Told
<1>7. ASSUME NEW c, Lined(c, n) PROVE Lined(c, n + 1)'
  BY <1>1, <1>3, <1>7 DEF Lined
<1> QED
  BY <1>4, <1>5, <1>6, <1>7

\* Up to a later place there is more.
LEMMA LaterPlace ==
    ASSUME NEW i \in Nat, NEW k \in Nat, i <= k
    PROVE  /\ \A t : Told(t, i) => Told(t, k)
           /\ \A c : Lined(c, i) => Lined(c, k)
<1>1. \A j \in 0..i : j \in 0..k
  OBVIOUS
<1> QED
  BY <1>1 DEF Told, Lined

\* The first message is taken: each place is now one earlier, and what it said
\* is on the board.
LEMMA TakePlaces ==
    ASSUME Board, events # <<>>, events' = Tail(events), NEW h, h = Head(events), Apply(h),
           NEW n, n = Len(events)
    PROVE  /\ n \in Nat /\ n >= 1 /\ Len(events') = n - 1
           /\ \A i \in 0..(n - 1) : Fresh(i)' <=> Fresh(i + 1)
           /\ \A i \in 1..(n - 1) :
                /\ IsLine(i)' <=> IsLine(i + 1)
                /\ LineAt(i)' = LineAt(i + 1)
                /\ \A t : (Tells(i, t)' <=> Tells(i + 1, t)) /\ (Moves(i, t)' <=> Moves(i + 1, t))
           /\ Fresh(0) <=> Fresh(1) /\ h.kind # "loop"
           /\ h.kind = "loop" =>
                LineAt(0)' = 0 /\ \A t \in AllTargets : ~Tells(0, t)' /\ ~Moves(0, t)'
           /\ h.kind = "batch" => IsLine(1) /\ LineAt(0)' = LineAt(1)
           /\ h.kind \notin {"loop", "batch"} => ~IsLine(1) /\ LineAt(0)' = LineAt(0)
           /\ h.kind # "loop" => \A t \in AllTargets :
                /\ Tells(0, t)' <=> Tells(0, t) \/ Tells(1, t)
                /\ Moves(0, t)' <=> Moves(0, t) \/ Moves(1, t)
<1>1. /\ n \in Nat /\ n >= 1 /\ Len(events') = n - 1
      /\ \A i \in 1..(n - 1) : events'[i] = events[i + 1]
      /\ h = events[1]
  BY TakeEffect DEF Board, Typed
<1>2. Shape(h)
  BY <1>1 DEF Board, Typed, Positions
<1>3. ASSUME NEW i \in 0..(n - 1) PROVE Fresh(i)' <=> Fresh(i + 1)
  <2>1. \A j \in 1..n : j > 1 => j - 1 \in 1..(n - 1) /\ events'[j - 1] = events[j]
    BY <1>1
  <2>2. ASSUME Fresh(i)', NEW j \in 1..n, j > i + 1 PROVE events[j].kind # "loop"
    <3>1. j - 1 \in 1..(n - 1) /\ j - 1 > i /\ events'[j - 1] = events[j]
      BY <1>1, <2>1, <2>2
    <3> QED
      BY <1>1, <2>2, <3>1 DEF Fresh, Positions, Kind
  <2>3. ASSUME Fresh(i + 1), NEW j \in 1..(n - 1), j > i PROVE events'[j].kind # "loop"
    <3>1. j + 1 \in 1..n /\ j + 1 > i + 1 /\ events'[j] = events[j + 1]
      BY <1>1, <2>3
    <3> QED
      BY <1>1, <2>3, <3>1 DEF Fresh, Positions, Kind
  <2> QED
    BY <1>1, <2>2, <2>3 DEF Fresh, Positions, Kind
<1>4. ASSUME NEW i \in 1..(n - 1)
      PROVE  /\ IsLine(i)' <=> IsLine(i + 1)
             /\ LineAt(i)' = LineAt(i + 1)
             /\ \A t : (Tells(i, t)' <=> Tells(i + 1, t)) /\ (Moves(i, t)' <=> Moves(i + 1, t))
  <2>1. i # 0 /\ i + 1 # 0 /\ events'[i] = events[i + 1]
    BY <1>1
  <2> QED
    BY <2>1 DEF IsLine, LineAt, Tells, Moves, Kind
<1>5. Fresh(0) <=> Fresh(1) /\ h.kind # "loop"
  <2>1. \A j \in 1..n : j > 0 /\ (j = 1 \/ j > 1) /\ 1 \in 1..n
    BY <1>1
  <2>2. \A j \in 1..n : j > 1 => j > 0
    BY <1>1
  <2> QED
    BY <1>1, <2>1, <2>2 DEF Fresh, Positions, Kind
<1>6. batchNum' = IF h.kind = "loop" THEN 0 ELSE IF h.kind = "batch" THEN h.arg ELSE batchNum
  <2>1. CASE h.kind = "loop"
    BY <2>1 DEF Apply, ResetForLoop
  <2>2. CASE h.kind = "start"
    BY <2>2 DEF Apply, ApplyStart
  <2>3. CASE h.kind = "result"
    BY <2>3 DEF Apply, ApplyResult
  <2>4. CASE Courses(h)
    BY <2>4 DEF Apply, ApplyLifecycle, Courses
  <2> QED
    BY <2>1, <2>2, <2>3, <2>4 DEF Courses
<1>7. /\ h.kind = "batch" => IsLine(1)
      /\ h.kind # "batch" => ~IsLine(1)
      /\ LineAt(0)' = batchNum' /\ LineAt(0) = batchNum /\ LineAt(1) = h.arg
  BY <1>1 DEF IsLine, LineAt, Kind
<1>8. ASSUME NEW t \in AllTargets
      PROVE  /\ h.kind = "loop" => ~Tells(0, t)' /\ ~Moves(0, t)'
             /\ h.kind # "loop" =>
                    /\ Tells(0, t)' <=> Tells(0, t) \/ Tells(1, t)
                    /\ Moves(0, t)' <=> Moves(0, t) \/ Moves(1, t)
  <2>1. /\ Tells(0, t)' <=> rows'[t] \in {"ok", "fail"}
        /\ Tells(0, t) <=> rows[t] \in {"ok", "fail"}
        /\ Moves(0, t)' <=> rows'[t] # "queued"
        /\ Moves(0, t) <=> rows[t] # "queued"
        /\ Tells(1, t) <=> h.kind = "result" /\ h.arg[1] = t
        /\ Moves(1, t) <=> (h.kind = "start" /\ h.arg = t) \/ (h.kind = "result" /\ h.arg[1] = t)
    BY <1>1 DEF Tells, Moves, Kind
  <2>2. CASE h.kind = "loop"
    BY <1>2, <2>1, <2>2, ApplyEffect DEF Queued
  <2>3. CASE h.kind = "start"
    BY <1>2, <2>1, <2>3, ApplyEffect
  <2>4. CASE h.kind = "result"
    <3>1. PICK u \in AllTargets, o \in {"ok", "fail"} :
              /\ h.arg = <<u, o>>
              /\ \A v \in AllTargets : rows'[v] = IF v = u THEN o ELSE rows[v]
      BY <1>2, <2>4, ApplyEffect
    <3>2. h.arg[1] = u
      BY <3>1
    <3> QED
      BY <2>1, <2>4, <3>1, <3>2
  <2>5. CASE Courses(h)
    <3>1. rows' = rows
      BY <1>2, <2>5, ApplyEffect
    <3> QED
      BY <2>1, <2>5, <3>1 DEF Courses
  <2> QED
    BY <2>2, <2>3, <2>4, <2>5 DEF Courses
<1> QED
  BY <1>1, <1>3, <1>4, <1>5, <1>6, <1>7, <1>8

\* Nothing that was told up to a place is lost when a message is taken.
LEMMA TakeTold ==
    ASSUME Board, events # <<>>, events' = Tail(events), NEW h, h = Head(events), Apply(h),
           NEW n, n = Len(events)
    PROVE  /\ \A t \in AllTargets, i \in 0..(n - 1) : Told(t, i + 1) => Told(t, i)'
           /\ \A c \in Nat, i \in 0..(n - 1) :
                /\ Lined(c, i + 1)
                /\ IsLine(1) => LineAt(1) \in Nat
                /\ LineAt(0) \in Nat
                /\ Fresh(1) /\ Fresh(0) /\ IsLine(1) => LineAt(0) <= LineAt(1)
                => Lined(c, i)'
<1>1. /\ n \in Nat /\ n >= 1
      /\ \A i \in 0..(n - 1) : Fresh(i)' <=> Fresh(i + 1)
      /\ \A i \in 1..(n - 1) :
            /\ IsLine(i)' <=> IsLine(i + 1)
            /\ LineAt(i)' = LineAt(i + 1)
            /\ \A t : (Tells(i, t)' <=> Tells(i + 1, t)) /\ (Moves(i, t)' <=> Moves(i + 1, t))
      /\ Fresh(0) <=> Fresh(1) /\ h.kind # "loop"
      /\ h.kind = "loop" =>
            LineAt(0)' = 0 /\ \A t \in AllTargets : ~Tells(0, t)' /\ ~Moves(0, t)'
      /\ h.kind = "batch" => IsLine(1) /\ LineAt(0)' = LineAt(1)
      /\ h.kind \notin {"loop", "batch"} => ~IsLine(1) /\ LineAt(0)' = LineAt(0)
      /\ h.kind # "loop" => \A t \in AllTargets :
            /\ Tells(0, t)' <=> Tells(0, t) \/ Tells(1, t)
            /\ Moves(0, t)' <=> Moves(0, t) \/ Moves(1, t)
  BY TakePlaces
<1>2. h = events[1]
  BY TakeEffect DEF Board, Typed
<1>3. ASSUME NEW t \in AllTargets, NEW i \in 0..(n - 1), Told(t, i + 1) PROVE Told(t, i)'
  <2>1. PICK j \in 0..(i + 1) : Fresh(j) /\ Tells(j, t)
    BY <1>3 DEF Told
  <2>2. CASE j >= 2
    <3>1. PICK k \in 1..(n - 1) : k = j - 1 /\ k \in 0..i /\ k + 1 = j
      BY <1>1, <2>2
    <3>2. Fresh(k)' /\ Tells(k, t)'
      BY <1>1, <2>1, <3>1
    <3> QED
      BY <3>1, <3>2 DEF Told
  <2>3. CASE j \in {0, 1}
    <3>1. h.kind # "loop"
      BY <1>1, <1>2, <2>1, <2>3 DEF Tells, Kind
    <3>2. Fresh(1) /\ 0 \in 0..(n - 1) /\ 0 + 1 = 1
      BY <1>1, <2>1, <2>3
    <3>3. Fresh(0)' /\ Tells(0, t)'
      BY <1>1, <2>1, <2>3, <3>1, <3>2
    <3>4. 0 \in 0..i
      OBVIOUS
    <3> QED
      BY <3>3, <3>4 DEF Told
  <2> QED
    BY <1>1, <2>2, <2>3
<1>4. ASSUME NEW c \in Nat, NEW i \in 0..(n - 1), Lined(c, i + 1),
             IsLine(1) => LineAt(1) \in Nat, LineAt(0) \in Nat,
             Fresh(1) /\ Fresh(0) /\ IsLine(1) => LineAt(0) <= LineAt(1)
      PROVE  Lined(c, i)'
  <2>1. PICK j \in 0..(i + 1) : Fresh(j) /\ IsLine(j) /\ LineAt(j) >= c
    BY <1>4 DEF Lined
  <2>2. CASE j >= 2
    <3>1. PICK k \in 1..(n - 1) : k = j - 1 /\ k \in 0..i /\ k + 1 = j
      BY <1>1, <2>2
    <3>2. Fresh(k)' /\ IsLine(k)' /\ LineAt(k)' >= c
      BY <1>1, <2>1, <3>1
    <3> QED
      BY <3>1, <3>2 DEF Lined
  <2>3. CASE j \in {0, 1}
    <3>1. h.kind # "loop"
      BY <1>1, <1>2, <2>1, <2>3 DEF IsLine, Kind
    <3>2. Fresh(1) /\ 0 \in 0..(n - 1) /\ 0 + 1 = 1 /\ Fresh(0)
      BY <1>1, <2>1, <2>3, <3>1
    <3>3. LineAt(0)' >= c
      BY <1>1, <1>4, <2>1, <2>3, <3>1, <3>2
    <3>4. 0 \in 0..i /\ Fresh(0)' /\ IsLine(0)'
      BY <1>1, <3>2 DEF IsLine
    <3> QED
      BY <3>3, <3>4 DEF Lined
  <2> QED
    BY <1>1, <2>2, <2>3
<1> QED
  BY <1>3, <1>4

-----------------------------------------------------------------------------
(* The header's batch.                                                     *)

BatchNos == 1..Waves!NBatches

LEMMA BatchFacts ==
    ASSUME opts \in Waves!Options
    PROVE  /\ Waves!NBatches \in Nat
           /\ \A b \in BatchNos : Waves!Batches[b] \subseteq AllTargets
           /\ \A b, c \in BatchNos : \A t : t \in Waves!Batches[b] /\ t \in Waves!Batches[c] => b = c
<1>1. /\ Stage!NBatches \in Nat
      /\ \A i, j \in 1..(Stage!NBatches + 1) : i <= j => Stage!Cut[i] <= Stage!Cut[j]
      /\ \A b \in 1..Stage!NBatches :
            /\ Stage!Cut[b] \in Nat /\ Stage!Cut[b + 1] \in Nat
            /\ 1 <= Stage!Cut[b] /\ Stage!Cut[b + 1] <= NTargets + 1
            /\ Stage!Batches[b] = Stage!Cut[b]..(Stage!Cut[b + 1] - 1)
  BY StageHolds, SameStages, Stage!CutFacts
<1>2. NTargets \in Nat
  BY WatcherAssumption
<1>3. ASSUME NEW b \in 1..Stage!NBatches PROVE Stage!Batches[b] \subseteq AllTargets
  BY <1>1, <1>2 DEF AllTargets
<1>4. ASSUME NEW b \in 1..Stage!NBatches, NEW c \in 1..Stage!NBatches, b < c,
             NEW t, t \in Stage!Batches[b], t \in Stage!Batches[c]
      PROVE  FALSE
  <2>1. b + 1 \in 1..(Stage!NBatches + 1) /\ c \in 1..(Stage!NBatches + 1) /\ b + 1 <= c
    BY <1>1, <1>4
  <2>2. Stage!Cut[b + 1] <= Stage!Cut[c]
    BY <1>1, <2>1
  <2>3. t \in Stage!Cut[b]..(Stage!Cut[b + 1] - 1) /\ t \in Stage!Cut[c]..(Stage!Cut[c + 1] - 1)
    BY <1>1, <1>4
  <2> QED
    BY <1>1, <2>2, <2>3
<1>5. \A b, c \in 1..Stage!NBatches : b = c \/ b < c \/ c < b
  BY <1>1
<1> QED
  BY <1>1, <1>3, <1>4, <1>5, SameStages DEF BatchNos

LEMMA SameBatches ==
    ASSUME opts' = opts
    PROVE  Waves!Batches' = Waves!Batches /\ BatchNos' = BatchNos /\ (Staged' <=> Staged)
<1>1. Stage!Batches' = Stage!Batches /\ Stage!NBatches' = Stage!NBatches
  BY StageHolds, Stage!SameCut
<1>2. (Stage!Batches = Waves!Batches)' /\ (Stage!NBatches = Waves!NBatches)'
  BY SameStages, PTL
<1> QED
  BY <1>1, <1>2, SameStages DEF BatchNos, Staged

\* At every place the batches ascend, those before the one named there are told
\* to be through, and what is told of a target has been announced.
Ascends(i) ==
    /\ IsLine(i) => LineAt(i) \in Nat
    /\ Fresh(i) /\ IsLine(i) =>
            \A j \in 0..i : Fresh(j) /\ IsLine(j) => LineAt(j) <= LineAt(i)
Through(i) ==
    Fresh(i) /\ IsLine(i) => \A c \in BatchNos : c < LineAt(i) =>
        \A t \in Waves!Batches[c] : status[t] = "skip" \/ Told(t, i)
Announced(i) ==
    Staged /\ Fresh(i) => \A c \in BatchNos : \A t \in Waves!Batches[c] :
        Moves(i, t) => Lined(c, i)
PlaceTrue(i) == Ascends(i) /\ Through(i) /\ Announced(i)

\* During the job its last batch is the last announced, and before it none is.
LinesInTime ==
    /\ eng = "run" =>
        /\ \A i \in Places : Fresh(i) /\ IsLine(i) => LineAt(i) <= announced
        /\ announced > 0 => Lined(announced, Len(events))
        /\ Staged => \A c \in BatchNos : \A t \in Waves!Batches[c] :
                status[t] # "pending" => c <= announced
    /\ NothingYet => \A i \in Places : Fresh(i) /\ IsLine(i) => LineAt(i) = 0

\* What has been sent is of the loop announced last, and so it is told.
OfLatest == eng \notin Begun /\ (eng \in Ending => ~ShowsNote("preFailed"))
Delivered == OfLatest => \A t \in AllTargets : sent[t] = "result" => Told(t, Len(events))

\* Slots are held in the current batch, and nothing is said of a target that
\* was not started.
Held == \A t \in AllTargets :
    /\ SlotTaken(t) => t \in scope
    /\ status[t] \in {"pending", "skip"} => sent[t] = "none"

Header ==
    /\ announced \in Nat
    /\ \A i \in Places : PlaceTrue(i)
    /\ LinesInTime
    /\ Delivered
    /\ Held

\* A message that is sent takes nothing from the places before it.
LEMMA PlacesStand ==
    ASSUME Board, Job, Header, opts' = opts, UNCHANGED <<rows, batchNum>>,
           events' = events \/ \E m : m.kind # "loop" /\ events' = Append(events, m),
           \A t \in AllTargets : status[t] = "skip" => status'[t] = "skip",
           NEW n, n = Len(events), NEW i \in 0..n
    PROVE  /\ PlaceTrue(i)'
           /\ (Fresh(i)' <=> Fresh(i)) /\ (IsLine(i)' <=> IsLine(i)) /\ LineAt(i)' = LineAt(i)
<1>1. /\ n \in Nat
      /\ \A j \in 0..n :
            /\ (Fresh(j)' <=> Fresh(j)) /\ (IsLine(j)' <=> IsLine(j)) /\ LineAt(j)' = LineAt(j)
            /\ \A t : (Tells(j, t)' <=> Tells(j, t)) /\ (Moves(j, t)' <=> Moves(j, t))
      /\ \A t : \A j \in 0..n : Told(t, j) => Told(t, j)'
      /\ \A c : \A j \in 0..n : Lined(c, j) => Lined(c, j)'
  <2>1. CASE events' = events
    <3>1. n \in Nat
      BY DEF Board, Typed, Channel
    <3> QED
      BY <2>1, <3>1 DEF Fresh, IsLine, LineAt, Tells, Moves, Told, Lined, Positions, Kind
  <2>2. ASSUME NEW m, m.kind # "loop", events' = Append(events, m)
        PROVE  <1>1!:
    BY <2>2, SendPlaces, SendTold DEF Board, Typed
  <2> QED
    BY <2>1, <2>2
<1>2. PlaceTrue(i)
  BY DEF Header, Places
<1>3. Ascends(i)'
  BY <1>1, <1>2 DEF PlaceTrue, Ascends
<1>4. Waves!Batches' = Waves!Batches /\ BatchNos' = BatchNos /\ (Staged' <=> Staged)
  BY SameBatches
<1>5. \A b \in BatchNos : Waves!Batches[b] \subseteq AllTargets
  BY BatchFacts DEF Job
<1>6. Through(i)'
  BY <1>1, <1>2, <1>4, <1>5 DEF PlaceTrue, Through
<1>7. Announced(i)'
  BY <1>1, <1>2, <1>4 DEF PlaceTrue, Announced
<1> QED
  BY <1>1, <1>3, <1>6, <1>7 DEF PlaceTrue

\* The goroutine or a worker moves on, and says nothing of batches or targets.
LEMMA HeaderStands ==
    ASSUME Board, Job, Header, opts' = opts, UNCHANGED <<rows, batchNum, announced, sent>>,
           events' = events \/ \E m : Courses(m) /\ m.kind # "batch" /\ events' = Append(events, m),
           \A t \in AllTargets : status[t] = "skip" => status'[t] = "skip",
           eng' = "run" =>
                /\ eng = "run"
                /\ Staged => \A c \in BatchNos : \A t \in Waves!Batches[c] :
                        status[t] = "pending" /\ status'[t] # "pending" => c <= announced,
           NothingYet' => NothingYet,
           OfLatest' => OfLatest,
           Held'
    PROVE  Header'
<1>0. PICK n \in Nat : n = Len(events)
  BY DEF Board, Typed, Channel
<1>1. ASSUME NEW i \in 0..n
      PROVE  /\ PlaceTrue(i)'
             /\ (Fresh(i)' <=> Fresh(i)) /\ (IsLine(i)' <=> IsLine(i)) /\ LineAt(i)' = LineAt(i)
  <2>1. events' = events \/ \E m : m.kind # "loop" /\ events' = Append(events, m)
    BY DEF Courses
  <2> QED
    BY <1>0, <2>1, PlacesStand
<1>2. \/ events' = events
      \/ /\ Len(events') = n + 1
         /\ ~IsLine(n + 1)' /\ PlaceTrue(n + 1)'
  <2>1. ASSUME NEW m, Courses(m), m.kind # "batch", events' = Append(events, m)
        PROVE  /\ Len(events') = n + 1
               /\ ~IsLine(n + 1)' /\ PlaceTrue(n + 1)'
    <3>1. /\ Len(events') = n + 1
          /\ ~IsLine(n + 1)'
          /\ \A t : ~Moves(n + 1, t)'
      BY <1>0, <2>1, SendPlaces DEF Board, Typed, Courses
    <3> QED
      BY <3>1 DEF PlaceTrue, Ascends, Through, Announced
  <2> QED
    BY <2>1
<1>3. \A i \in Places' : i \in 0..n \/ (i = n + 1 /\ events' # events)
  BY <1>0, <1>2 DEF Places
<1>4. \A i \in Places' : PlaceTrue(i)' /\ (IsLine(i)' => i \in Places /\ IsLine(i) /\ LineAt(i)' = LineAt(i) /\ (Fresh(i)' => Fresh(i)))
  BY <1>1, <1>2, <1>3 DEF Places
<1>5. /\ \A t : Told(t, n) => Told(t, Len(events))'
      /\ \A c : Lined(c, n) => Lined(c, Len(events))'
  <2>1. CASE events' = events
    BY <1>0, <2>1 DEF Told, Lined, Fresh, IsLine, LineAt, Tells, Positions, Kind
  <2>2. ASSUME NEW m, Courses(m), events' = Append(events, m)
        PROVE  <1>5!:
    <3>1. /\ \A t : Told(t, n) => Told(t, n + 1)'
          /\ \A c : Lined(c, n) => Lined(c, n + 1)'
      BY <1>0, <2>2, SendTold DEF Board, Typed, Courses
    <3>2. Len(events') = n + 1
      BY <1>0, <2>2, SendEffect DEF Board, Typed
    <3> QED
      BY <3>1, <3>2 DEF Told, Lined
  <2> QED
    BY <2>1, <2>2
<1>6. Waves!Batches' = Waves!Batches /\ BatchNos' = BatchNos /\ (Staged' <=> Staged)
  BY SameBatches
<1>7. LinesInTime'
  BY <1>0, <1>4, <1>5, <1>6 DEF Header, LinesInTime
<1>8. Delivered'
  BY <1>0, <1>5 DEF Header, Delivered
<1> QED
  BY <1>4, <1>7, <1>8 DEF Header

\* The next loop is announced.
LEMMA AnnounceLoopKeepsHeader == ASSUME Board, Job, Header, AnnounceLoop PROVE Header'
<1>1. /\ eng = "announce" /\ eng' \in {"pre", "ready"}
      /\ UNCHANGED <<rows, batchNum, sent, status, scope, opts, announced>>
  BY DEF AnnounceLoop, SendAndGo, jobVars, runVars, stageVars, boardVars
<1>2. PICK m : m.kind = "loop" /\ events' = Append(events, m)
  <2>1. PICK m : m = Msg("loop", loop)
    OBVIOUS
  <2> QED
    BY <2>1 DEF AnnounceLoop, SendAndGo, Send, Msg
<1>3. PICK n : n = Len(events)
  OBVIOUS
<1>4. /\ n \in Nat /\ Len(events') = n + 1
      /\ \A i \in 1..n : events'[i] = events[i]
      /\ events'[n + 1] = m
  BY <1>2, <1>3, SendEffect DEF Board, Typed, Positions
<1>5. ASSUME NEW i \in 0..n PROVE ~Fresh(i)' /\ (IsLine(i)' => LineAt(i)' \in Nat)
  <2>1. n + 1 \in 1..(n + 1) /\ n + 1 > i /\ i \in Places
    BY <1>3, <1>4 DEF Places
  <2>2. ~Fresh(i)'
    BY <1>2, <1>4, <2>1 DEF Fresh, Positions, Kind
  <2>3. IsLine(i) => LineAt(i) \in Nat
    BY <2>1 DEF Header, PlaceTrue, Ascends
  <2>4. i # 0 => events'[i] = events[i]
    BY <1>4
  <2> QED
    BY <1>1, <2>2, <2>3, <2>4 DEF IsLine, LineAt, Kind
<1>6. ~IsLine(n + 1)' /\ \A t : ~Moves(n + 1, t)'
  BY <1>2, <1>4 DEF IsLine, Moves, Tells, Kind
<1>7. \A i \in Places' : i \in 0..n \/ i = n + 1
  BY <1>4 DEF Places
<1>8. \A i \in Places' : PlaceTrue(i)' /\ ~(Fresh(i)' /\ IsLine(i)')
  BY <1>5, <1>6, <1>7 DEF PlaceTrue, Ascends, Through, Announced
<1>9. LinesInTime' /\ Delivered'
  BY <1>1, <1>8 DEF LinesInTime, Delivered, OfLatest, Begun
<1>10. Held' /\ announced' \in Nat
  BY <1>1 DEF Header, Held, SlotTaken
<1> QED
  BY <1>8, <1>9, <1>10 DEF Header

\* A job begins: none of its batches is told of, and none of its targets.
LEMMA BeginRunKeepsHeader == ASSUME Board, Job, Header, BeginRun PROVE Header'
<1>1. /\ eng = "ready" /\ eng' = "run"
      /\ status' = [t \in AllTargets |-> "pending"]
      /\ sent' = [t \in AllTargets |-> "none"]
      /\ announced' = 0
      /\ UNCHANGED <<rows, batchNum, opts>>
  BY DEF BeginRun, boardVars
<1>2. PICK m : Courses(m) /\ m.kind = "phase" /\ events' = Append(events, m)
  BY Sending DEF BeginRun
<1>3. PICK n : n = Len(events)
  OBVIOUS
<1>4. /\ n \in Nat /\ Len(events') = n + 1
      /\ \A i \in 0..n :
            /\ Fresh(i)' <=> Fresh(i)
            /\ IsLine(i)' <=> IsLine(i)
            /\ LineAt(i)' = LineAt(i)
            /\ \A t : Moves(i, t)' <=> Moves(i, t)
      /\ ~IsLine(n + 1)'
      /\ \A t : ~Moves(n + 1, t)'
  <2>1. m.kind \notin {"loop", "batch", "start", "result"}
    BY <1>2 DEF Courses
  <2> QED
    BY <1>1, <1>2, <1>3, <2>1, SendPlaces DEF Board, Typed
<1>5. NothingYet
  BY <1>1 DEF NothingYet, Begun
<1>6. ASSUME NEW i \in 0..n, Fresh(i), NEW t \in AllTargets PROVE ~Moves(i, t)
  <2>1. CASE i = 0
    <3>1. Quiet("loop")
      BY <1>3, <1>4, <1>6, <2>1 DEF Fresh, Quiet, Positions
    <3> QED
      BY <1>5, <2>1, <3>1 DEF Board, Fresh0, Moves, Queued
  <2>2. CASE i # 0
    <3>1. i \in Positions
      BY <1>3, <2>2 DEF Positions
    <3>2. events[i].kind \notin {"start", "result"}
      BY <1>5, <1>6, <3>1 DEF Board, Fresh0, Current
    <3> QED
      BY <2>2, <3>2 DEF Moves, Tells, Kind
  <2> QED
    BY <2>1, <2>2
<1>7. \A i \in 0..n : PlaceTrue(i) /\ (Fresh(i) /\ IsLine(i) => LineAt(i) = 0)
  BY <1>3, <1>5 DEF Header, LinesInTime, Places
<1>8. /\ Waves!Batches' = Waves!Batches /\ BatchNos' = BatchNos
      /\ \A b \in BatchNos : Waves!Batches[b] \subseteq AllTargets
  BY <1>1, SameBatches, BatchFacts DEF Job
<1>9. ASSUME NEW i \in 0..n PROVE PlaceTrue(i)' /\ (Fresh(i)' /\ IsLine(i)' => LineAt(i)' = 0)
  <2>1. Fresh(i)' /\ IsLine(i)' => LineAt(i)' = 0
    BY <1>4, <1>7
  <2>2. Ascends(i)'
    <3>1. \A j \in 0..i : j \in 0..n
      BY <1>4
    <3> QED
      BY <1>4, <1>7, <3>1 DEF PlaceTrue, Ascends
  <2>3. Through(i)'
    BY <1>8, <2>1 DEF Through, BatchNos
  <2>4. Announced(i)'
    BY <1>4, <1>6, <1>8 DEF Announced
  <2> QED
    BY <2>1, <2>2, <2>3, <2>4 DEF PlaceTrue
<1>10. \A i \in Places' : i \in 0..n \/ i = n + 1
  BY <1>4 DEF Places
<1>11. \A i \in Places' : PlaceTrue(i)' /\ (Fresh(i)' /\ IsLine(i)' => LineAt(i)' = 0)
  BY <1>4, <1>9, <1>10 DEF PlaceTrue, Ascends, Through, Announced
<1>12. LinesInTime'
  BY <1>1, <1>8, <1>11 DEF LinesInTime, NothingYet, Begun
<1>13. Delivered' /\ Held'
  BY <1>1 DEF Delivered, Held, SlotTaken
<1> QED
  BY <1>1, <1>11, <1>12, <1>13 DEF Header

\* The batches before the current one are through, and told to be.
LEMMA EarlierTold ==
    ASSUME Board, Job, Header, eng = "run", phase = "batch",
           NEW c \in BatchNos, c < batch, NEW t \in Waves!Batches[c]
    PROVE  status[t] = "skip" \/ Told(t, Len(events))
<1>1. Stage!IInv /\ opts \in Waves!Options
  BY DEF Job, NotYet, AfterRun
<1>2. /\ Stage!NBatches \in Nat
      /\ \A i, j \in 1..(Stage!NBatches + 1) : i <= j => Stage!Cut[i] <= Stage!Cut[j]
      /\ \A b \in 1..Stage!NBatches :
            /\ Stage!Cut[b] \in Nat /\ Stage!Cut[b + 1] \in Nat
            /\ Stage!Batches[b] = Stage!Cut[b]..(Stage!Cut[b + 1] - 1)
  BY <1>1, StageHolds, SameStages, Stage!CutFacts
<1>3. c \in 1..Stage!NBatches /\ t \in Stage!Batches[c] /\ Stage!NBatches > 0
  BY <1>2, SameStages DEF BatchNos
<1>4. batch \in 1..Stage!NBatches /\ scope = Waves!Batches[batch]
  BY <1>1, <1>3, SameStages DEF Stage!IInv, Stage!Place
<1>5. t \in AllTargets
  BY <1>1, BatchFacts
<1>6. t < Stage!Cut[batch]
  <2>1. c + 1 \in 1..(Stage!NBatches + 1) /\ batch \in 1..(Stage!NBatches + 1) /\ c + 1 <= batch
    BY <1>2, <1>3, <1>4
  <2>2. Stage!Cut[c + 1] <= Stage!Cut[batch]
    BY <1>2, <2>1
  <2>3. t \in Stage!Cut[c]..(Stage!Cut[c + 1] - 1)
    BY <1>2, <1>3
  <2> QED
    BY <1>2, <1>3, <1>4, <2>2, <2>3
<1>7. status[t] \in {"ok", "fail", "skip"}
  BY <1>1, <1>3, <1>5, <1>6, SameStages DEF Stage!IInv, Stage!Barrier, Stage!Ended
<1>8. t \notin scope
  <2>1. c \in BatchNos /\ batch \in BatchNos /\ c # batch
    BY <1>2, <1>3, <1>4, SameStages DEF BatchNos
  <2> QED
    BY <1>1, <1>4, <2>1, BatchFacts
<1>9. status[t] \in {"ok", "fail"} => sent[t] = "result"
  BY <1>5, <1>8 DEF Header, Held, SlotTaken
<1>10. OfLatest
  BY DEF OfLatest, Begun, Ending
<1> QED
  BY <1>5, <1>7, <1>9, <1>10 DEF Header, Delivered

LEMMA AnnounceBatchKeepsHeader == ASSUME Board, Job, Header, AnnounceBatch PROVE Header'
<1>1. /\ eng = "run" /\ eng' = "run" /\ phase = "batch"
      /\ announced < batch /\ announced' = batch
      /\ UNCHANGED <<rows, batchNum, status, sent, scope, opts, batch>>
  BY DEF AnnounceBatch, runVars, stageVars, engVars, boardVars
<1>2. PICK m : m.kind = "batch" /\ m.arg = batch /\ events' = Append(events, m)
  <2>1. PICK m : m = Msg("batch", batch)
    OBVIOUS
  <2> QED
    BY <2>1 DEF AnnounceBatch, Send, Msg
<1>3. PICK n : n = Len(events)
  OBVIOUS
<1>4. /\ n \in Nat /\ Len(events') = n + 1
      /\ Fresh(n + 1)' /\ IsLine(n + 1)' /\ LineAt(n + 1)' = batch
      /\ \A t : ~Moves(n + 1, t)' /\ ~Tells(n + 1, t)'
      /\ \A t : Told(t, n) => Told(t, n + 1)'
  BY <1>1, <1>2, <1>3, SendPlaces, SendTold DEF Board, Typed
<1>5. batch \in Nat /\ announced \in Nat
  <2>1. Stage!IInv /\ opts \in Stage!Options
    BY <1>1, SameStages DEF Job, NotYet, AfterRun
  <2>2. Stage!NBatches > 0
    BY <2>1, StageHolds, WatcherAssumption, Stage!CutFacts
  <2>3. batch \in 1..Stage!NBatches
    BY <2>1, <2>2 DEF Stage!IInv, Stage!Place
  <2> QED
    BY <2>3 DEF Header
<1>6. ASSUME NEW i \in 0..n
      PROVE  /\ PlaceTrue(i)'
             /\ Fresh(i)' /\ IsLine(i)' => LineAt(i)' \in Nat /\ LineAt(i)' <= announced
  <2>1. events' = events \/ \E k : k.kind # "loop" /\ events' = Append(events, k)
    BY <1>2
  <2>2. /\ PlaceTrue(i)'
        /\ (Fresh(i)' <=> Fresh(i)) /\ (IsLine(i)' <=> IsLine(i)) /\ LineAt(i)' = LineAt(i)
    BY <1>1, <1>3, <2>1, PlacesStand
  <2>3. Fresh(i) /\ IsLine(i) => LineAt(i) \in Nat /\ LineAt(i) <= announced
    BY <1>1, <1>3 DEF Header, LinesInTime, PlaceTrue, Ascends, Places
  <2> QED
    BY <2>2, <2>3
<1>7. /\ Waves!Batches' = Waves!Batches /\ BatchNos' = BatchNos /\ (Staged' <=> Staged)
      /\ BatchNos \subseteq Nat
  BY <1>1, SameBatches, BatchFacts DEF Job, BatchNos
<1>8. \A i \in 0..(n + 1) : i \in 0..n \/ i = n + 1
  BY <1>4
<1>9. PlaceTrue(n + 1)'
  <2>1. Ascends(n + 1)'
    BY <1>1, <1>4, <1>5, <1>6, <1>8 DEF Ascends
  <2>2. ASSUME NEW c \in BatchNos, c < batch, NEW t \in Waves!Batches[c]
        PROVE  status[t] = "skip" \/ Told(t, n + 1)'
    BY <1>1, <1>3, <1>4, <2>2, EarlierTold
  <2>3. Through(n + 1)'
    BY <1>1, <1>4, <1>7, <2>2 DEF Through
  <2>4. Announced(n + 1)'
    BY <1>4 DEF Announced
  <2> QED
    BY <2>1, <2>3, <2>4 DEF PlaceTrue
<1>10. \A i \in Places' : PlaceTrue(i)' /\ (Fresh(i)' /\ IsLine(i)' => LineAt(i)' <= batch)
  <2>1. Places' = 0..(n + 1)
    BY <1>4 DEF Places
  <2> QED
    BY <1>1, <1>4, <1>5, <1>6, <1>8, <1>9, <2>1
<1>11. LinesInTime'
  <2>1. Lined(batch, n + 1)'
    <3>1. n + 1 \in 0..(n + 1) /\ batch >= batch
      BY <1>4, <1>5
    <3> QED
      BY <1>1, <1>4, <1>5, <3>1 DEF Lined
  <2>2. Lined(announced, Len(events))'
    BY <1>1, <1>4, <2>1 DEF Lined
  <2>3. Staged' => \A c \in BatchNos : \A t \in Waves!Batches[c] :
            status'[t] # "pending" => c <= announced'
    BY <1>1, <1>5, <1>7 DEF Header, LinesInTime
  <2>4. ~NothingYet'
    BY <1>1 DEF NothingYet, Begun
  <2> QED
    BY <1>1, <1>7, <1>10, <2>2, <2>3, <2>4 DEF LinesInTime
<1>12. Delivered'
  <2>1. OfLatest
    BY <1>1 DEF OfLatest, Begun, Ending
  <2>2. \A t \in AllTargets : sent[t] = "result" => Told(t, n + 1)'
    BY <1>3, <1>4, <2>1 DEF Header, Delivered
  <2> QED
    BY <1>1, <1>4, <2>2 DEF Delivered, Told
<1>13. Held' /\ announced' \in Nat
  BY <1>1, <1>5 DEF Header, Held, SlotTaken
<1> QED
  BY <1>10, <1>11, <1>12, <1>13 DEF Header

\* A worker tells of its target, whose batch has been announced.
LEMMA TellKeepsHeader ==
    ASSUME Board, Job, Header, NEW t \in AllTargets, SendStart(t) \/ SendResult(t)
    PROVE  Header'
<1>1. /\ UNCHANGED <<rows, batchNum, status, scope, opts, announced, eng>>
      /\ status[t] \in {"running", "ok", "fail"}
      /\ eng = "run"
  BY DEF SendStart, SendResult, SlotTaken, Board, Slots, runVars, otherVars, engVars, boardVars,
     stageVars
<1>2. PICK m : /\ events' = Append(events, m)
               /\ \/ m.kind = "start" /\ m.arg = t
                  \/ m.kind = "result" /\ m.arg[1] = t
               /\ sent' = [sent EXCEPT ![t] = m.kind]
  <2>1. CASE SendStart(t)
    <3>1. PICK m : m = Msg("start", t)
      OBVIOUS
    <3>2. m.kind = "start" /\ m.arg = t
      BY <3>1 DEF Msg
    <3> QED
      BY <2>1, <3>1, <3>2 DEF SendStart, Send
  <2>2. CASE SendResult(t)
    <3>1. PICK m : m = Msg("result", <<t, status[t]>>)
      OBVIOUS
    <3>2. m.kind = "result" /\ m.arg[1] = t
      BY <3>1 DEF Msg
    <3> QED
      BY <2>2, <3>1, <3>2 DEF SendResult, Send
  <2> QED
    BY <2>1, <2>2
<1>3. PICK n : n = Len(events)
  OBVIOUS
<1>4. /\ n \in Nat /\ Len(events') = n + 1
      /\ Fresh(n + 1)' /\ ~IsLine(n + 1)'
      /\ \A u : Moves(n + 1, u)' => u = t
      /\ m.kind = "result" => Tells(n + 1, t)'
      /\ \A u : Told(u, n) => Told(u, n + 1)'
      /\ \A c : Lined(c, n) => Lined(c, n + 1)'
  BY <1>1, <1>2, <1>3, SendPlaces, SendTold DEF Board, Typed
<1>5. ASSUME NEW i \in 0..n
      PROVE  /\ PlaceTrue(i)'
             /\ (Fresh(i)' <=> Fresh(i)) /\ (IsLine(i)' <=> IsLine(i)) /\ LineAt(i)' = LineAt(i)
  <2>1. events' = events \/ \E k : k.kind # "loop" /\ events' = Append(events, k)
    BY <1>2
  <2> QED
    BY <1>1, <1>3, <2>1, PlacesStand
<1>6. /\ Waves!Batches' = Waves!Batches /\ BatchNos' = BatchNos /\ (Staged' <=> Staged)
      /\ BatchNos \subseteq Nat \ {0}
  BY <1>1, SameBatches, BatchFacts DEF Job, BatchNos
<1>7. PlaceTrue(n + 1)'
  <2>1. ASSUME Staged, NEW c \in BatchNos, t \in Waves!Batches[c] PROVE Lined(c, n + 1)'
    <3>1. c <= announced /\ announced \in Nat
      BY <1>1, <2>1 DEF Header, LinesInTime
    <3>2. announced > 0
      BY <1>6, <3>1
    <3>3. PICK a : a = announced
      OBVIOUS
    <3>4. Lined(a, n)
      BY <1>1, <1>3, <3>2, <3>3 DEF Header, LinesInTime
    <3>5. PICK j \in 0..n : Fresh(j) /\ IsLine(j) /\ LineAt(j) >= a
      BY <3>4 DEF Lined
    <3>6. LineAt(j) \in Nat
      BY <1>3, <3>5 DEF Header, PlaceTrue, Ascends, Places
    <3>7. Lined(c, n)
      BY <1>6, <3>1, <3>3, <3>5, <3>6 DEF Lined
    <3> QED
      BY <1>4, <3>7
  <2>2. Announced(n + 1)'
    BY <1>4, <1>6, <2>1 DEF Announced
  <2> QED
    BY <1>4, <2>2 DEF PlaceTrue, Ascends, Through
<1>8. \A i \in Places' : i \in 0..n \/ i = n + 1
  BY <1>4 DEF Places
<1>9. \A i \in Places' : PlaceTrue(i)'
  BY <1>5, <1>7, <1>8
<1>10. LinesInTime'
  <2>1. \A i \in Places' : Fresh(i)' /\ IsLine(i)' => LineAt(i)' <= announced
    BY <1>1, <1>3, <1>4, <1>5, <1>8 DEF Header, LinesInTime, Places
  <2>2. PICK a : a = announced
    OBVIOUS
  <2>3. a > 0 => Lined(a, n + 1)'
    BY <1>1, <1>3, <1>4, <2>2 DEF Header, LinesInTime
  <2>4. announced' > 0 => Lined(announced, Len(events))'
    BY <1>1, <1>4, <2>2, <2>3 DEF Lined
  <2>5. ~NothingYet'
    BY <1>1 DEF NothingYet, Begun
  <2> QED
    BY <1>1, <1>6, <2>1, <2>4, <2>5 DEF Header, LinesInTime
<1>11. Delivered'
  <2>1. OfLatest
    BY <1>1 DEF OfLatest, Begun, Ending
  <2>2. ASSUME NEW u \in AllTargets, sent'[u] = "result" PROVE Told(u, n + 1)'
    <3>1. CASE u = t
      <4>1. m.kind = "result"
        BY <1>2, <2>2, <3>1 DEF Board, Typed
      <4>2. Tells(n + 1, u)' /\ n + 1 \in 0..(n + 1)
        BY <1>4, <3>1, <4>1
      <4> QED
        BY <1>4, <4>2 DEF Told
    <3>2. CASE u # t
      <4>1. sent[u] = "result"
        BY <1>2, <2>2, <3>2 DEF Board, Typed
      <4> QED
        BY <1>3, <1>4, <2>1, <4>1 DEF Header, Delivered
    <3> QED
      BY <3>1, <3>2
  <2> QED
    BY <1>4, <2>2 DEF Delivered, Told
<1>12. Held' /\ announced' \in Nat
  <2>1. \A u \in AllTargets : sent'[u] = IF u = t THEN m.kind ELSE sent[u]
    BY <1>2 DEF Board, Typed
  <2>2. t \in scope
    BY <1>1 DEF SendStart, SendResult, Header, Held, SlotTaken
  <2> QED
    BY <1>1, <2>1, <2>2 DEF Header, Held, SlotTaken
<1> QED
  BY <1>9, <1>10, <1>11, <1>12 DEF Header

\* A message is taken.
LEMMA UpdateKeepsHeader == ASSUME Board, Job, Course, Header, Update PROVE Header'
<1>1. /\ UNCHANGED <<status, sent, scope, opts, announced, eng, loop>> /\ (forever' <=> forever)
      /\ events # <<>> /\ events' = Tail(events)
  BY DEF Update, jobVars, runVars, stageVars, engVars
<1>2. PICK h : h = Head(events)
  OBVIOUS
<1>3. Apply(h)
  BY <1>2 DEF Update
<1>4. PICK n : n = Len(events)
  OBVIOUS
<1>5. /\ n \in Nat /\ n >= 1 /\ Len(events') = n - 1
      /\ \A i \in 0..(n - 1) : Fresh(i)' <=> Fresh(i + 1)
      /\ \A i \in 1..(n - 1) :
            /\ IsLine(i)' <=> IsLine(i + 1)
            /\ LineAt(i)' = LineAt(i + 1)
            /\ \A t : (Tells(i, t)' <=> Tells(i + 1, t)) /\ (Moves(i, t)' <=> Moves(i + 1, t))
      /\ Fresh(0) <=> Fresh(1) /\ h.kind # "loop"
      /\ h.kind = "loop" =>
            LineAt(0)' = 0 /\ \A t \in AllTargets : ~Tells(0, t)' /\ ~Moves(0, t)'
      /\ h.kind = "batch" => IsLine(1) /\ LineAt(0)' = LineAt(1)
      /\ h.kind \notin {"loop", "batch"} => ~IsLine(1) /\ LineAt(0)' = LineAt(0)
      /\ h.kind # "loop" => \A t \in AllTargets :
            /\ Tells(0, t)' <=> Tells(0, t) \/ Tells(1, t)
            /\ Moves(0, t)' <=> Moves(0, t) \/ Moves(1, t)
  BY <1>1, <1>2, <1>3, <1>4, TakePlaces
<1>6. \A i \in 0..n : PlaceTrue(i)
  BY <1>4 DEF Header, Places
<1>7. IsLine(0) /\ IsLine(0)' /\ 0 \in 0..n /\ 1 \in 0..n /\ 0 \in 0..1 /\ 0 \in 0..(n - 1)
  BY <1>5 DEF IsLine
<1>8. /\ LineAt(0) \in Nat
      /\ IsLine(1) => LineAt(1) \in Nat
      /\ Fresh(1) /\ Fresh(0) /\ IsLine(1) => LineAt(0) <= LineAt(1)
  BY <1>6, <1>7 DEF PlaceTrue, Ascends
<1>9. /\ \A t \in AllTargets, i \in 0..(n - 1) : Told(t, i + 1) => Told(t, i)'
      /\ \A c \in Nat, i \in 0..(n - 1) : Lined(c, i + 1) => Lined(c, i)'
  BY <1>1, <1>2, <1>3, <1>4, <1>8, TakeTold
<1>10. /\ Waves!Batches' = Waves!Batches /\ BatchNos' = BatchNos /\ (Staged' <=> Staged)
       /\ BatchNos \subseteq Nat
       /\ \A b \in BatchNos : Waves!Batches[b] \subseteq AllTargets
  BY <1>1, SameBatches, BatchFacts DEF Job, BatchNos
\* The lines that are left are lines there were, or that of a board reset.
<1>11. ASSUME NEW i \in 0..(n - 1), Fresh(i)', IsLine(i)'
       PROVE  \/ LineAt(i)' = 0
              \/ \E k \in {i, i + 1} : Fresh(k) /\ IsLine(k) /\ k \in 0..n /\ LineAt(i)' = LineAt(k)
  <2>1. CASE i = 0
    <3>1. Fresh(1)
      BY <1>5, <1>7, <1>11, <2>1
    <3>2. CASE h.kind = "loop"
      BY <1>5, <2>1, <3>2
    <3>3. CASE h.kind = "batch"
      BY <1>5, <1>7, <2>1, <3>1, <3>3
    <3>4. CASE h.kind \notin {"loop", "batch"}
      BY <1>5, <1>7, <2>1, <3>1, <3>4
    <3> QED
      BY <3>2, <3>3, <3>4
  <2>2. CASE i # 0
    <3>1. i \in 1..(n - 1) /\ i + 1 \in 0..n
      BY <1>5, <2>2
    <3> QED
      BY <1>5, <1>11, <3>1
  <2> QED
    BY <2>1, <2>2
<1>12. ASSUME NEW i \in 0..(n - 1) PROVE Ascends(i)'
  <2>1. IsLine(i)' => LineAt(i)' \in Nat
    <3>1. CASE i = 0
      BY <1>5, <1>8, <3>1
    <3>2. CASE i # 0
      <4>1. i \in 1..(n - 1) /\ i + 1 \in 0..n
        BY <1>5, <3>2
      <4> QED
        BY <1>5, <1>6, <4>1 DEF PlaceTrue, Ascends
    <3> QED
      BY <3>1, <3>2
  <2>2. ASSUME Fresh(i)', IsLine(i)', NEW j \in 0..i, Fresh(j)', IsLine(j)'
        PROVE  LineAt(j)' <= LineAt(i)'
    <3>1. CASE i = 0
      BY <2>1, <2>2, <3>1
    <3>2. CASE i # 0
      <4>1. i \in 1..(n - 1) /\ i + 1 \in 0..n /\ j \in 0..(n - 1)
        BY <1>5, <3>2
      <4>2. Fresh(i + 1) /\ IsLine(i + 1) /\ LineAt(i)' = LineAt(i + 1)
        BY <1>5, <2>2, <4>1
      <4>3. \A k \in 0..(i + 1) : Fresh(k) /\ IsLine(k) => LineAt(k) <= LineAt(i + 1)
        BY <1>6, <4>1, <4>2 DEF PlaceTrue, Ascends
      <4>4. j \in 0..(i + 1) /\ j + 1 \in 0..(i + 1)
        BY <4>1
      <4>5. LineAt(i + 1) \in Nat
        BY <1>6, <4>1, <4>2 DEF PlaceTrue, Ascends
      <4>6. CASE LineAt(j)' = 0
        BY <4>2, <4>5, <4>6
      <4>7. CASE \E k \in {j, j + 1} : Fresh(k) /\ IsLine(k) /\ LineAt(j)' = LineAt(k)
        BY <4>2, <4>3, <4>4, <4>7
      <4> QED
        BY <1>11, <2>2, <4>1, <4>6, <4>7
    <3> QED
      BY <3>1, <3>2
  <2> QED
    BY <2>1, <2>2 DEF Ascends
<1>13. ASSUME NEW i \in 0..(n - 1) PROVE Through(i)'
  <2> SUFFICES ASSUME Fresh(i)', IsLine(i)', NEW c \in BatchNos, c < LineAt(i)',
                      NEW t \in Waves!Batches[c]
               PROVE  status[t] = "skip" \/ Told(t, i)'
    BY <1>1, <1>10 DEF Through
  <2>1. LineAt(i)' # 0
    BY <1>10 DEF BatchNos
  <2>2. PICK k \in {i, i + 1} : Fresh(k) /\ IsLine(k) /\ k \in 0..n /\ LineAt(i)' = LineAt(k)
    BY <1>11, <2>1
  <2>3. status[t] = "skip" \/ Told(t, k)
    BY <1>6, <2>2 DEF PlaceTrue, Through
  <2>4. i \in Nat /\ i + 1 \in Nat /\ i <= i + 1
    OBVIOUS
  <2>5. status[t] = "skip" \/ Told(t, i + 1)
    BY <2>2, <2>3, <2>4, LaterPlace
  <2> QED
    BY <1>9, <1>10, <2>5
<1>14. ASSUME NEW i \in 0..(n - 1) PROVE Announced(i)'
  <2> SUFFICES ASSUME Staged, Fresh(i)', NEW c \in BatchNos, NEW t \in Waves!Batches[c], Moves(i, t)'
               PROVE  Lined(c, i)'
    BY <1>10 DEF Announced
  <2>1. i + 1 \in 0..n /\ i \in 0..n /\ i \in Nat /\ i + 1 \in Nat /\ i <= i + 1
    BY <1>5
  <2>2. Fresh(i + 1) /\ t \in AllTargets /\ c \in Nat
    BY <1>5, <1>10
  <2>3. CASE Moves(i + 1, t)
    <3>1. Lined(c, i + 1)
      BY <1>6, <2>1, <2>2, <2>3 DEF PlaceTrue, Announced
    <3> QED
      BY <1>9, <2>2, <3>1
  <2>4. CASE ~Moves(i + 1, t)
    <3>1. i = 0 /\ h.kind # "loop" /\ Moves(0, t)
      BY <1>5, <2>2, <2>4
    <3>2. Fresh(0)
      BY <1>5, <2>2, <3>1
    <3>3. Lined(c, i)
      BY <1>6, <2>1, <3>1, <3>2 DEF PlaceTrue, Announced
    <3>4. Lined(c, i + 1)
      BY <2>1, <3>3, LaterPlace
    <3> QED
      BY <1>9, <2>2, <3>4
  <2> QED
    BY <2>3, <2>4
<1>15. Places' = 0..(n - 1)
  BY <1>5 DEF Places
<1>16. \A i \in Places' : PlaceTrue(i)'
  BY <1>12, <1>13, <1>14, <1>15 DEF PlaceTrue
<1>17. n - 1 \in 0..(n - 1) /\ (n - 1) + 1 = n
  BY <1>5
<1>18. LinesInTime'
  <2>1. NothingYet' <=> NothingYet
    BY <1>1 DEF NothingYet, Looping
  <2>2. ASSUME NEW x \in Nat, \A i \in Places : Fresh(i) /\ IsLine(i) => LineAt(i) <= x
        PROVE  \A i \in Places' : Fresh(i)' /\ IsLine(i)' => LineAt(i)' <= x
    BY <1>4, <1>11, <1>15, <2>2 DEF Places
  <2>3. ASSUME \A i \in Places : Fresh(i) /\ IsLine(i) => LineAt(i) = 0
        PROVE  \A i \in Places' : Fresh(i)' /\ IsLine(i)' => LineAt(i)' = 0
    BY <1>4, <1>11, <1>15, <2>3 DEF Places
  <2>4. PICK a \in Nat : a = announced
    BY DEF Header
  <2>5. Lined(a, n) => Lined(a, n - 1)'
    BY <1>9, <1>17
  <2>6. Lined(announced, Len(events)) => Lined(announced, Len(events))'
    BY <1>1, <1>4, <1>5, <2>4, <2>5 DEF Lined
  <2> QED
    BY <1>1, <1>10, <2>1, <2>2, <2>3, <2>4, <2>6 DEF Header, LinesInTime
<1>19. Delivered'
  <2>1. OfLatest' => OfLatest
    <3>1. \A s : ShowsNote(s) => ShowsNote(s)'
      BY <1>1, <1>2, <1>3, TakeShows
    <3> QED
      BY <1>1, <3>1 DEF OfLatest
  <2>2. \A t \in AllTargets : Told(t, n) => Told(t, n - 1)'
    BY <1>9, <1>17
  <2>3. OfLatest => \A t \in AllTargets : sent[t] = "result" => Told(t, n)
    BY <1>4 DEF Header, Delivered
  <2> QED
    BY <1>1, <1>5, <2>1, <2>2, <2>3 DEF Delivered, Told
<1>20. Held' /\ announced' \in Nat
  BY <1>1 DEF Header, Held, SlotTaken
<1> QED
  BY <1>16, <1>18, <1>19, <1>20 DEF Header

\* The goroutine on its way.
LEMMA GoingKeepsHeader ==
    ASSUME Board, Job, Header,
           AnnounceWait \/ BadStart \/ WaitOver \/ WaitCancelled \/ Top
           \/ AnnouncePre \/ PreStarts \/ PrePasses \/ PreFails
           \/ AnnouncePost \/ PostStarts \/ PostFails \/ Finish
           \/ EndRun \/ PostPasses
    PROVE  Header'
<1>1. UNCHANGED <<rows, batchNum, announced, sent, status, scope, opts>>
  BY DEF AnnounceWait, BadStart, WaitOver, WaitCancelled, Top, AnnouncePre, PreStarts, PrePasses,
     PreFails, AnnouncePost, PostStarts, PostFails, Finish, EndRun, PostPasses, ControlStarts,
     GoOn, SendAndGo, jobVars, runVars, stageVars, boardVars
<1>2. eng' # "run" /\ (NothingYet' => NothingYet)
  BY ComesToNothing, ComesToNext
<1>3. ASSUME NEW kind \in {"wait", "phase", "done"}, NEW arg, Send(Msg(kind, arg))
      PROVE  \E m : Courses(m) /\ m.kind # "batch" /\ m.kind = kind /\ m.arg = arg
                    /\ events' = Append(events, m)
  <2>1. kind # "batch"
    BY <1>3
  <2> QED
    BY <1>3, <2>1, Sending
<1>4. events' = events \/ \E m : Courses(m) /\ m.kind # "batch" /\ events' = Append(events, m)
  <2>1. CASE BadStart \/ WaitOver \/ WaitCancelled \/ Top \/ PreStarts \/ PrePasses \/ PostStarts \/ EndRun
    BY <2>1 DEF BadStart, WaitOver, WaitCancelled, Top, PreStarts, PrePasses, PostStarts, EndRun,
       ControlStarts, GoOn
  <2>2. CASE AnnounceWait \/ AnnouncePre \/ PreFails \/ AnnouncePost \/ PostFails \/ PostPasses
    BY <1>3, <2>2 DEF AnnounceWait, AnnouncePre, PreFails, AnnouncePost, PostFails, PostPasses,
       SendAndGo
  <2>3. CASE Finish
    <3>1. PICK a : a = total
      OBVIOUS
    <3>2. Send(Msg("done", a))
      BY <2>3, <3>1 DEF Finish, SendAndGo
    <3> QED
      BY <1>3, <3>2
  <2> QED
    BY <2>1, <2>2, <2>3
<1>5. OfLatest' => OfLatest
  <2>1. CASE eng \notin Begun \cup Ending
    BY <2>1 DEF OfLatest
  <2>2. CASE AnnouncePre \/ PreStarts \/ PrePasses
    BY <2>2 DEF AnnouncePre, PreStarts, PrePasses, ControlStarts, SendAndGo, GoOn, OfLatest, Begun
  <2>3. CASE PreFails
    <3>1. eng' = "finish" /\ \E m : m.kind = "phase" /\ m.arg = "preFailed" /\ events' = Append(events, m)
      BY <1>3, <2>3 DEF PreFails, SendAndGo
    <3>2. Latest("phase", "preFailed")'
      BY <3>1, SendSame DEF Board, Typed
    <3> QED
      BY <3>1, <3>2 DEF OfLatest, ShowsNote, Ending
  <2>4. CASE Finish
    <3>1. eng = "finish" /\ eng' = "exited" /\ UNCHANGED <<loopNum, note>>
      BY <2>4 DEF Finish, SendAndGo, boardVars
    <3>2. PICK a : a = total
      OBVIOUS
    <3>3. \E m : m.kind # "phase" /\ events' = Append(events, m)
      <4>1. Send(Msg("done", a))
        BY <2>4, <3>2 DEF Finish, SendAndGo
      <4> QED
        BY <1>3, <4>1
    <3>4. \A s : ShowsNote(s) => ShowsNote(s)'
      BY <3>1, <3>3, ShowsStay DEF Board, Typed
    <3> QED
      BY <3>1, <3>4 DEF OfLatest, Begun, Ending
  <2>5. CASE AnnounceWait \/ BadStart \/ WaitOver \/ WaitCancelled \/ Top
             \/ AnnouncePost \/ PostStarts \/ PostFails \/ EndRun \/ PostPasses
    <3>1. eng \notin Begun \cup Ending
      BY <2>5 DEF AnnounceWait, BadStart, WaitOver, WaitCancelled, Top, AnnouncePost, PostStarts,
         PostFails, EndRun, PostPasses, ControlStarts, ControlFails, Begun, Ending
    <3> QED
      BY <2>1, <3>1
  <2> QED
    BY <2>2, <2>3, <2>4, <2>5
<1>6. Held'
  BY <1>1 DEF Header, Held, SlotTaken
<1> QED
  BY <1>1, <1>2, <1>4, <1>5, <1>6, HeaderStands

\* RunWaves between its batches.
LEMMA StageStepKeepsHeader == ASSUME Board, Job, Header, StageStep PROVE Header'
<1>1. /\ eng = "run" /\ eng' = "run" /\ (phase # "batch" \/ over)
      /\ UNCHANGED <<rows, batchNum, announced, sent, status, opts, events>>
  BY DEF StageStep, Waves!Collect, Waves!GateStart, Waves!HealthPasses, Waves!HealthFails,
     Waves!PauseEnds, Waves!PauseInterrupted, Waves!AfterGate, Waves!NextBatch, Waves!Return,
     Waves!runVars, engVars, boardVars
<1>2. Held'
  BY <1>1 DEF Board, Slots, Header, Held, SlotTaken
<1>3. ~NothingYet' /\ OfLatest
  BY <1>1 DEF NothingYet, OfLatest, Begun, Ending
<1> QED
  BY <1>1, <1>2, <1>3, HeaderStands

\* The Run of the current batch.
LEMMA RunKeepsHeader ==
    ASSUME Board, Job, Header,
           \/ \E t \in AllTargets :
                StartTarget(t) \/ SkipOne(t) \/ \E o \in {"ok", "fail"} : EndTarget(t, o)
           \/ ReturnRun
    PROVE  Header'
<1>1. /\ eng = "run" /\ eng' = "run" /\ Underway
      /\ UNCHANGED <<rows, batchNum, announced, sent, opts, events, scope>>
  BY DEF StartTarget, SkipOne, EndTarget, ReturnRun, Underway, Run!Start, Run!SkipTarget,
     Run!Finish, Run!Return, otherVars, stageVars, engVars, boardVars
<1>2. ~NothingYet' /\ OfLatest
  BY <1>1 DEF NothingYet, OfLatest, Begun, Ending
<1>3. CASE ReturnRun
  <2>1. status' = status
    BY <1>3 DEF ReturnRun, Run!Return
  <2>2. Held'
    BY <1>1, <2>1 DEF Header, Held, SlotTaken
  <2> QED
    BY <1>1, <1>2, <2>1, <2>2, HeaderStands
<1>4. ASSUME NEW t \in AllTargets,
             StartTarget(t) \/ SkipOne(t) \/ \E o \in {"ok", "fail"} : EndTarget(t, o)
      PROVE  Header'
  <2>1. t \in scope
    BY <1>4 DEF StartTarget, SkipOne, EndTarget, Run!Start, Run!SkipTarget, Run!Finish,
       Run!Frontier, Run!Having
  <2>2. PICK o \in {"running", "skip", "ok", "fail"} :
            /\ status' = [status EXCEPT ![t] = o]
            /\ o \in {"running", "skip"} => status[t] = "pending"
            /\ o \in {"ok", "fail"} => status[t] = "running"
    BY <1>4, WorkerEffect
  <2>3. /\ \A u \in AllTargets : status'[u] = IF u = t THEN o ELSE status[u]
        /\ \A u \in AllTargets : status[u] = "skip" => status'[u] = "skip"
    BY <2>2 DEF Board, Typed
  <2>4. Held'
    BY <1>1, <2>1, <2>2, <2>3 DEF Header, Held, SlotTaken
  <2>5. ASSUME Staged, NEW c \in BatchNos, NEW u \in Waves!Batches[c],
               status[u] = "pending" /\ status'[u] # "pending"
        PROVE  c <= announced
    <3>1. Stage!IInv /\ opts \in Waves!Options
      BY <1>1 DEF Job, NotYet, AfterRun
    <3>2. Waves!NBatches \in Nat /\ u \in AllTargets
      BY <3>1, BatchFacts
    <3>3. batch \in BatchNos /\ scope = Waves!Batches[batch]
      <4>1. Stage!NBatches > 0
        BY <3>2, SameStages DEF BatchNos
      <4> QED
        BY <3>1, <4>1, SameStages DEF Stage!IInv, Stage!Place, BatchNos
    <3>4. u = t
      BY <2>3, <2>5, <3>2
    <3>5. c = batch
      BY <2>1, <3>1, <3>3, <3>4, BatchFacts
    <3> QED
      BY <1>1, <2>5, <3>3, <3>5 DEF Underway, BatchNos
  <2> QED
    BY <1>1, <1>2, <2>3, <2>4, <2>5, HeaderStands
<1> QED
  BY <1>3, <1>4

LEMMA HeaderStep == ASSUME Board, Course, Job, Header, [Next]_vars PROVE Header'
<1>1. CASE KeyQuit \/ UNCHANGED vars
  <2>1. UNCHANGED <<rows, batchNum, announced, sent, status, scope, opts, events, eng, loop, note>>
        /\ (forever' <=> forever)
    BY <1>1 DEF KeyQuit, vars, jobVars, runVars, stageVars, boardVars, engVars
  <2>2. Held' /\ (NothingYet' => NothingYet)
    BY <2>1 DEF Header, Held, SlotTaken, NothingYet, Looping
  <2>3. OfLatest' => OfLatest
    BY <2>1 DEF OfLatest, ShowsNote, Latest, Quiet, Positions, Kind
  <2> QED
    BY <2>1, <2>2, <2>3, HeaderStands
<1>2. CASE Workers
  BY <1>2, RunKeepsHeader, TellKeepsHeader DEF Workers
<1>3. CASE Engine
  BY <1>3, GoingKeepsHeader, AnnounceLoopKeepsHeader, BeginRunKeepsHeader, AnnounceBatchKeepsHeader,
     StageStepKeepsHeader DEF Engine
<1> QED
  BY <1>1, <1>2, <1>3, UpdateKeepsHeader DEF Next, Exited

LEMMA HeaderBegins == Init => Header
<1> SUFFICES ASSUME Init PROVE Header
  OBVIOUS
<1>1. /\ events = <<>> /\ rows = Queued /\ batchNum = 0 /\ announced = 0
      /\ eng \in {"wait", "top"}
      /\ sent = [t \in AllTargets |-> "none"]
      /\ status = [t \in AllTargets |-> "pending"]
      /\ opts \in Waves!Options
  BY StagesAssumption DEF Init, Run!Init
<1>2. Places = {0} /\ LineAt(0) = 0 /\ \A t \in AllTargets : ~Moves(0, t)
  BY <1>1 DEF Places, LineAt, Moves, Queued
<1>3. /\ BatchNos \subseteq Nat
      /\ \A b \in BatchNos : Waves!Batches[b] \subseteq AllTargets
  BY <1>1, BatchFacts DEF BatchNos
<1>4. PlaceTrue(0)
  <2>1. \A j \in 0..0 : j = 0
    OBVIOUS
  <2>2. Ascends(0)
    BY <1>2, <2>1 DEF Ascends
  <2>3. Through(0)
    BY <1>2, <1>3 DEF Through
  <2>4. Announced(0)
    BY <1>2, <1>3 DEF Announced
  <2> QED
    BY <2>2, <2>3, <2>4 DEF PlaceTrue
<1>5. LinesInTime /\ Delivered /\ Held
  BY <1>1, <1>2 DEF LinesInTime, Delivered, Held, SlotTaken
<1> QED
  BY <1>1, <1>2, <1>4, <1>5 DEF Header

LEMMA HeaderHolds == Spec => []Header
<1>1. Board /\ Course /\ Job /\ Header /\ [Next]_vars => Header'
  BY HeaderStep
<1> QED
  BY <1>1, BoardHolds, CourseHolds, JobHolds, HeaderBegins, PTL DEF Spec

\* The batch in the header is the batch the rows are in, however far the board
\* is behind the job: every target of an earlier one is shown to have ended, or
\* was skipped, and no target of a later one is shown to have moved (the header
\* of watcher.go:335, against OnBatch, OnStart and onResult).
THEOREM BatchShownIsBatchReached == Spec => []BatchLineTruthful
<1>1. ASSUME Board, Job, Header PROVE BatchLineTruthful
  <2> SUFFICES ASSUME Staged, Pending("loop") = {}, NEW b \in BatchNos, NEW t \in Waves!Batches[b]
               PROVE  /\ b < batchNum => rows[t] \in {"ok", "fail"} \/ status[t] = "skip"
                      /\ b > batchNum => rows[t] = "queued"
    BY DEF BatchLineTruthful, BatchNos
  <2>1. Len(events) \in Nat /\ DOMAIN events = Positions
    BY <1>1 DEF Board, Typed, Channel, Positions
  <2>2. 0 \in Places /\ Fresh(0)
    BY <2>1 DEF Pending, Fresh, Kind, Places
  <2>3. PlaceTrue(0)
    BY <1>1, <2>2 DEF Header
  <2>4. \A j \in 0..0 : j = 0
    OBVIOUS
  <2>5. b \in Nat /\ batchNum \in Nat
    BY <1>1, <2>3, BatchFacts DEF PlaceTrue, Ascends, IsLine, LineAt, BatchNos, Job
  <2>6. b < batchNum => rows[t] \in {"ok", "fail"} \/ status[t] = "skip"
    BY <2>2, <2>3, <2>4 DEF PlaceTrue, Through, Told, Tells, IsLine, LineAt
  <2>7. rows[t] # "queued" => batchNum >= b
    BY <2>2, <2>3, <2>4 DEF PlaceTrue, Announced, Moves, Lined, IsLine, LineAt
  <2> QED
    BY <2>5, <2>6, <2>7
<1> QED
  BY <1>1, BoardHolds, JobHolds, HeaderHolds, PTL

-----------------------------------------------------------------------------
(* The footer's numbers and the summary.                                   *)

\* Between two results of one target there is the next loop.
Once ==
    \A j \in Positions : \A t \in AllTargets : Tells(j, t) =>
        \A i \in 0..(j - 1) : Tells(i, t) => \E k \in (i + 1)..j : Kind(k) = "loop"

Footer ==
    /\ counts \in [done : Nat, ok : Nat, fail : Nat, skip : Nat]
    /\ CountsMatchRows
    /\ Once

LEMMA OnceMore ==
    ASSUME Board, Once, NEW m, events' = Append(events, m), rows' = rows,
           \A t \in AllTargets : m.kind = "result" /\ m.arg[1] = t =>
                \A i \in Places : Tells(i, t) => ~Fresh(i)
    PROVE  Once'
<1>1. PICK n : n = Len(events)
  OBVIOUS
<1>2. /\ n \in Nat /\ Len(events') = n + 1
      /\ \A i \in 1..n : events'[i] = events[i]
      /\ events'[n + 1] = m
  BY <1>1, SendEffect DEF Board, Typed, Positions
<1>3. ASSUME NEW i \in 0..n PROVE \A t : Tells(i, t)' <=> Tells(i, t)
  <2>1. i # 0 => events'[i] = events[i]
    BY <1>2
  <2> QED
    BY <2>1 DEF Tells, Kind
<1>4. \A k \in 1..n : Kind(k)' = Kind(k)
  BY <1>2 DEF Kind
<1> SUFFICES ASSUME NEW j \in 1..(n + 1), NEW t \in AllTargets, Tells(j, t)',
                    NEW i \in 0..(j - 1), Tells(i, t)'
             PROVE  \E k \in (i + 1)..j : Kind(k)' = "loop"
  BY <1>2 DEF Once, Positions
<1>5. i \in 0..n /\ Tells(i, t)
  BY <1>2, <1>3
<1>6. CASE j \in 1..n
  <2>1. Tells(j, t) /\ j \in Positions
    BY <1>1, <1>2, <1>3, <1>6 DEF Positions
  <2>2. PICK k \in (i + 1)..j : Kind(k) = "loop"
    BY <1>5, <2>1 DEF Once
  <2>3. k \in 1..n
    BY <1>2, <1>6
  <2> QED
    BY <1>4, <2>2, <2>3
<1>7. CASE j = n + 1
  <2>1. m.kind = "result" /\ m.arg[1] = t
    BY <1>2, <1>7 DEF Tells, Kind
  <2>2. ~Fresh(i)
    BY <1>1, <1>5, <2>1 DEF Places
  <2>3. PICK k \in 1..n : k > i /\ Kind(k) = "loop"
    BY <1>1, <2>2 DEF Fresh, Positions
  <2>4. k \in (i + 1)..j
    BY <1>2, <1>7, <2>3
  <2> QED
    BY <1>4, <2>3, <2>4
<1> QED
  BY <1>2, <1>6, <1>7

\* What is told of a target in the current loop has been sent.
LEMMA ToldIsSent ==
    ASSUME Board, NEW t \in AllTargets, NEW i \in Places, Fresh(i), Tells(i, t)
    PROVE  sent[t] = "result"
<1>0. Len(events) \in Nat
  BY DEF Board, Typed, Channel
<1>1. CASE i = 0
  <2>1. Quiet("loop")
    BY <1>0, <1>1 DEF Fresh, Quiet, Positions
  <2> QED
    BY <1>1, <2>1 DEF Board, NotStale, RowTrue, Tells
<1>2. CASE i # 0
  <2>1. i \in Positions
    BY <1>0, <1>2 DEF Places, Positions
  <2>2. events[i].kind = "result" /\ events[i].arg[1] = t
    BY <1>2 DEF Tells, Kind
  <2>3. events[i] \in Current /\ Shape(events[i])
    BY <2>1 DEF Current, Board, Typed
  <2>4. PICK u \in AllTargets, o \in {"ok", "fail"} : events[i].arg = <<u, o>>
    BY <2>2, <2>3 DEF Shape
  <2>5. u = t
    BY <2>2, <2>4
  <2> QED
    BY <2>2, <2>3, <2>4, <2>5 DEF Board, NotStale, Happened
<1> QED
  BY <1>1, <1>2

LEMMA FooterSends ==
    ASSUME Board, Footer, UNCHANGED <<rows, counts>>,
           events' = events \/ \E m : m.kind # "result" /\ events' = Append(events, m)
    PROVE  Footer'
<1>1. CountsMatchRows'
  BY DEF Footer, CountsMatchRows, InState
<1>2. CASE events' = events
  BY <1>1, <1>2 DEF Footer, Once, Tells, Positions, Kind
<1>3. ASSUME NEW m, m.kind # "result", events' = Append(events, m) PROVE Once'
  BY <1>3, OnceMore DEF Footer
<1> QED
  BY <1>1, <1>2, <1>3 DEF Footer

LEMMA ResultKeepsFooter ==
    ASSUME Board, Footer, NEW t \in AllTargets, SendResult(t)
    PROVE  Footer'
<1>1. UNCHANGED <<rows, counts>> /\ sent[t] # "result"
  BY DEF SendResult, otherVars, boardVars
<1>2. PICK m : m = Msg("result", <<t, status[t]>>)
  OBVIOUS
<1>3. m.arg[1] = t /\ events' = Append(events, m)
  BY <1>2 DEF SendResult, Send, Msg
<1>4. \A i \in Places : Tells(i, t) => ~Fresh(i)
  BY <1>1, ToldIsSent
<1>5. Once'
  BY <1>1, <1>3, <1>4, OnceMore DEF Footer
<1>6. CountsMatchRows'
  BY <1>1 DEF Footer, CountsMatchRows, InState
<1> QED
  BY <1>1, <1>5, <1>6 DEF Footer

\* One row more in a state, when a row comes to it from another.
LEMMA OneRow ==
    ASSUME Board, NEW t \in AllTargets, NEW o, NEW s,
           \A u \in AllTargets : rows'[u] = IF u = t THEN o ELSE rows[u],
           rows[t] # s
    PROVE  InState(s)' = IF o = s THEN InState(s) + 1 ELSE InState(s)
<1> DEFINE S == {u \in AllTargets : rows[u] = s}
           T == {u \in AllTargets : rows'[u] = s}
<1>1. IsFiniteSet(AllTargets)
  BY WatcherAssumption, FS_Interval DEF AllTargets
<1>2. IsFiniteSet(S)
  BY <1>1, FS_Subset
<1>3. CASE o = s
  <2>1. T = S \cup {t} /\ t \notin S
    BY <1>3
  <2>2. Cardinality(S \cup {t}) = Cardinality(S) + 1
    BY <1>2, <2>1, FS_AddElement
  <2> QED
    BY <1>3, <2>1, <2>2 DEF InState
<1>4. CASE o # s
  <2>1. T = S
    BY <1>4
  <2> QED
    BY <1>4, <2>1 DEF InState
<1> QED
  BY <1>3, <1>4

LEMMA NoRow ==
    ASSUME NEW s, \A t \in AllTargets : rows[t] # s
    PROVE  InState(s) = 0
<1>1. {t \in AllTargets : rows[t] = s} = {}
  OBVIOUS
<1> QED
  BY <1>1, FS_EmptySet DEF InState

\* A result that is taken is the first of its target on this board.
LEMMA TakenIsFirst ==
    ASSUME Board, Once, events # <<>>, Head(events).kind = "result",
           NEW t \in AllTargets, Head(events).arg[1] = t
    PROVE  rows[t] \notin {"ok", "fail"}
<1>1. 1 \in Positions /\ Head(events) = events[1]
  BY DEF Board, Typed, Channel, Positions
<1>2. Tells(1, t) /\ 0 \in 0..(1 - 1)
  BY <1>1 DEF Tells, Kind
<1>3. Tells(0, t) => \E k \in (0 + 1)..1 : Kind(k) = "loop"
  BY <1>1, <1>2 DEF Once
<1>4. \A k \in (0 + 1)..1 : Kind(k) = "result"
  BY <1>1 DEF Kind
<1> QED
  BY <1>3, <1>4 DEF Tells

LEMMA UpdateKeepsOnce == ASSUME Board, Once, Update PROVE Once'
<1>1. events # <<>> /\ events' = Tail(events)
  BY DEF Update
<1>2. PICK h : h = Head(events)
  OBVIOUS
<1>3. Apply(h)
  BY <1>2 DEF Update
<1>4. PICK n : n = Len(events)
  OBVIOUS
<1>5. /\ n \in Nat /\ n >= 1 /\ Len(events') = n - 1
      /\ \A i \in 1..(n - 1) : \A t : Tells(i, t)' <=> Tells(i + 1, t)
      /\ h.kind = "loop" => \A t \in AllTargets : ~Tells(0, t)'
      /\ h.kind # "loop" => \A t \in AllTargets : Tells(0, t)' <=> Tells(0, t) \/ Tells(1, t)
  BY <1>1, <1>2, <1>3, <1>4, TakePlaces
<1>6. h = events[1] /\ \A i \in 1..(n - 1) : Kind(i)' = Kind(i + 1)
  BY <1>1, <1>2, <1>4, TakeEffect DEF Board, Typed, Kind
<1> SUFFICES ASSUME NEW j \in 1..(n - 1), NEW t \in AllTargets, Tells(j, t)',
                    NEW i \in 0..(j - 1), Tells(i, t)'
             PROVE  \E k \in (i + 1)..j : Kind(k)' = "loop"
  BY <1>5 DEF Once, Positions
<1>7. Tells(j + 1, t) /\ j + 1 \in Positions
  BY <1>4, <1>5 DEF Positions
<1>8. ASSUME NEW k \in (i + 2)..(j + 1), Kind(k) = "loop"
      PROVE  \E l \in (i + 1)..j : Kind(l)' = "loop"
  <2>1. PICK l \in 1..(n - 1) : l + 1 = k /\ l \in (i + 1)..j
    <3>1. k - 1 \in 1..(n - 1) /\ (k - 1) + 1 = k /\ k - 1 \in (i + 1)..j
      BY <1>5
    <3> QED
      BY <3>1
  <2> QED
    BY <1>6, <1>8, <2>1
<1>9. CASE Tells(i + 1, t)
  <2>1. i + 1 \in 0..((j + 1) - 1)
    BY <1>5
  <2>2. PICK k \in ((i + 1) + 1)..(j + 1) : Kind(k) = "loop"
    BY <1>7, <1>9, <2>1 DEF Once
  <2> QED
    BY <1>8, <2>2
<1>10. CASE ~Tells(i + 1, t)
  <2>1. i = 0 /\ h.kind # "loop" /\ Tells(0, t)
    BY <1>5, <1>10
  <2>2. PICK k \in (0 + 1)..(j + 1) : Kind(k) = "loop"
    BY <1>7, <2>1 DEF Once
  <2>3. k # 1
    BY <1>6, <2>1, <2>2 DEF Kind
  <2> QED
    BY <1>8, <2>1, <2>2, <2>3
<1> QED
  BY <1>9, <1>10

\* The numbers, when a result is counted.
LEMMA CountOne ==
    ASSUME NEW c \in [done : Nat, ok : Nat, fail : Nat, skip : Nat],
           NEW x \in Nat, NEW y \in Nat, NEW z \in Nat, NEW d,
           d = [c EXCEPT !.done = @ + 1, !.ok = @ + x, !.fail = @ + y, !.skip = @ + z]
    PROVE  /\ d.done = c.done + 1 /\ d.ok = c.ok + x /\ d.fail = c.fail + y /\ d.skip = c.skip + z
           /\ d \in [done : Nat, ok : Nat, fail : Nat, skip : Nat]
<1>1. c.done \in Nat /\ c.ok \in Nat /\ c.fail \in Nat /\ c.skip \in Nat
  OBVIOUS
<1>2. d = [done |-> c.done + 1, ok |-> c.ok + x, fail |-> c.fail + y, skip |-> c.skip + z]
  OBVIOUS
<1> QED
  BY <1>1, <1>2

LEMMA UpdateKeepsFooter == ASSUME Board, Footer, Update PROVE Footer'
<1>1. events # <<>> /\ events' = Tail(events)
  BY DEF Update
<1>2. PICK h : h = Head(events)
  OBVIOUS
<1>3. Apply(h) /\ Shape(h)
  <2>1. h = events[1] /\ 1 \in Positions
    BY <1>1, <1>2 DEF Board, Typed, Channel, Positions
  <2> QED
    BY <1>2, <2>1 DEF Update, Board, Typed
<1>4. Once'
  BY UpdateKeepsOnce DEF Footer
<1>5. /\ counts \in [done : Nat, ok : Nat, fail : Nat, skip : Nat]
      /\ rows \in [AllTargets -> {"queued", "running", "ok", "fail"}]
  BY DEF Footer, Board, Typed
<1>6. CASE h.kind = "loop"
  <2>1. rows' = Queued /\ counts' = NoCounts
    BY <1>3, <1>6 DEF Apply, ResetForLoop
  <2>2. InState("ok")' = 0 /\ InState("fail")' = 0
    <3>1. \A t \in AllTargets : rows'[t] # "ok" /\ rows'[t] # "fail"
      BY <2>1 DEF Queued
    <3>2. {t \in AllTargets : rows'[t] = "ok"} = {} /\ {t \in AllTargets : rows'[t] = "fail"} = {}
      BY <3>1
    <3> QED
      BY <3>2, FS_EmptySet DEF InState
  <2> QED
    BY <1>4, <2>1, <2>2 DEF Footer, CountsMatchRows, NoCounts
<1>7. CASE h.kind = "start"
  <2>1. counts' = counts
    BY <1>3, <1>7 DEF Apply, ApplyStart
  <2>2. \A u \in AllTargets : rows'[u] = IF u = h.arg /\ rows[u] = "queued" THEN "running" ELSE rows[u]
    BY <1>3, <1>7, ApplyEffect
  <2>3. /\ {t \in AllTargets : rows'[t] = "ok"} = {t \in AllTargets : rows[t] = "ok"}
        /\ {t \in AllTargets : rows'[t] = "fail"} = {t \in AllTargets : rows[t] = "fail"}
    BY <2>2
  <2>4. InState("ok")' = InState("ok") /\ InState("fail")' = InState("fail")
    BY <2>3 DEF InState
  <2> QED
    BY <1>4, <2>1, <2>4 DEF Footer, CountsMatchRows
<1>8. CASE h.kind = "result"
  <2>1. PICK t \in AllTargets, o \in {"ok", "fail"} :
            /\ h.arg = <<t, o>>
            /\ \A u \in AllTargets : rows'[u] = IF u = t THEN o ELSE rows[u]
    BY <1>3, <1>8, ApplyEffect
  <2>2. h.arg[1] = t /\ h.arg[2] = o
    BY <2>1
  <2>3. rows[t] # "ok" /\ rows[t] # "fail"
    BY <1>1, <1>2, <1>8, <2>2, TakenIsFirst DEF Footer
  <2>4. /\ InState("ok")' = IF o = "ok" THEN InState("ok") + 1 ELSE InState("ok")
        /\ InState("fail")' = IF o = "fail" THEN InState("fail") + 1 ELSE InState("fail")
    BY <2>1, <2>3, OneRow
  <2>5. counts' = [counts EXCEPT !.done = @ + 1,
                     !.ok = @ + (IF o = "ok" THEN 1 ELSE 0),
                     !.fail = @ + (IF o = "fail" THEN 1 ELSE 0),
                     !.skip = @ + (IF o = "skip" THEN 1 ELSE 0)]
    BY <1>3, <1>8, <2>2 DEF Apply, ApplyResult
  <2>6. /\ counts'.done = counts.done + 1
        /\ counts'.ok = IF o = "ok" THEN counts.ok + 1 ELSE counts.ok
        /\ counts'.fail = IF o = "fail" THEN counts.fail + 1 ELSE counts.fail
        /\ counts'.skip = counts.skip
        /\ counts' \in [done : Nat, ok : Nat, fail : Nat, skip : Nat]
    <3>1. PICK x \in Nat, y \in Nat, z \in Nat :
              /\ x = IF o = "ok" THEN 1 ELSE 0
              /\ y = IF o = "fail" THEN 1 ELSE 0
              /\ z = IF o = "skip" THEN 1 ELSE 0
      OBVIOUS
    <3>2. counts' = [counts EXCEPT !.done = @ + 1, !.ok = @ + x, !.fail = @ + y, !.skip = @ + z]
      BY <2>5, <3>1
    <3>3. PICK d : d = counts'
      OBVIOUS
    <3>4. /\ d.done = counts.done + 1 /\ d.ok = counts.ok + x
          /\ d.fail = counts.fail + y /\ d.skip = counts.skip + z
          /\ d \in [done : Nat, ok : Nat, fail : Nat, skip : Nat]
      BY <1>5, <3>2, <3>3, CountOne
    <3> QED
      BY <1>5, <3>1, <3>3, <3>4
  <2>7. CountsMatchRows'
    BY <1>5, <2>4, <2>6 DEF Footer, CountsMatchRows
  <2> QED
    BY <1>4, <2>6, <2>7 DEF Footer
<1>9. CASE Courses(h)
  <2>1. counts' = counts /\ rows' = rows
    BY <1>3, <1>9 DEF Apply, ApplyLifecycle, Courses
  <2> QED
    BY <1>4, <2>1 DEF Footer, CountsMatchRows, InState
<1> QED
  BY <1>6, <1>7, <1>8, <1>9 DEF Courses

LEMMA FooterStep == ASSUME Board, Footer, [Next]_vars PROVE Footer'
<1>1. CASE Engine
  <2>1. UNCHANGED <<rows, counts>>
    BY <1>1 DEF Engine, AnnounceWait, BadStart, WaitOver, WaitCancelled, Top, AnnounceLoop,
       AnnouncePre, PreStarts, PrePasses, PreFails, BeginRun, AnnounceBatch, StageStep, EndRun,
       AnnouncePost, PostStarts, PostFails, PostPasses, Finish, ControlStarts, GoOn, SendAndGo,
       boardVars
  <2>2. events' = events \/ \E m : m.kind # "result" /\ events' = Append(events, m)
    <3>1. CASE AnnounceLoop
      <4>1. PICK m : m = Msg("loop", loop)
        OBVIOUS
      <4>2. m.kind # "result" /\ events' = Append(events, m)
        BY <3>1, <4>1 DEF AnnounceLoop, SendAndGo, Send, Msg
      <4> QED
        BY <4>2
    <3>2. CASE AnnounceBatch
      <4>1. PICK m : m = Msg("batch", batch)
        OBVIOUS
      <4>2. m.kind # "result" /\ events' = Append(events, m)
        BY <3>2, <4>1 DEF AnnounceBatch, Send, Msg
      <4> QED
        BY <4>2
    <3>3. CASE BeginRun \/ PostPasses
      BY <3>3, Sending DEF BeginRun, PostPasses, Courses
    <3>4. CASE StageStep \/ EndRun
      BY <3>4 DEF StageStep, EndRun
    <3>5. CASE AnnounceWait \/ BadStart \/ WaitOver \/ WaitCancelled \/ Top
               \/ AnnouncePre \/ PreStarts \/ PrePasses \/ PreFails
               \/ AnnouncePost \/ PostStarts \/ PostFails \/ Finish
      <4>1. \E from, to : EngineGoes(from, to)
        BY <3>5, EngineSteps
      <4> QED
        BY <4>1 DEF EngineGoes, GoOn, SendAndGo, Send, Courses
    <3> QED
      BY <1>1, <3>1, <3>2, <3>3, <3>4, <3>5 DEF Engine
  <2> QED
    BY <2>1, <2>2, FooterSends
<1>2. CASE \/ \E t \in AllTargets :
                StartTarget(t) \/ SkipOne(t) \/ \E o \in {"ok", "fail"} : EndTarget(t, o)
           \/ ReturnRun \/ KeyQuit \/ UNCHANGED vars
  <2>1. UNCHANGED <<rows, counts, events>>
    BY <1>2 DEF StartTarget, SkipOne, EndTarget, ReturnRun, KeyQuit, vars, otherVars, boardVars
  <2> QED
    BY <2>1, FooterSends
<1>3. ASSUME NEW t \in AllTargets, SendStart(t) PROVE Footer'
  <2>1. PICK m : m = Msg("start", t)
    OBVIOUS
  <2>2. m.kind # "result" /\ events' = Append(events, m) /\ UNCHANGED <<rows, counts>>
    BY <1>3, <2>1 DEF SendStart, Send, Msg, otherVars, boardVars
  <2> QED
    BY <2>2, FooterSends
<1> QED
  BY <1>1, <1>2, <1>3, ResultKeepsFooter, UpdateKeepsFooter DEF Next, Workers, Exited

LEMMA FooterBegins == Init => Footer
<1> SUFFICES ASSUME Init PROVE Footer
  OBVIOUS
<1>1. events = <<>> /\ rows = Queued /\ counts = NoCounts
  BY DEF Init
<1>2. Positions = {} /\ InState("ok") = 0 /\ InState("fail") = 0
  BY <1>1, NoRow DEF Positions, Queued
<1>3. Once
  BY <1>2 DEF Once
<1> QED
  BY <1>1, <1>2, <1>3 DEF Footer, CountsMatchRows, NoCounts

LEMMA FooterHolds == Spec => []Footer
<1>1. Board /\ Footer /\ [Next]_vars => Footer'
  BY FooterStep
<1> QED
  BY <1>1, BoardHolds, FooterBegins, PTL DEF Spec

\* doneMsg carries the summary that the last rollout returned.
Carried ==
    /\ \A i \in Positions : Kind(i) = "done" => events[i].arg = total
    /\ finished => shown = total /\ err # "ctx"

\* Where nothing is done yet, there is nothing to carry.
LEMMA NothingCarried == ASSUME Course', eng' # "exited" PROVE Carried'
BY DEF Course, DoneLast, Carried

LEMMA FinishCarries == ASSUME Board, Course, Finish PROVE Carried'
<1>1. /\ total' = total /\ err' = err /\ (finished' <=> finished) /\ eng = "finish"
  BY DEF Finish, SendAndGo, jobVars, stageVars, boardVars
<1>2. ~finished /\ \A i \in Positions : Kind(i) # "done"
  BY <1>1 DEF Course, DoneLast
<1>3. PICK m : m = Msg("done", total)
  OBVIOUS
<1>4. m.arg = total /\ events' = Append(events, m)
  BY <1>3 DEF Finish, SendAndGo, Send, Msg
<1>5. /\ Len(events) \in Nat /\ Len(events') = Len(events) + 1
      /\ \A i \in Positions : events'[i] = events[i]
      /\ events'[Len(events) + 1] = m
  BY <1>4, SendEffect DEF Board, Typed
<1>6. \A i \in 1..Len(events') : events'[i].kind = "done" => events'[i].arg = total
  BY <1>2, <1>4, <1>5 DEF Positions, Kind
<1> QED
  BY <1>1, <1>2, <1>6 DEF Carried, Positions, Kind

LEMMA UpdateCarries == ASSUME Board, Course, Job, Carried, Update PROVE Carried'
<1>1. /\ UNCHANGED <<total, err>> /\ ~finished /\ ~quit
      /\ events # <<>> /\ events' = Tail(events)
  BY DEF Update, jobVars, stageVars
<1>2. PICK h : h = Head(events)
  OBVIOUS
<1>3. Apply(h)
  BY <1>2 DEF Update
<1>4. /\ Len(events) \in Nat /\ Len(events) >= 1 /\ Len(events') = Len(events) - 1
      /\ \A i \in 1..(Len(events) - 1) : events'[i] = events[i + 1]
      /\ h = events[1]
  BY <1>1, <1>2, TakeEffect DEF Board, Typed
<1>5. ASSUME NEW i \in 1..Len(events'), events'[i].kind = "done" PROVE events'[i].arg = total
  <2>1. i + 1 \in 1..Len(events) /\ events'[i] = events[i + 1]
    BY <1>4
  <2> QED
    BY <1>5, <2>1 DEF Carried, Positions, Kind
<1>6. ASSUME finished' PROVE shown' = total /\ err # "ctx"
  <2>1. h.kind = "done"
    BY <1>1, <1>2, <1>3, <1>6, TakeShows
  <2>2. shown' = h.arg
    BY <1>3, <2>1 DEF Apply, ApplyLifecycle
  <2>3. h.arg = total
    BY <1>4, <2>1 DEF Carried, Positions, Kind
  <2>4. ~interrupted
    BY <1>1 DEF Course
  <2> QED
    BY <2>2, <2>3, <2>4 DEF Job
<1> QED
  BY <1>1, <1>5, <1>6 DEF Carried, Positions, Kind

LEMMA CarriedStep == ASSUME Board, Course, Job, Carried, [Next]_vars PROVE Carried'
<1>1. Course'
  BY CourseStep
<1>2. CASE KeyQuit \/ UNCHANGED vars
  <2>1. UNCHANGED <<events, total, err, shown>> /\ (finished' <=> finished)
    BY <1>2 DEF KeyQuit, vars, jobVars, stageVars, boardVars
  <2> QED
    BY <2>1 DEF Carried, Positions, Kind
<1>3. CASE Engine /\ ~Finish
  <2>1. eng' # "exited"
    BY <1>3 DEF Engine, AnnounceWait, BadStart, WaitOver, WaitCancelled, Top, AnnounceLoop,
       AnnouncePre, PreStarts, PrePasses, PreFails, BeginRun, AnnounceBatch, StageStep, EndRun,
       AnnouncePost, PostStarts, PostFails, PostPasses, ControlStarts, GoOn, SendAndGo, engVars
  <2> QED
    BY <1>1, <2>1, NothingCarried
<1>4. CASE Workers
  <2>1. eng = "run" /\ eng' = "run"
    BY <1>4 DEF Workers, StartTarget, SkipOne, EndTarget, ReturnRun, SendStart, SendResult, Underway,
       SlotTaken, Board, Slots, otherVars, engVars
  <2> QED
    BY <1>1, <2>1, NothingCarried
<1> QED
  BY <1>2, <1>3, <1>4, FinishCarries, UpdateCarries DEF Next, Exited

LEMMA CarriedHolds == Spec => []Carried
<1>1. Board /\ Course /\ Job /\ Carried /\ [Next]_vars => Carried'
  BY CarriedStep
<1>2. Init => Carried
  BY DEF Init, Carried, Positions
<1> QED
  BY <1>1, <1>2, BoardHolds, CourseHolds, JobHolds, PTL DEF Spec

\* A board that is finished shows of every target what became of it.
LEMMA FinishedRows ==
    ASSUME Board, Course, Header, finished, note # "preFailed", NEW t \in AllTargets
    PROVE  /\ rows[t] # "running"
           /\ rows[t] = "ok" <=> status[t] = "ok"
           /\ rows[t] = "fail" <=> status[t] = "fail"
           /\ rows[t] = "queued" <=> status[t] \in {"pending", "skip"}
<1>1. eng = "exited" /\ events = <<>>
  BY DEF Course, DoneLast
<1>2. Positions = {} /\ Len(events) = 0
  BY <1>1 DEF Positions
<1>3. OfLatest
  BY <1>1, <1>2 DEF OfLatest, ShowsNote, Latest, Begun
<1>4. sent[t] = "result" => rows[t] \in {"ok", "fail"}
  <2>1. \A j \in 0..0 : j = 0
    OBVIOUS
  <2> QED
    BY <1>2, <1>3, <2>1 DEF Header, Delivered, Told, Tells
<1>5. RowTrue(t)
  BY <1>2 DEF Board, NotStale, Quiet
<1>6. ~SlotTaken(t)
  BY <1>1 DEF Board, Slots
<1>7. /\ status[t] \in {"pending", "running", "ok", "fail", "skip"}
      /\ rows[t] \in {"queued", "running", "ok", "fail"}
      /\ status[t] \in {"pending", "skip"} => sent[t] = "none"
  BY DEF Board, Typed, Header, Held
<1> QED
  BY <1>4, <1>5, <1>6, <1>7 DEF RowTrue, SlotTaken

\* The summary of a job that returned, by what became of the targets.
LEMMA SummaryOfRows ==
    ASSUME Job, phase = "returned", err # "ctx"
    PROVE  /\ total.succeeded = Cardinality({t \in AllTargets : status[t] = "ok"})
           /\ total.failed = Cardinality({t \in AllTargets : status[t] = "fail"})
           /\ all # <<>> =>
                total.skipped = Cardinality({t \in AllTargets : status[t] \in {"pending", "skip"}})
<1>1. CASE NotYet
  <2>1. /\ {t \in AllTargets : status[t] = "ok"} = {}
        /\ {t \in AllTargets : status[t] = "fail"} = {}
    BY <1>1 DEF NotYet
  <2> QED
    BY <1>1, <2>1, FS_EmptySet DEF NotYet, NoSummary
<1>2. CASE Stage!IInv
  <2>1. /\ total = Stage!Summarize(all) /\ Len(all) = NTargets
        /\ \A i \in DOMAIN all : all[i] = Stage!Outcome(i)
        /\ DOMAIN all = 1..Len(all)
    BY <1>2 DEF Stage!IInv, Stage!Combined, Stage!TypeOK
  <2>2. \A i \in AllTargets : all[i][2] = IF status[i] = "pending" THEN "skip" ELSE status[i]
    BY <2>1 DEF Stage!Outcome, AllTargets
  <2>3. DOMAIN all = AllTargets
    BY <2>1 DEF AllTargets
  <2>4. /\ {i \in DOMAIN all : all[i][2] = "ok"} = {t \in AllTargets : status[t] = "ok"}
        /\ {i \in DOMAIN all : all[i][2] = "fail"} = {t \in AllTargets : status[t] = "fail"}
        /\ {i \in DOMAIN all : all[i][2] = "skip"} = {t \in AllTargets : status[t] \in {"pending", "skip"}}
    BY <2>2, <2>3
  <2>5. ASSUME NEW S PROVE Stage!Cardinality(S) = Cardinality(S)
    BY DEF Stage!Cardinality, Cardinality
  <2> QED
    BY <2>1, <2>4, <2>5 DEF Stage!Summarize
<1> QED
  BY <1>1, <1>2 DEF Job

\* The footer counts the rows of the board it is under, and at the end of a job,
\* for any number of targets, slots and loops and for any way a rollout may
\* end, the rows, the footer and the summary of doneMsg agree (watcher.go's
\* applyResult and resetForLoop against onResult and RunWaves).
THEOREM BoardAgreesWithSummary == Spec => []BoardTruthful
<1>1. ASSUME Board, Course, Job, Header, Footer, Carried PROVE BoardTruthful
  <2>1. CountsMatchRows
    BY <1>1 DEF Footer
  <2>2. ASSUME finished, note # "preFailed"
        PROVE  /\ counts.ok = shown.succeeded
               /\ counts.fail = shown.failed
               /\ InState("running") = 0
               /\ all # <<>> => InState("queued") = shown.skipped
    <3>1. \A t \in AllTargets :
            /\ rows[t] # "running"
            /\ rows[t] = "ok" <=> status[t] = "ok"
            /\ rows[t] = "fail" <=> status[t] = "fail"
            /\ rows[t] = "queued" <=> status[t] \in {"pending", "skip"}
      BY <1>1, <2>2, FinishedRows
    <3>2. shown = total /\ err # "ctx" /\ phase = "returned"
      <4>1. eng = "exited"
        BY <1>1, <2>2 DEF Course, DoneLast
      <4> QED
        BY <1>1, <2>2, <4>1 DEF Carried, Job
    <3>3. /\ {t \in AllTargets : rows[t] = "ok"} = {t \in AllTargets : status[t] = "ok"}
          /\ {t \in AllTargets : rows[t] = "fail"} = {t \in AllTargets : status[t] = "fail"}
          /\ {t \in AllTargets : rows[t] = "queued"} =
                {t \in AllTargets : status[t] \in {"pending", "skip"}}
      BY <3>1
    <3>4. InState("running") = 0
      BY <3>1, NoRow
    <3> QED
      BY <1>1, <2>1, <3>2, <3>3, <3>4, SummaryOfRows DEF CountsMatchRows, InState
  <2> QED
    BY <2>1, <2>2 DEF BoardTruthful
<1> QED
  BY <1>1, BoardHolds, CourseHolds, JobHolds, HeaderHolds, FooterHolds, CarriedHolds, PTL
=============================================================================
