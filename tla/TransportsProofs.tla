-------------------------- MODULE TransportsProofs --------------------------
(***************************************************************************)
(* Proofs about Transports, for any set of transports and any number of    *)
(* attempts: what Exec reports is what the command did, retries repeat     *)
(* nothing without an excuse, a cancelled run begins nothing but on winrm, *)
(* and the calls keep ExecContract.                                        *)
(***************************************************************************)
EXTENDS Transports, TLAPS

\* The places of a call before anything can run on the box, and after.
Before == {"prepare", "dial", "handshake", "start"}
Calls == Before \cup {"wait", "drain"}

Scalars ==
    /\ kind \in AllKinds
    /\ hangs \in {"nothing", "command", "box"}
    /\ ctx \in {"live", "expired", "cancelled"}
    /\ call \in {"idle"} \cup Calls
    /\ attempt \in 0..Attempts
    /\ result \in {"none", "ok", "fail"}

Records ==
    /\ work \in [Tries -> {"none", "running", "ok", "bad", "cut"}]
    /\ why \in [Tries -> {"none", "unbegun", "answer", "link", "context"}]
    /\ late \subseteq Tries

TypeOK == Scalars /\ Records

\* Where a client program may be.
Clients ==
    /\ client \in BOOLEAN
    /\ client => call \in {"wait", "drain"} /\ kind \in Programs

\* Places and transports: which places a transport goes through, and that
\* nothing is on the box before the place that begins it, nor for attempts to
\* come.
Shape ==
    /\ call # "idle" => attempt > 0 /\ result # "ok"
    /\ attempt = 0 <=> (result = "none" /\ call = "idle")
    /\ call = "drain" => kind \in Programs
    /\ call \in {"dial", "handshake"} => kind = "ssh"
    /\ call \in Before => work[attempt] = "none"
    /\ \A a \in Tries : a > attempt => work[a] = "none" /\ why[a] = "none"

\* What the last call reported.
Reported ==
    call = "idle" /\ attempt > 0 =>
        /\ result = "ok" => why[attempt] = "answer"
        /\ why[attempt] = "answer" =>
            IF kind = "wmi" THEN result = "fail" => work[attempt] = "none"
            ELSE work[attempt] \in {"ok", "bad"} /\ result = Status(attempt)

\* Attempts after which another may follow: they are over, and had no success.
Failed == {a \in Tries : a < attempt \/ (a = attempt /\ call = "idle" /\ result # "ok")}

Excuses ==
    \A a \in Failed : work[a] \in {"running", "ok"} => why[a] \in {"context", "link"}

\* Attempts begun under a cancelled context come to nothing at the place where
\* their transport looks at it.
LateIsIdle ==
    kind # "winrm" => \A a \in late :
        /\ a <= attempt /\ work[a] = "none"
        /\ a = attempt => ctx = "cancelled" /\ call \in {"idle", "prepare", "dial", "start"}
        /\ a = attempt /\ call = "start" => kind # "ssh"

IInv == TypeOK /\ Clients /\ Shape /\ Reported /\ Excuses /\ LateIsIdle

\* Attempts are numbered from 1.
LEMMA TriesAre ==
    /\ Attempts \in Nat /\ Attempts >= 1
    /\ \A a \in Tries : a \in Nat /\ a >= 1 /\ a <= Attempts
    /\ \A a \in Nat : a >= 1 /\ a <= Attempts => a \in Tries
BY TransportAssumption DEF Tries

\* Before the first call.
LEMMA InitHolds == Init => IInv
<1> SUFFICES ASSUME Init PROVE IInv
  OBVIOUS
<1>1. TypeOK
  BY TriesAre, TransportAssumption DEF Init, TypeOK, Scalars, Records, AllKinds, Calls, Before
<1>2. Clients
  BY DEF Init, Clients
<1>3. Shape /\ Reported
  BY DEF Init, Shape, Reported, Before
<1>4. Excuses /\ LateIsIdle
  BY DEF Init, Excuses, Failed, LateIsIdle
<1> QED
  BY <1>1, <1>2, <1>3, <1>4, TriesAre DEF IInv

-----------------------------------------------------------------------------
(* What a step may do, and why that keeps the invariant.                   *)

\* A call is in flight: its number is one of the attempts.
LEMMA CallIsATry ==
    ASSUME IInv, call # "idle"
    PROVE  attempt \in Tries
BY TriesAre DEF IInv, TypeOK, Scalars, Records, Shape

\* The answer o with this cause is one that Exec may give: a success is the
\* command's own, so is a failure called an answer, and one of another cause
\* leaves nothing behind on the box unless it is a context's or a link's.
Honest(o, cause) ==
    /\ o \in {"ok", "fail"}
    /\ cause \in {"unbegun", "answer", "link", "context"}
    /\ o = "ok" => cause = "answer"
    /\ cause = "answer" =>
        IF kind = "wmi" THEN o = "fail" => work'[attempt] = "none"
        ELSE work'[attempt] \in {"ok", "bad"} /\ o = (Status(attempt))'
    /\ cause = "unbegun" => work'[attempt] = "none"

\* The command is left to itself, or its connection ends it.
LeftAlone ==
    \/ work' = work
    \/ work[attempt] = "running" /\ SetWork(attempt, "cut")

\* Every return of Exec with an honest answer keeps the invariant.
LEMMA ReturnKeeps ==
    ASSUME IInv, call # "idle", NEW o, NEW cause,
           Return(o, cause), LeftAlone, Honest(o, cause)
    PROVE  IInv'
<1>1. attempt \in Tries
  BY CallIsATry
<1>2. /\ UNCHANGED <<kind, hangs, ctx, attempt, late>>
      /\ call' = "idle" /\ result' = o /\ client' = FALSE
      /\ why' = [why EXCEPT ![attempt] = cause]
  BY DEF Return, setting
<1>3. /\ work' \in [Tries -> {"none", "running", "ok", "bad", "cut"}]
      /\ \A a \in Tries : a # attempt => work'[a] = work[a]
      /\ work[attempt] = "none" => work'[attempt] = "none"
  BY <1>1 DEF LeftAlone, SetWork, IInv, TypeOK, Scalars, Records
<1>4. /\ why' \in [Tries -> {"none", "unbegun", "answer", "link", "context"}]
      /\ why'[attempt] = cause
      /\ \A a \in Tries : a # attempt => why'[a] = why[a]
  BY <1>1, <1>2, TriesAre DEF Honest, IInv, TypeOK, Scalars, Records
<1>5. TypeOK' /\ Clients'
  <2>1. TypeOK'
    BY <1>2, <1>3, <1>4 DEF IInv, TypeOK, Scalars, Records, Honest
  <2>2. Clients'
    BY <1>2 DEF Clients
  <2> QED
    BY <2>1, <2>2
<1>6. Shape'
  BY <1>1, <1>2, <1>3, <1>4, TriesAre DEF IInv, TypeOK, Scalars, Records, Shape, Honest, Before
<1>7. Reported'
  BY <1>1, <1>2, <1>3, <1>4, TriesAre DEF IInv, TypeOK, Scalars, Records, Reported, Honest, Status
<1>8. Excuses'
  BY <1>1, <1>2, <1>3, <1>4, TriesAre
     DEF IInv, TypeOK, Scalars, Records, Excuses, Failed, Honest, Status
<1>9. LateIsIdle'
  BY <1>1, <1>2, <1>3, TriesAre DEF IInv, TypeOK, Scalars, Records, LateIsIdle
<1> QED
  BY <1>5, <1>6, <1>7, <1>8, <1>9 DEF IInv

\* A call goes from one place to another, and may begin its command or its
\* client on the way.
LEMMA MoveKeeps ==
    ASSUME IInv, call # "idle", call' \in Calls, Clients',
           UNCHANGED <<kind, hangs, ctx, attempt, result, why, late>>,
           \/ work' = work
           \/ SetWork(attempt, "running") /\ call = "start" /\ kind \notin Programs,
           call' \in Before => call \in Before /\ work' = work,
           call' = "drain" => kind \in Programs,
           call' \in {"dial", "handshake"} => kind = "ssh",
           call = "dial" \/ (call = "start" /\ kind \in Programs) => ctx = "live",
           call = "prepare" => call' = (IF kind = "ssh" THEN "dial" ELSE "start"),
           call' = "drain" => call = "wait"
    PROVE  IInv'
<1>1. attempt \in Tries
  BY CallIsATry
<1>2. /\ work' \in [Tries -> {"none", "running", "ok", "bad", "cut"}]
      /\ \A a \in Tries : a # attempt => work'[a] = work[a]
  BY <1>1 DEF SetWork, IInv, TypeOK, Scalars, Records
<1>3. TypeOK'
  BY <1>2 DEF IInv, TypeOK, Scalars, Records
<1>4. Shape'
  BY <1>1, <1>2, TriesAre DEF IInv, TypeOK, Scalars, Records, Shape, Before, Calls
<1>5. Reported'
  BY DEF Reported, Calls, Before
<1>6. Excuses'
  BY <1>1, <1>2, TriesAre DEF IInv, TypeOK, Scalars, Records, Excuses, Failed, Calls, Before
<1>7. LateIsIdle'
  BY <1>1, <1>2, TriesAre
     DEF IInv, TypeOK, Scalars, Records, Shape, LateIsIdle, Before, Programs, Calls, AllKinds
<1> QED
  BY <1>3, <1>4, <1>5, <1>6, <1>7 DEF IInv

\* Something happens on the box: a command begins for a client that waits for
\* it, or ends.
LEMMA WorkKeeps ==
    ASSUME IInv, NEW a \in Tries, NEW s \in {"running", "ok", "bad"},
           SetWork(a, s),
           UNCHANGED <<kind, hangs, ctx, call, attempt, result, client, why, late>>,
           \/ work[a] = "running" /\ s # "running"
           \/ a = attempt /\ work[a] = "none" /\ client
    PROVE  IInv'
<1>1. /\ work' \in [Tries -> {"none", "running", "ok", "bad", "cut"}]
      /\ work'[a] = s
      /\ \A b \in Tries : b # a => work'[b] = work[b]
  BY DEF SetWork, IInv, TypeOK, Scalars, Records
<1>2. \/ work[a] = "running" /\ s # "running"
      \/ a = attempt /\ work[a] = "none" /\ call \in {"wait", "drain"}
  BY DEF IInv, Clients
<1>3. work[a] = "running" => a <= attempt /\ ~(a = attempt /\ call \in Before)
  BY TriesAre DEF IInv, Shape, TypeOK, Scalars, Records
<1>4. TypeOK'
  BY <1>1 DEF IInv, TypeOK, Scalars, Records
<1>5. /\ call' \in Before => work'[attempt'] = "none"
      /\ \A b \in Tries : b > attempt' => work'[b] = "none" /\ why'[b] = "none"
  BY <1>1, <1>2, <1>3, TriesAre DEF IInv, TypeOK, Scalars, Records, Shape, Before
<1>6. Shape'
  BY <1>5 DEF IInv, Shape
<1>7. Reported'
  BY <1>1, <1>2, TriesAre DEF IInv, TypeOK, Scalars, Records, Reported, Status
<1>8. Excuses'
  <2>1. Failed' = Failed
    BY DEF Failed
  <2>2. \A b \in Failed : b = a => work[a] = "running"
    BY <1>2 DEF Failed, IInv, TypeOK, Scalars, Records
  <2>3. \A b \in Failed : work'[b] \in {"running", "ok"} => work[b] \in {"running", "ok"}
    BY <1>1, <2>2 DEF Failed
  <2> QED
    BY <2>1, <2>3 DEF IInv, Excuses
<1>9. LateIsIdle'
  <2>1. a \in late /\ kind # "winrm" => work[a] = "none" /\ ~(a = attempt /\ call \in {"wait", "drain"})
    BY DEF IInv, LateIsIdle
  <2> QED
    BY <1>1, <1>2, <2>1 DEF IInv, TypeOK, Scalars, Records, LateIsIdle
<1>10. Clients'
  BY DEF IInv, Clients
<1> QED
  BY <1>4, <1>6, <1>7, <1>8, <1>9, <1>10 DEF IInv

-----------------------------------------------------------------------------
(* The steps.                                                              *)

\* The next call.
LEMMA BeginKeeps ==
    ASSUME IInv, Begin
    PROVE  IInv'
<1>1. /\ call = "idle" /\ result # "ok" /\ attempt < Attempts
      /\ attempt' = attempt + 1 /\ call' = "prepare"
      /\ UNCHANGED <<kind, hangs, result, client, work, why>>
  BY DEF Begin, setting
<1>2. /\ ctx' \in {"live", "expired", "cancelled"} /\ late' \subseteq Tries
      /\ \A a \in late' : a \in late \/ (a = attempt' /\ ctx' = "cancelled")
  BY <1>1, TriesAre DEF Begin, IInv, TypeOK, Scalars, Records
<1>3. attempt' \in Tries /\ work[attempt'] = "none"
  BY <1>1, TriesAre DEF IInv, TypeOK, Scalars, Shape
<1>4. TypeOK'
  BY <1>1, <1>2, TriesAre DEF IInv, TypeOK, Scalars, Records, Calls, Before
<1>5. Clients'
  BY <1>1 DEF IInv, Clients
<1>6. Shape'
  BY <1>1, <1>3, TriesAre DEF IInv, TypeOK, Scalars, Records, Shape, Before
<1>7. Reported'
  BY <1>1 DEF Reported
<1>8. Excuses'
  BY <1>1, TriesAre DEF IInv, TypeOK, Scalars, Records, Excuses, Failed
<1>9. LateIsIdle'
  BY <1>1, <1>2, <1>3, TriesAre DEF IInv, TypeOK, Scalars, Records, LateIsIdle
<1> QED
  BY <1>4, <1>5, <1>6, <1>7, <1>8, <1>9 DEF IInv

\* The context ends; a cancelled one is not touched.
LEMMA ContextKeeps ==
    ASSUME IInv, ContextEnds
    PROVE  IInv'
<1>1. /\ ctx' \in {"expired", "cancelled"} /\ ctx # "cancelled"
      /\ UNCHANGED <<kind, hangs, call, attempt, result, client, work, why, late>>
  BY DEF ContextEnds, setting, history
<1>2. TypeOK'
  BY <1>1 DEF IInv, TypeOK, Scalars, Records
<1>3. Clients' /\ Shape' /\ Reported' /\ Excuses'
  BY <1>1 DEF IInv, Clients, Shape, Reported, Status, Excuses, Failed
<1>4. LateIsIdle'
  BY <1>1 DEF IInv, LateIsIdle
<1> QED
  BY <1>2, <1>3, <1>4 DEF IInv

\* The failures before anything is on the box.
LEMMA EarlyFailureKeeps ==
    ASSUME IInv,
           CredentialFails \/ KnownHostsFail \/ AuthFails \/ DialFails
             \/ HandshakeFails \/ SpawnFails
    PROVE  IInv'
<1>1. call \in Before /\ Return("fail", "unbegun") /\ work' = work
  BY DEF CredentialFails, KnownHostsFail, AuthFails, DialFails, HandshakeFails,
         SpawnFails, Before
<1>2. attempt' = attempt /\ work[attempt] = "none"
  BY <1>1 DEF Return, IInv, Shape
<1>3. LeftAlone /\ Honest("fail", "unbegun")
  BY <1>1, <1>2 DEF LeftAlone, Honest
<1> QED
  BY <1>1, <1>3, ReturnKeeps DEF Before

\* The steps from place to place.
LEMMA AdvanceKeeps ==
    ASSUME IInv, Prepared \/ Dialled \/ HandshakeOver \/ StartRemote \/ Spawn
    PROVE  IInv'
<1>1. CASE Prepared
  <2>1. /\ call = "prepare" /\ call' = (IF kind = "ssh" THEN "dial" ELSE "start")
        /\ UNCHANGED <<kind, hangs, ctx, attempt, result, client, work, why, late>>
    BY <1>1 DEF Prepared, GoOn, setting, history
  <2>2. Clients'
    BY <2>1 DEF IInv, Clients
  <2> QED
    BY <2>1, <2>2, MoveKeeps DEF Calls, Before
<1>2. CASE Dialled \/ HandshakeOver
  <2>1. /\ call \in {"dial", "handshake"} /\ call' \in {"handshake", "start"}
        /\ call = "dial" => ctx = "live"
        /\ call = "handshake" => call' = "start"
        /\ UNCHANGED <<kind, hangs, ctx, attempt, result, client, work, why, late>>
    BY <1>2 DEF Dialled, HandshakeOver, Over, GoOn, setting, history
  <2>2. Clients'
    BY <2>1 DEF IInv, Clients
  <2>3. kind = "ssh"
    BY <2>1 DEF IInv, Shape
  <2> QED
    BY <2>1, <2>2, <2>3, MoveKeeps DEF Calls, Before
<1>3. CASE StartRemote
  <2>1. /\ call = "start" /\ kind \notin Programs /\ call' = "wait"
        /\ SetWork(attempt, "running")
        /\ UNCHANGED <<kind, hangs, ctx, attempt, result, client, why, late>>
    BY <1>3 DEF StartRemote, setting, history
  <2>2. Clients'
    BY <2>1 DEF IInv, Clients
  <2> QED
    BY <2>1, <2>2, MoveKeeps DEF Calls, Before
<1>4. CASE Spawn
  <2>1. /\ call = "start" /\ kind \in Programs /\ ctx = "live"
        /\ call' = "wait" /\ client'
        /\ UNCHANGED <<kind, hangs, ctx, attempt, result, work, why, late>>
    BY <1>4 DEF Spawn, Over, setting, history
  <2>2. Clients'
    BY <2>1 DEF IInv, Clients
  <2> QED
    BY <2>1, <2>2, MoveKeeps DEF Calls, Before
<1> QED
  BY <1>1, <1>2, <1>3, <1>4

\* ssh and winrm answer, give up or lose their connection.
LEMMA RemoteKeeps ==
    ASSUME IInv, Answer \/ GiveUp \/ LinkLost
    PROVE  IInv'
<1>1. CASE Answer
  <2>1. /\ call = "wait" /\ kind \notin Programs
        /\ work[attempt] \in {"ok", "bad"}
        /\ Return(Status(attempt), "answer") /\ work' = work
    BY <1>1 DEF Answer
  <2>2. attempt' = attempt
    BY <2>1 DEF Return
  <2>3. LeftAlone /\ Honest(Status(attempt), "answer")
    BY <2>1, <2>2 DEF LeftAlone, Honest, Status, Programs
  <2> QED
    BY <2>1, <2>3, ReturnKeeps
<1>2. CASE GiveUp
  <2>1. call = "wait" /\ Return("fail", "context") /\ LeftAlone
    BY <1>2 DEF GiveUp, LeftAlone
  <2>2. Honest("fail", "context")
    BY DEF Honest
  <2> QED
    BY <2>1, <2>2, ReturnKeeps
<1>3. CASE LinkLost
  <2>1. call # "idle" /\ Return("fail", "link") /\ LeftAlone
    BY <1>3 DEF LinkLost, LeftAlone
  <2>2. Honest("fail", "link")
    BY DEF Honest
  <2> QED
    BY <2>1, <2>2, ReturnKeeps
<1> QED
  BY <1>1, <1>2, <1>3

\* The client gets its command going.
LEMMA ReachKeeps ==
    ASSUME IInv, Reach
    PROVE  IInv'
<1>1. /\ client /\ work[attempt] = "none" /\ SetWork(attempt, "running")
      /\ UNCHANGED <<kind, hangs, ctx, call, attempt, result, client, why, late>>
  BY DEF Reach, setting, history
<1>2. call # "idle"
  BY <1>1 DEF IInv, Clients
<1>3. attempt \in Tries
  BY <1>2, CallIsATry
<1> QED
  BY <1>1, <1>3, WorkKeeps

\* The client ends, loses the box, or is killed.
LEMMA ClientKeeps ==
    ASSUME IInv, ClientEnds \/ ClientLosesBox \/ Kill
    PROVE  IInv'
<1>1. CASE ClientEnds
  <2>1. PICK o \in Exits :
            \/ call = "wait" /\ Return(o, "answer")
            \/ Return("fail", "context")
    BY <1>1 DEF ClientEnds
  <2>2. call # "idle" /\ work' = work /\ LeftAlone
    BY <1>1 DEF ClientEnds, LeftAlone
  <2>3. CASE Return("fail", "context")
    <3>1. Honest("fail", "context")
      BY DEF Honest
    <3> QED
      BY <2>2, <2>3, <3>1, ReturnKeeps
  <2>4. CASE Return(o, "answer")
    <3>1. attempt' = attempt
      BY <2>4 DEF Return
    <3>2. /\ o \in {"ok", "fail"}
          /\ kind = "wmi" => (o = "fail" => work[attempt] = "none")
          /\ kind # "wmi" => work[attempt] \in {"ok", "bad"} /\ o = Status(attempt)
      BY <2>1 DEF Exits, Status
    <3>3. Honest(o, "answer")
      BY <2>2, <3>1, <3>2 DEF Honest, Status
    <3> QED
      BY <2>2, <2>4, <3>3, ReturnKeeps
  <2> QED
    BY <2>1, <2>3, <2>4
<1>2. CASE ClientLosesBox
  <2>1. PICK cause \in {"link", "context"} : Return("fail", cause)
    BY <1>2 DEF ClientLosesBox
  <2>2. call # "idle" /\ LeftAlone /\ Honest("fail", cause)
    BY <1>2, <2>1 DEF ClientLosesBox, LeftAlone, Honest
  <2> QED
    BY <2>1, <2>2, ReturnKeeps
<1>3. CASE Kill
  <2>1. call = "wait"
    BY <1>3 DEF Kill
  <2>2. CASE Return("fail", "context")
    <3>1. LeftAlone /\ Honest("fail", "context")
      BY <1>3, <2>2 DEF Kill, Return, LeftAlone, Honest
    <3> QED
      BY <2>1, <2>2, <3>1, ReturnKeeps
  <2>3. CASE /\ call' = "drain"
             /\ UNCHANGED <<setting, ctx, attempt, result, client, work, history>>
    <3>1. UNCHANGED <<kind, hangs, ctx, attempt, result, client, work, why, late>>
      BY <2>3 DEF setting, history
    <3>2. kind \in Programs
      BY <1>3 DEF Kill, IInv, Clients
    <3>3. Clients'
      BY <2>3, <3>1, <3>2 DEF IInv, Clients
    <3> QED
      BY <2>1, <2>3, <3>1, <3>2, <3>3, MoveKeeps DEF Calls, Before
  <2> QED
    BY <1>3, <2>2, <2>3 DEF Kill
<1> QED
  BY <1>1, <1>2, <1>3

\* A command ends on the box.
LEMMA WorkEndsKeeps ==
    ASSUME IInv, NEW a \in Tries, WorkEnds(a)
    PROVE  IInv'
<1>1. PICK o \in {"ok", "bad"} : SetWork(a, o)
  BY DEF WorkEnds
<1>2. /\ work[a] = "running"
      /\ UNCHANGED <<kind, hangs, ctx, call, attempt, result, client, why, late>>
  BY DEF WorkEnds, setting, history
<1> QED
  BY <1>1, <1>2, WorkKeeps

LEMMA StutterKeeps ==
    ASSUME IInv, UNCHANGED vars
    PROVE  IInv'
<1>1. UNCHANGED <<kind, hangs, ctx, call, attempt, result, client, work, why, late>>
  BY DEF vars, setting, history
<1>2. TypeOK' /\ Clients' /\ Shape'
  BY <1>1 DEF IInv, TypeOK, Scalars, Records, Clients, Shape
<1>3. Reported' /\ Excuses' /\ LateIsIdle'
  BY <1>1 DEF IInv, Reported, Status, Excuses, Failed, LateIsIdle
<1> QED
  BY <1>2, <1>3 DEF IInv

\* The invariant is inductive.
LEMMA StepKeeps == IInv /\ [Next]_vars => IInv'
<1> SUFFICES ASSUME IInv, [Next]_vars PROVE IInv'
  OBVIOUS
<1>1. Steps => IInv'
  <2>1. RequestTimesOut => LinkLost
    BY DEF RequestTimesOut
  <2> QED
    BY <2>1, EarlyFailureKeeps, AdvanceKeeps, RemoteKeeps, ReachKeeps, ClientKeeps
       DEF Steps
<1>2. Begin \/ ContextEnds \/ LinkLost \/ ClientLosesBox => IInv'
  BY BeginKeeps, ContextKeeps, RemoteKeeps, ClientKeeps
<1>3. (\E a \in Tries : WorkEnds(a)) => IInv'
  BY WorkEndsKeeps
<1>4. Finished \/ UNCHANGED vars => IInv'
  BY StutterKeeps DEF Finished
<1> QED
  BY <1>1, <1>2, <1>3, <1>4 DEF Next

LEMMA Invariant == Spec => []IInv
BY InitHolds, StepKeeps, PTL DEF Spec

-----------------------------------------------------------------------------
\* For any transports and attempts: what Exec reports as the command's own
\* success or failure is what the command did (transport.go:58).
THEOREM ReportsAreTruthful == Spec => []AnswersAreTruthful
<1>1. IInv => AnswersAreTruthful
  BY TriesAre DEF IInv, TypeOK, Scalars, Shape, Reported, AnswersAreTruthful, Status
<1> QED
  BY <1>1, Invariant, PTL

\* By retries alone no command is begun twice (engine.go:182).
THEOREM RetriesRepeatNothing == Spec => []RepeatsAreExcused
<1>1. IInv => RepeatsAreExcused
  <2> SUFFICES ASSUME IInv, NEW a \in Tries, NEW b \in Tries, a < b,
                      work[a] \in {"running", "ok"}, work[b] # "none"
               PROVE  why[a] \in {"context", "link"}
    BY DEF RepeatsAreExcused
  <2>1. b <= attempt
    BY TriesAre DEF IInv, TypeOK, Scalars, Shape
  <2>2. a \in Failed
    BY <2>1, TriesAre DEF IInv, TypeOK, Scalars, Failed
  <2> QED
    BY <2>2 DEF IInv, Excuses
<1> QED
  BY <1>1, Invariant, PTL

\* A cancelled run that has attempts left begins nothing with them, but on
\* winrm (engine.go:189).
THEOREM CancelledStartsNothing == Spec => []CancelStartsNothing
<1>1. IInv => CancelStartsNothing
  BY DEF IInv, LateIsIdle, CancelStartsNothing
<1> QED
  BY <1>1, Invariant, PTL

-----------------------------------------------------------------------------
(* The calls keep ExecContract.                                            *)

\* A return of Exec is an answer of the contract.
LEMMA ReturnAnswers ==
    ASSUME IInv, call # "idle", NEW o \in {"ok", "fail"}, NEW cause, Return(o, cause)
    PROVE  Exec!Next
<1>1. /\ call' = "idle" /\ result' = o /\ attempt' = attempt
      /\ attempt # 0 /\ attempt <= Attempts /\ attempt \in Nat
  BY CallIsATry, TriesAre DEF Return
<1>2. Exec!Answer(o)
  BY <1>1, TriesAre DEF Exec!Answer
<1> QED
  BY <1>2 DEF Exec!Next

\* A call that goes on, and a step on the box or of a context, is none.
LEMMA GoingOnIsQuiet ==
    ASSUME \/ call' = call
           \/ call # "idle" /\ call' # "idle",
           UNCHANGED <<attempt, result>>
    PROVE  UNCHANGED Exec!vars
BY DEF Exec!vars

\* The steps of the transports.
LEMMA StepAnswers ==
    ASSUME IInv, Steps \/ LinkLost \/ ClientLosesBox
    PROVE  Exec!Next \/ UNCHANGED Exec!vars
<1>1. CASE \/ Prepared \/ Dialled \/ HandshakeOver \/ StartRemote \/ Spawn \/ Reach
           \/ Kill /\ call' = "drain" /\ UNCHANGED <<attempt, result>>
  <2>1. /\ UNCHANGED <<attempt, result>>
        /\ call' = call \/ (call # "idle" /\ call' # "idle")
    BY <1>1 DEF Prepared, Dialled, HandshakeOver, StartRemote, Spawn, Reach, Kill, GoOn
  <2> QED
    BY <2>1, GoingOnIsQuiet
<1>2. CASE \E o \in {"ok", "fail"} :
             call # "idle" /\ \E cause \in {"unbegun", "answer", "link", "context"} :
                Return(o, cause)
  BY <1>2, ReturnAnswers
<1>3. Steps \/ LinkLost \/ ClientLosesBox =>
        \/ Prepared \/ Dialled \/ HandshakeOver \/ StartRemote \/ Spawn \/ Reach
        \/ Kill /\ call' = "drain" /\ UNCHANGED <<attempt, result>>
        \/ \E o \in {"ok", "fail"} :
             call # "idle" /\ \E cause \in {"unbegun", "answer", "link", "context"} :
                Return(o, cause)
  <2>1. CASE CredentialFails \/ KnownHostsFail \/ AuthFails \/ DialFails
               \/ HandshakeFails \/ SpawnFails
    BY <2>1 DEF CredentialFails, KnownHostsFail, AuthFails, DialFails,
                HandshakeFails, SpawnFails
  <2>2. CASE Answer \/ GiveUp \/ LinkLost \/ RequestTimesOut
    <3>1. Status(attempt) \in {"ok", "fail"}
      BY DEF Status
    <3> QED
      BY <2>2, <3>1 DEF Answer, GiveUp, LinkLost, RequestTimesOut
  <2>3. CASE ClientEnds
    <3>1. PICK o \in Exits : Return(o, "answer") \/ Return("fail", "context")
      BY <2>3 DEF ClientEnds
    <3>2. o \in {"ok", "fail"} /\ call # "idle"
      BY <2>3 DEF ClientEnds, Exits, Status
    <3> QED
      BY <3>1, <3>2
  <2>4. CASE ClientLosesBox
    <3>1. PICK cause \in {"link", "context"} : Return("fail", cause)
      BY <2>4 DEF ClientLosesBox
    <3> QED
      BY <2>4, <3>1 DEF ClientLosesBox
  <2>5. CASE Kill
    BY <2>5 DEF Kill
  <2> QED
    BY <2>1, <2>2, <2>3, <2>4, <2>5 DEF Steps
<1> QED
  BY <1>1, <1>2, <1>3

\* Every step is a step of the contract or none.
LEMMA EveryStepKeepsContract ==
    ASSUME IInv, [Next]_vars
    PROVE  Exec!Next \/ UNCHANGED Exec!vars
<1>1. CASE Begin
  <2>1. /\ call = "idle" /\ call' = "prepare" /\ result # "ok" /\ attempt < Attempts
        /\ attempt' = attempt + 1 /\ result' = result /\ attempt \in Nat
    BY <1>1, TriesAre DEF Begin, IInv, TypeOK, Scalars
  <2>2. Exec!Begin
    BY <2>1, TriesAre DEF Exec!Begin
  <2> QED
    BY <2>2 DEF Exec!Next
<1>2. CASE ContextEnds \/ (\E a \in Tries : WorkEnds(a)) \/ Finished \/ UNCHANGED vars
  <2>1. UNCHANGED <<call, attempt, result>>
    BY <1>2 DEF ContextEnds, WorkEnds, Finished, vars
  <2> QED
    BY <2>1, GoingOnIsQuiet
<1> QED
  BY <1>1, <1>2, StepAnswers DEF Next

\* For any transports and attempts: a transport answers the loop of runOne as
\* ExecContract says, one call at a time and none after a success or past the
\* retries (engine.go:175), which is what the engine makes its calls for.
THEOREM CallsAreAnswered == Spec => ExecSpec
<1>1. Init => Exec!Init
  BY DEF Init, Exec!Init
<1>2. IInv /\ [Next]_vars => [Exec!Next]_(Exec!vars)
  BY EveryStepKeepsContract
<1> QED
  BY <1>1, <1>2, Invariant, PTL DEF Spec, ExecSpec, Exec!Spec
=============================================================================
