----------------------------- MODULE Transports -----------------------------
(***************************************************************************)
(* The transports (fleet/transport.go, transport_ssh.go,                   *)
(* transport_winrm.go, transport_psexec_wmi.go) under the retry loop of    *)
(* runOne: for one target, the calls of Exec on one side and, on the       *)
(* other, what each call's command does on the box, which goes on when     *)
(* nobody waits for it any more.  local, psexec and wmi run a client       *)
(* program under a shell and read its pipes; ssh and winrm hold a          *)
(* connection.                                                             *)
(***************************************************************************)
EXTENDS Integers

CONSTANTS
    Kinds,      \* the transports: a subset of AllKinds
    Attempts    \* Options.Retries + 1

AllKinds == {"local", "psexec", "wmi", "ssh", "winrm"}

ASSUME TransportAssumption == Kinds \subseteq AllKinds /\ Attempts \in Nat \ {0}

VARIABLES
    kind,
    hangs,      \* what does not answer: "nothing", the "command", the "box"
    ctx,        \* the call's context: "live", "expired" or "cancelled"
    call,       \* "idle", or the place of the Exec call in flight
    attempt,    \* calls begun
    result,     \* of the last call: "none", "ok" or "fail"
    client,     \* the client program runs
    work,       \* work[a]: what became of attempt a's command on the box
    why,        \* history: what ended attempt a's call
    late        \* history: attempts begun under a cancelled context

setting == <<kind, hangs>>
history == <<why, late>>
vars == <<setting, ctx, call, attempt, result, client, work, history>>

Tries == 1..Attempts
Programs == {"local", "psexec", "wmi"}
Over == ctx # "live"

Init ==
    /\ kind \in Kinds
    /\ hangs \in {"nothing", "command"} \cup (IF kind = "local" THEN {} ELSE {"box"})
    /\ ctx = "live" /\ call = "idle" /\ attempt = 0 /\ result = "none"
    /\ client = FALSE
    /\ work = [a \in Tries |-> "none"]
    /\ why = [a \in Tries |-> "none"] /\ late = {}

-----------------------------------------------------------------------------
(* The loop of runOne.                                                     *)

\* Mutation: a success does not leave the loop.
BeginAgain ==
    /\ call = "idle" /\ attempt < Attempts
    /\ attempt' = attempt + 1
    /\ ctx' = IF ctx = "cancelled" THEN ctx ELSE "live"
    /\ late' = IF ctx = "cancelled" THEN late \cup {attempt'} ELSE late
    /\ call' = "prepare"
    /\ UNCHANGED <<setting, result, client, work, why>>

\* The next call, on a fresh timeout below the run's context.
Begin ==
    /\ call = "idle" /\ result # "ok" /\ attempt < Attempts
    /\ attempt' = attempt + 1
    /\ ctx' = IF ctx = "cancelled" THEN ctx ELSE "live"
    /\ late' = IF ctx = "cancelled" THEN late \cup {attempt'} ELSE late
    /\ call' = "prepare"
    /\ UNCHANGED <<setting, result, client, work, why>>

\* The timeout of this call, or a cancellation of the run.
ContextEnds ==
    /\ ctx' \in {"expired", "cancelled"}
    /\ ctx # "cancelled" /\ ctx' # ctx
    /\ ctx' = "expired" => call # "idle"
    /\ UNCHANGED <<setting, call, attempt, result, client, work, history>>

\* Exec returns o.
Return(o, cause) ==
    /\ call' = "idle" /\ result' = o /\ client' = FALSE
    /\ why' = [why EXCEPT ![attempt] = cause]
    /\ UNCHANGED <<setting, ctx, attempt, late>>

GoOn(to) ==
    /\ call' = to
    /\ UNCHANGED <<setting, ctx, attempt, result, client, work, history>>

-----------------------------------------------------------------------------
(* On the box.                                                             *)

SetWork(a, s) == work' = [work EXCEPT ![a] = s]

\* A command ends, whoever still waits for it.
WorkEnds(a) ==
    /\ work[a] = "running" /\ hangs = "nothing"
    /\ \E o \in {"ok", "bad"} : SetWork(a, o)
    /\ UNCHANGED <<setting, ctx, call, attempt, result, client, history>>

\* The exit status of a command that has ended, as Exec reports it.
Status(a) == IF work[a] = "ok" THEN "ok" ELSE "fail"

-----------------------------------------------------------------------------
(* Before there is anything on the box.                                    *)

\* The password of winrm, psexec and wmi comes from a provider.
CredentialFails ==
    /\ call = "prepare" /\ kind \in {"winrm", "psexec", "wmi"}
    /\ Return("fail", "unbegun") /\ UNCHANGED work

\* The file of known hosts cannot be read.
KnownHostsFail ==
    /\ call = "prepare" /\ kind = "ssh"
    /\ Return("fail", "unbegun") /\ UNCHANGED work

\* The key file cannot be read, or no method of authentication is left.
AuthFails ==
    /\ call = "prepare" /\ kind = "ssh"
    /\ Return("fail", "unbegun") /\ UNCHANGED work

Prepared == call = "prepare" /\ GoOn(IF kind = "ssh" THEN "dial" ELSE "start")

\* DialContext: refused, out of time, or the context is over.
DialFails ==
    /\ call = "dial"
    /\ Return("fail", "unbegun") /\ UNCHANGED work

\* Mutation: Dial.
DialledBlindly == call = "dial" /\ GoOn("handshake")

Dialled == call = "dial" /\ ~Over /\ GoOn("handshake")

\* ssh.NewClientConn: the timeout of its configuration is for dialling only.
HandshakeOver == call = "handshake" /\ hangs # "box" /\ GoOn("start")

\* The host key or the login is refused, or the session.
HandshakeFails ==
    /\ call = "handshake" \/ (call = "start" /\ kind = "ssh")
    /\ hangs # "box"
    /\ Return("fail", "unbegun") /\ UNCHANGED work

-----------------------------------------------------------------------------
(* ssh and winrm.                                                          *)

\* session.Run, or the winrm library, which starts a command without looking
\* at the context.
StartRemote ==
    /\ call = "start" /\ kind \notin Programs /\ hangs # "box"
    /\ call' = "wait"
    /\ SetWork(attempt, "running")
    /\ UNCHANGED <<setting, ctx, attempt, result, client, history>>

\* Mutation: any answer is a success.
AnswerAlwaysOk ==
    /\ call = "wait" /\ kind \notin Programs
    /\ work[attempt] \in {"ok", "bad"}
    /\ Return("ok", "answer") /\ UNCHANGED work

Answer ==
    /\ call = "wait" /\ kind \notin Programs
    /\ work[attempt] \in {"ok", "bad"}
    /\ Return(Status(attempt), "answer") /\ UNCHANGED work

\* The connection breaks; TCP notices in the end, and so does the timeout of a
\* winrm request to a box that does not answer.  The command may go on.
LinkLost ==
    /\ call \in {"handshake", "start", "wait"} /\ kind \notin Programs
    /\ Return("fail", "link") /\ UNCHANGED work

RequestTimesOut == kind = "winrm" /\ hangs = "box" /\ LinkLost

\* RunWithContext gives up; its signal may or may not end the command.
GiveUp ==
    /\ kind = "winrm" /\ call = "wait" /\ Over
    /\ Return("fail", "context")
    /\ \/ UNCHANGED work
       \/ work[attempt] = "running" /\ SetWork(attempt, "cut")

-----------------------------------------------------------------------------
(* local, psexec and wmi: LocalTransport.Exec.                             *)

\* cmd.Start: no such program, or the context is over.
SpawnFails ==
    /\ call = "start" /\ kind \in Programs
    /\ Return("fail", "unbegun") /\ UNCHANGED work

Spawn ==
    /\ call = "start" /\ kind \in Programs /\ ~Over
    /\ call' = "wait" /\ client' = TRUE
    /\ UNCHANGED <<setting, ctx, attempt, result, work, history>>

\* The client gets the command going: its own child, or psexec's service or
\* WMI on the box.
Reach ==
    /\ client /\ work[attempt] = "none" /\ hangs # "box"
    /\ SetWork(attempt, "running")
    /\ UNCHANGED <<setting, ctx, call, attempt, result, client, history>>

\* The exit codes a client may have.  psexec hands on the command's; wmic's
\* says only that the process was asked for; both fail when the box cannot be
\* reached any more.
Exits ==
    CASE kind = "wmi" -> {"ok"} \cup {o \in {"fail"} : work[attempt] = "none"}
      [] kind # "wmi" /\ work[attempt] \in {"ok", "bad"} -> {Status(attempt)}
      [] OTHER -> {}

\* cmd.Run returns: the client has ended and nothing holds its pipes.  After a
\* kill, or when the context ended first, a success counts as an error.
ClientEnds ==
    /\ client /\ call \in {"wait", "drain"} /\ hangs # "box"
    /\ \E o \in Exits :
        \/ call = "wait" /\ Return(o, "answer")
        \/ Over /\ (call = "drain" \/ o = "ok") /\ Return("fail", "context")
    /\ UNCHANGED work

ClientLosesBox ==
    /\ client /\ call \in {"wait", "drain"} /\ kind # "local"
    /\ Return("fail", IF call = "wait" THEN "link" ELSE "context")
    /\ UNCHANGED work

\* Mutation: only the timeout kills.
KillExpired ==
    /\ client /\ call = "wait" /\ ctx = "expired"
    /\ call' = "drain"
    /\ UNCHANGED <<setting, ctx, attempt, result, client, work, history>>

\* CommandContext kills the shell.  A client that runs as its child lives on,
\* and Exec waits for as long as that child holds the pipes; one that the shell
\* has become dies, and a local command with it.
Kill ==
    /\ client /\ call = "wait" /\ Over
    /\ \/ /\ call' = "drain"
          /\ UNCHANGED <<setting, ctx, attempt, result, client, work, history>>
       \/ /\ kind = "local" \/ work[attempt] = "none"
          /\ Return("fail", "context")
          /\ \/ UNCHANGED work
             \/ work[attempt] = "running" /\ SetWork(attempt, "cut")

-----------------------------------------------------------------------------
Steps ==
    \/ CredentialFails \/ KnownHostsFail \/ AuthFails \/ Prepared
    \/ DialFails \/ Dialled \/ HandshakeFails \/ HandshakeOver
    \/ StartRemote \/ Answer \/ RequestTimesOut \/ GiveUp
    \/ SpawnFails \/ Spawn \/ Reach \/ ClientEnds \/ Kill

\* A call that nothing can end: ssh past its dialling, or a killed client
\* whose child keeps the pipes, where the box or the command hangs; and any
\* hanging one under a context that nobody ends.
Deaf == kind = "ssh" \/ call = "drain"
Stuck == call # "idle" /\ hangs # "nothing" /\ (Deaf \/ ~Over)

Finished ==
    /\ \/ call = "idle" /\ (result = "ok" \/ attempt = Attempts)
       \/ Stuck
    /\ UNCHANGED vars

Next ==
    \/ Begin \/ Steps \/ ContextEnds \/ LinkLost \/ ClientLosesBox
    \/ \E a \in Tries : WorkEnds(a)
    \/ Finished

Spec == Init /\ [][Next]_vars

\* Programs, kernels and libraries go on; commands that do not hang end.
\* Nobody promises that a context ends or that a broken link is noticed.
FairSpec ==
    /\ Spec
    /\ WF_vars(Steps)
    /\ \A a \in Tries : WF_vars(WorkEnds(a))

-----------------------------------------------------------------------------
\* What Exec reports as the command's own success or failure is what the
\* command did, not what became of an earlier attempt or of a client that was
\* killed; success is never reported otherwise.  wmi is "fire-and-forget: it
\* returns ... not the command's stdout or exit code"
\* (transport_psexec_wmi.go:51).
AnswersAreTruthful ==
    call = "idle" /\ attempt > 0 =>
        /\ result = "ok" => why[attempt] = "answer"
        /\ why[attempt] = "answer" /\ kind # "wmi" => Status(attempt) = result
        /\ result = "fail" /\ why[attempt] = "answer" =>
                work[attempt] = (IF kind = "wmi" THEN "none" ELSE "bad")

\* A command is begun again beside one that still runs, or after one that has
\* succeeded, only if the earlier call was ended by its context or by a broken
\* link: by retries alone it is never done twice.
RepeatsAreExcused ==
    \A a, b \in Tries :
        a < b /\ work[a] \in {"running", "ok"} /\ work[b] # "none" =>
            why[a] \in {"context", "link"}

\* A cancelled run still makes the attempts that are left, and relies on the
\* transport for their doing nothing: all but winrm look at the context before
\* anything happens on the box.
CancelStartsNothing ==
    kind # "winrm" => \A a \in late : work[a] = "none"

\* Every call comes back unless it is stuck: the end of its context is enough
\* for a call that is not deaf, and an answering box without one.
CallsEnd == []<>(call = "idle" \/ Stuck)

\* What the engine takes a transport for.
Exec == INSTANCE ExecContract WITH
    place <- IF call # "idle" THEN "exec"
             ELSE IF attempt = 0 THEN "before"
             ELSE IF result = "ok" \/ attempt = Attempts THEN "after" ELSE "between",
    answer <- result

ExecSpec == Exec!Spec
=============================================================================
