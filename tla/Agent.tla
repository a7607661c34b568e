------------------------------- MODULE Agent -------------------------------
(***************************************************************************)
(* The pull agents of one machine (fleet/agent.go, agentCmd in             *)
(* cmd/fleet/main.go).  Each poll reads the last version from the state    *)
(* file, fetches the job from its source, runs it if its version differs,  *)
(* and writes the version.  One agent is a Windows service                 *)
(* (agent_service_windows.go), which the provision script (provisionScript *)
(* in cmd/fleet/main.go) installs; cron or the Task Scheduler starts       *)
(* one-shot polls beside it, all on the same state file.  The service      *)
(* control manager is modelled from how these two use it.                  *)
(* Versions are content hashes: a job stands for its version.              *)
(***************************************************************************)
EXTENDS Naturals

CONSTANTS
    Jobs,        \* the jobs the source may offer
    Agents,      \* the agents that share one state file
    Service,     \* the one of them that is a service
    MaxChanges,  \* bound: changes of the source
    MaxFaults,   \* bound: crashes, hangs, reboots, failed writes of the file
    None         \* no job: an empty source, an absent or empty state file

ASSUME AgentAssumption ==
    /\ None \notin Jobs /\ Service \in Agents
    /\ {MaxChanges, MaxFaults} \subseteq Nat

VARIABLES
    source,   \* the job the source offers, or None
    up,       \* the source answers
    changes,  \* changes of the source so far
    file,     \* what ReadState returns
    pc,       \* the place of each agent
    held,     \* what its poll holds: the version read last, then the job
    ran,      \* history: the job begun last on this machine
    excused,  \* history: a fault or a concurrent poll since it was begun
    faults,
    asked,    \* the service has been sent a stop that it has not obeyed
    scm,      \* the service's entry: "absent", "auto", "marked" for deletion
    script,   \* the place of the provision script
    exit,     \* how its last run ended: "none", "ok", "failed"
    beside    \* it installed beside a service that had outlived its deadline

polls == <<source, up, changes, file, held, ran, excused>>
install == <<scm, script, exit, beside>>
vars == <<polls, pc, faults, asked, install>>

Init ==
    /\ source \in Jobs \cup {None} /\ up \in BOOLEAN /\ changes = 0
    /\ file = None
    /\ pc = [a \in Agents |-> IF a = Service THEN "stopped" ELSE "sleep"]
    /\ held = [a \in Agents |-> None]
    /\ ran = None /\ excused = FALSE /\ faults = 0
    /\ asked = FALSE
    /\ scm \in {"absent", "auto"} /\ script = "idle" /\ exit = "none"
    /\ beside = FALSE

-----------------------------------------------------------------------------
(* A poll.                                                                  *)

Step(a, from, to) == pc[a] = from /\ pc' = [pc EXCEPT ![a] = to]

Fault == faults < MaxFaults /\ faults' = faults + 1

\* A service has no process, has one that is about to poll, or rests.
Idle == {"stopped", "started", "sleep"}
Others(a) == {b \in Agents \ {a} : pc[b] \notin Idle}

\* The poll is over and its variables are gone.
Forget(a) == held' = [held EXCEPT ![a] = None]

\* poll(): last := ReadState(statePath); any read error counts as "".  The
\* service polls as it starts, and then as the others do.
Poll(a) ==
    /\ Step(a, "sleep", "fetch") \/ Step(a, "started", "fetch")
    /\ held' = [held EXCEPT ![a] = file]
    /\ excused' = (excused \/ Others(a) # {})
    /\ UNCHANGED <<source, up, changes, file, ran, faults, asked, install>>

\* FetchJob fails: nothing runs and nothing is written.
FetchFails(a) ==
    /\ Step(a, "fetch", "sleep")
    /\ ~up
    /\ Forget(a)
    /\ UNCHANGED <<source, up, changes, file, ran, excused, faults, asked, install>>

\* v == lastVersion || job == ""
UpToDate(a) ==
    /\ Step(a, "fetch", "sleep")
    /\ up /\ source \in {held[a], None}
    /\ Forget(a)
    /\ UNCHANGED <<source, up, changes, file, ran, excused, faults, asked, install>>

\* Mutation: the version is not compared.
FetchAlways(a) ==
    /\ Step(a, "fetch", "exec")
    /\ up /\ source # None
    /\ held' = [held EXCEPT ![a] = source]
    /\ UNCHANGED <<source, up, changes, file, ran, excused, faults, asked, install>>

\* A job of another version.
Fetch(a) ==
    /\ Step(a, "fetch", "exec")
    /\ up /\ source \notin {held[a], None}
    /\ held' = [held EXCEPT ![a] = source]
    /\ UNCHANGED <<source, up, changes, file, ran, excused, faults, asked, install>>

\* LocalTransport.Exec begins.
Begin(a) ==
    /\ Step(a, "exec", "running")
    /\ ran' = held[a]
    /\ excused' = (Others(a) # {})
    /\ UNCHANGED <<source, up, changes, file, held, faults, asked, install>>

\* Mutation: a job that fails is not marked as run.
EndMaybe(a) ==
    /\ Step(a, "running", "open") \/ Step(a, "running", "sleep")
    /\ UNCHANGED <<polls, faults, asked, install>>

\* Exec ends, well or badly: the version is written either way.
End(a) ==
    /\ Step(a, "running", "open")
    /\ UNCHANGED <<polls, faults, asked, install>>

\* WriteState truncates the file, then writes it.
Truncate(a) ==
    /\ Step(a, "open", "write")
    /\ file' = None
    /\ UNCHANGED <<source, up, changes, held, ran, excused, faults, asked, install>>

Write(a) ==
    /\ Step(a, "write", "sleep")
    /\ file' = held[a]
    /\ Forget(a)
    /\ UNCHANGED <<source, up, changes, ran, excused, faults, asked, install>>

\* The state file cannot be opened; the error is dropped.
WriteFails(a) ==
    /\ Step(a, "open", "sleep") /\ Fault
    /\ Forget(a)
    /\ excused' = TRUE
    /\ UNCHANGED <<source, up, changes, file, ran, asked, install>>

\* A job that never ends, or a server that is up and never answers: neither
\* Exec nor FetchJob has a timeout, their context is context.Background().
Hang(a) ==
    /\ Step(a, "running", "hung") \/ Step(a, "fetch", "hung")
    /\ Fault
    /\ UNCHANGED <<polls, asked, install>>

AgentStep(a) ==
    \/ Poll(a) \/ FetchFails(a) \/ UpToDate(a) \/ Fetch(a)
    \/ Begin(a) \/ End(a) \/ Truncate(a) \/ Write(a)

-----------------------------------------------------------------------------
(* The service and its control manager.                                     *)

Running == pc[Service] # "stopped"

\* The process is gone, and with it an entry that was marked for deletion.
Gone ==
    /\ asked' = FALSE
    /\ scm' = IF scm = "marked" THEN "absent" ELSE scm

\* An administrator starts the service, or the machine boots.
StartService ==
    /\ Step(Service, "stopped", "started") /\ scm = "auto"
    /\ UNCHANGED <<polls, faults, asked, install>>

\* Stop or Shutdown is sent to the process.
AskStop ==
    /\ Running /\ asked' = TRUE
    /\ UNCHANGED <<polls, pc, faults, install>>

\* Mutation: the break leaves only the select.
StopServiceBreaks ==
    /\ pc[Service] = "sleep" /\ asked
    /\ UNCHANGED vars

\* The select between two polls receives the request, and Execute returns.
\* While a poll runs nothing receives it.
StopService ==
    /\ Step(Service, "sleep", "stopped") /\ asked
    /\ Gone
    /\ UNCHANGED <<polls, faults, script, exit, beside>>

\* An agent's process is killed, between any two steps.  The scheduler starts
\* the next one-shot; nothing has told the control manager to restart the
\* service.
Crash(a) ==
    /\ pc[a] # (IF a = Service THEN "stopped" ELSE "sleep")
    /\ pc' = [pc EXCEPT ![a] = IF a = Service THEN "stopped" ELSE "sleep"]
    /\ Fault
    /\ Forget(a)
    /\ excused' = TRUE
    /\ IF a = Service THEN Gone ELSE UNCHANGED <<asked, scm>>
    /\ UNCHANGED <<source, up, changes, file, ran, script, exit, beside>>

\* The machine goes down and comes up; the service is start= auto.
Reboot ==
    /\ Fault
    /\ pc' = [a \in Agents |-> IF a # Service THEN "sleep"
                ELSE IF scm = "auto" THEN "started" ELSE "stopped"]
    /\ held' = [a \in Agents |-> None]
    /\ excused' = TRUE
    /\ Gone
    /\ script' = "idle"
    /\ exit' = IF script = "idle" THEN exit ELSE "failed"
    /\ UNCHANGED <<source, up, changes, file, ran, beside>>

-----------------------------------------------------------------------------
(* The provision script, run on the machine as often as it is provisioned.  *)

\* sc.exe stop
ScriptStops ==
    /\ script = "idle" /\ script' = "delete"
    /\ exit' = "none" /\ beside' = FALSE
    /\ asked' = Running
    /\ UNCHANGED <<polls, pc, faults, scm>>

\* sc.exe delete: an entry whose process runs is only marked.
ScriptDeletes ==
    /\ script = "delete" /\ script' = "wait"
    /\ scm' = IF scm # "absent" /\ Running THEN "marked" ELSE "absent"
    /\ UNCHANGED <<polls, pc, faults, asked, exit, beside>>

\* Mutation: $ErrorActionPreference is not Stop, and a failed download goes on.
DownloadsAnyway ==
    /\ script = "wait" /\ script' = "create"
    /\ UNCHANGED <<polls, pc, faults, asked, scm, exit, beside>>

\* The entry is gone, or the 20 s are over.  A process that still runs holds
\* its fleet.exe, so that only another directory can be written.
Downloads ==
    /\ script = "wait" /\ script' = "create"
    /\ beside' = (scm # "absent")
    /\ UNCHANGED <<polls, pc, faults, asked, scm, exit>>

\* Invoke-WebRequest throws, and the catch exits with 1.
DownloadFails ==
    /\ script = "wait" /\ script' = "idle" /\ exit' = "failed"
    /\ UNCHANGED <<polls, pc, faults, asked, scm, beside>>

\* sc.exe create: it fails on an entry that is still there, and nobody looks.
ScriptCreates ==
    /\ script = "create" /\ script' = "start"
    /\ scm' = IF scm = "absent" THEN "auto" ELSE scm
    /\ UNCHANGED <<polls, pc, faults, asked, exit, beside>>

\* sc.exe start, sc.exe query, and the script ends with status 0.
ScriptStarts ==
    /\ script = "start" /\ script' = "idle" /\ exit' = "ok"
    /\ pc' = IF scm = "auto" /\ ~Running
             THEN [pc EXCEPT ![Service] = "started"] ELSE pc
    /\ UNCHANGED <<polls, faults, asked, scm, beside>>

Provision ==
    \/ ScriptStops \/ ScriptDeletes \/ Downloads \/ DownloadFails
    \/ ScriptCreates \/ ScriptStarts

-----------------------------------------------------------------------------
\* The administrator changes the job, the share or server comes and goes.
SourceChanges ==
    /\ changes < MaxChanges /\ changes' = changes + 1
    /\ \/ source' \in (Jobs \cup {None}) \ {source} /\ up' = up
       \/ up' = ~up /\ source' = source
    /\ UNCHANGED <<file, held, ran, excused, pc, faults, asked, install>>

Next ==
    \/ \E a \in Agents : AgentStep(a) \/ WriteFails(a) \/ Hang(a) \/ Crash(a)
    \/ StartService \/ AskStop \/ StopService \/ Reboot
    \/ Provision
    \/ SourceChanges

Spec == Init /\ [][Next]_vars

\* One-shots are started for ever, a service polls while it runs, and a job
\* ends unless it hangs.  The select of the service chooses at random when
\* both the ticker and a request are ready, so that it cannot pass over the
\* request for ever.  Nobody has to start the service or to provision it.
\* Faults and changes are bounded, so they stop.
FairSpec ==
    /\ Spec /\ SF_vars(StopService)
    /\ \A a \in Agents : WF_vars(AgentStep(a))

-----------------------------------------------------------------------------
\* "Runs it only when it has changed" (agent.go:16): the job begun last is not
\* begun again, unless there was a crash or a failed write since, or the polls
\* of two agents overlap.  A service that is stopped, deleted, installed anew
\* or restarted is no excuse.
RerunsAreExcused ==
    [][\A a \in Agents : pc[a] = "exec" /\ pc'[a] = "running" =>
            ran # held[a] \/ excused]_vars

Polling == {a \in Agents : pc[a] \notin Idle \cup {"hung"}}
Overlapping == \E a, b \in Polling : a # b
NobodyPolls == \A a \in Agents : pc[a] \in {"hung", "stopped"}

\* Whatever crashes and fails on the way, the job that the source goes on
\* offering ends up as the version on record, and stays it, unless agents that
\* share the state file go on polling at the same time: each may read the file
\* while it is truncated by the other, and run the job again.  No agent may be
\* left to do it either: the service is stopped, or deleted, and the others hang.
RecordConverges ==
    \A j \in Jobs :
        <>[](source = j /\ up) =>
            <>[](file = j) \/ []<>Overlapping \/ <>[]NobodyPolls

\* "poll on the interval, and stop cleanly on Stop/Shutdown"
\* (agent_service_windows.go:33): a stop that was sent is obeyed, however busy
\* the service is, unless its poll hangs: nothing then receives the request.
StopIsObeyed == []<>~asked \/ <>[](pc[Service] = "hung")

\* A machine whose provisioning ended with status 0, and which provisionCmd
\* therefore counts as provisioned, has the service installed, whatever the old
\* service was doing: a deletion that is still pending makes the download fail.
\* It does not where the new files go to another directory.
ProvisionedIsInstalled ==
    script = "idle" /\ exit = "ok" => scm = "auto" \/ beside
=============================================================================
