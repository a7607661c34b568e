---------------------------- MODULE AgentProofs ----------------------------
(***************************************************************************)
(* Proofs about Agent, for any set of agents of which one is a service,    *)
(* any jobs, and any number of faults and changes.                         *)
(***************************************************************************)
EXTENDS Agent, TLAPS

Places == {"stopped", "started", "sleep", "fetch", "exec", "running", "open",
           "write", "hung"}

\* What the two arguments need of the types.
PollTypes ==
    /\ pc \in [Agents -> Places]
    /\ held \in [Agents -> Jobs \cup {None}]
    /\ {source, file, ran} \subseteq Jobs \cup {None}
    /\ excused \in BOOLEAN

Busy == {a \in Agents : pc[a] \notin Idle}

\* Without an excuse at most one poll is under way.
Alone == ~excused => \A a, b \in Busy : a = b

\* Without an excuse the version on record is that of the job begun last, but
\* for the time in which its own poll runs and writes it: a poll that fetches
\* holds that version, and one that goes on to a job has found another.
OnRecord ==
    ~excused =>
        /\ (\A a \in Agents : pc[a] \in Idle \cup {"fetch"}) => file = ran
        /\ \A a \in Agents :
            /\ pc[a] = "fetch" => held[a] = ran
            /\ pc[a] = "exec" => held[a] # ran
            /\ pc[a] \in {"running", "open", "write"} => held[a] = ran

PollInv == PollTypes /\ Alone /\ OnRecord

\* After a download that no old service was beside, the entry is absent, then
\* created, and stays until it is deleted.
InstallInv ==
    ~beside =>
        /\ script = "create" => scm = "absent"
        /\ script = "start" => scm = "auto"
        /\ script = "idle" /\ exit = "ok" => scm = "auto"

\* The entry's path through a run of the script is preserved by every step.
LEMMA InstallStep == InstallInv /\ [Next]_vars => InstallInv'
<1> SUFFICES ASSUME InstallInv, [Next]_vars PROVE InstallInv'
    OBVIOUS
<1> USE DEF InstallInv
<1>1. CASE Provision
    BY <1>1 DEF Provision, ScriptStops, ScriptDeletes, Downloads, DownloadFails,
        ScriptCreates, ScriptStarts
<1>2. CASE UNCHANGED install
    BY <1>2 DEF install
<1>3. CASE Gone /\ UNCHANGED <<script, exit, beside>>
    BY <1>3 DEF Gone
<1>4. CASE Reboot
    BY <1>4 DEF Reboot, Gone
<1>5. ASSUME NEW a \in Agents, AgentStep(a) \/ WriteFails(a) \/ Hang(a)
      PROVE  UNCHANGED install
    BY <1>5 DEF AgentStep, Poll, FetchFails, UpToDate, Fetch, Begin, End,
        Truncate, Write, WriteFails, Hang
<1>6. ASSUME NEW a \in Agents, Crash(a)
      PROVE  \/ UNCHANGED install
             \/ Gone /\ UNCHANGED <<script, exit, beside>>
    BY <1>6 DEF Crash, install
<1>7. StartService \/ AskStop \/ SourceChanges => UNCHANGED install
    BY DEF StartService, AskStop, SourceChanges
<1>8. StopService => Gone /\ UNCHANGED <<script, exit, beside>>
    BY DEF StopService
<1>9. UNCHANGED vars => UNCHANGED install
    BY DEF vars
<1> QED
    BY <1>1, <1>2, <1>3, <1>4, <1>5, <1>6, <1>7, <1>8, <1>9 DEF Next

\* A machine whose provisioning ended with status 0 has the service installed,
\* unless the new files went beside a service that outlived the deadline.
THEOREM ProvisioningInstalls == Spec => []ProvisionedIsInstalled
<1>1. Init => InstallInv
    BY DEF Init, InstallInv
<1>2. InstallInv => ProvisionedIsInstalled
    BY DEF InstallInv, ProvisionedIsInstalled
<1> QED
    BY <1>1, InstallStep, <1>2, PTL DEF Spec

-----------------------------------------------------------------------------
\* Nothing is claimed of a state with an excuse.
LEMMA ExcusedHolds == PollTypes /\ excused => PollInv
BY DEF PollInv, Alone, OnRecord

\* Where an agent is busy without an excuse, every other one is idle.
LEMMA OthersIdle ==
    ASSUME PollInv, ~excused, NEW a \in Agents, pc[a] \notin Idle
    PROVE  \A b \in Agents : b # a => pc[b] \in Idle
BY DEF PollInv, Alone, Busy

\* Every step keeps the types.
LEMMA PollTypesStep == PollTypes /\ [Next]_vars => PollTypes'
<1> SUFFICES ASSUME PollTypes, [Next]_vars PROVE PollTypes'
    OBVIOUS
<1> USE DEF PollTypes, Step, Forget, Places, polls
<1>1. ASSUME NEW a \in Agents, AgentStep(a) PROVE PollTypes'
    <2>1. CASE Poll(a)
        BY <2>1 DEF Poll
    <2>2. CASE FetchFails(a) \/ UpToDate(a)
        BY <2>2 DEF FetchFails, UpToDate
    <2>3. CASE Fetch(a)
        BY <2>3 DEF Fetch
    <2>4. CASE Begin(a) \/ End(a)
        BY <2>4 DEF Begin, End
    <2>5. CASE Truncate(a) \/ Write(a)
        BY <2>5 DEF Truncate, Write
    <2> QED
        BY <1>1, <2>1, <2>2, <2>3, <2>4, <2>5 DEF AgentStep
<1>2. ASSUME NEW a \in Agents, WriteFails(a) \/ Hang(a) \/ Crash(a)
      PROVE  PollTypes'
    BY <1>2 DEF WriteFails, Hang, Crash
<1>3. CASE StartService \/ AskStop \/ StopService
    BY <1>3, AgentAssumption DEF StartService, AskStop, StopService
<1>4. CASE Reboot
    BY <1>4 DEF Reboot
<1>5. CASE Provision
    BY <1>5, AgentAssumption DEF Provision, ScriptStops, ScriptDeletes,
        Downloads, DownloadFails, ScriptCreates, ScriptStarts
<1>6. CASE SourceChanges
    BY <1>6 DEF SourceChanges
<1>7. CASE UNCHANGED vars
    BY <1>7 DEF vars
<1> QED
    BY <1>1, <1>2, <1>3, <1>4, <1>5, <1>6, <1>7 DEF Next

\* A step that moves agents between idle places only, and leaves the file, the
\* polls and the histories alone, keeps the invariant.
LEMMA IdleMoves ==
    ASSUME PollInv, PollTypes',
           UNCHANGED <<file, held, ran, excused>>,
           \A b \in Agents : pc'[b] = pc[b] \/ (pc[b] \in Idle /\ pc'[b] \in Idle)
    PROVE  PollInv'
<1>1. \A b \in Agents : pc'[b] \in Idle <=> pc[b] \in Idle
    OBVIOUS
<1>2. Busy' = Busy
    BY <1>1 DEF Busy, Idle
<1>3. Alone'
    BY <1>2 DEF PollInv, Alone
<1>4. OnRecord'
    BY <1>1 DEF PollInv, OnRecord, Idle
<1> QED
    BY <1>3, <1>4 DEF PollInv

\* The poll that moves is the only one, when the step leaves no excuse: what
\* the invariant says of the state after it, it says of this agent.
LEMMA OnlyPoll ==
    ASSUME PollTypes', NEW a \in Agents,
           \A b \in Agents : b # a => pc'[b] \in Idle,
           /\ pc'[a] \in Idle \cup {"fetch"} => file' = ran'
           /\ pc'[a] = "fetch" => held'[a] = ran'
           /\ pc'[a] = "exec" => held'[a] # ran'
           /\ pc'[a] \in {"running", "open", "write"} => held'[a] = ran'
    PROVE  PollInv'
<1>1. Alone'
    BY DEF Alone, Busy, Idle
<1>2. OnRecord'
    BY DEF OnRecord, Idle
<1> QED
    BY <1>1, <1>2 DEF PollInv

\* Every step of a poll keeps the invariant.
LEMMA AgentStepKeeps ==
    ASSUME PollInv, PollTypes', NEW a \in Agents, AgentStep(a)
    PROVE  PollInv'
<1> SUFFICES ASSUME ~excused' PROVE PollInv'
    BY ExcusedHolds, PTL
<1>1. CASE Poll(a)
    <2>1. ~excused /\ \A b \in Agents : b # a => pc[b] \in Idle
        BY <1>1 DEF Poll, Others
    <2>2. pc[a] \in Idle
        BY <1>1 DEF Poll, Step, Idle
    <2>3. file = ran
        BY <2>1, <2>2 DEF PollInv, OnRecord
    <2>4. \A b \in Agents : b # a => pc'[b] \in Idle
        BY <1>1, <2>1 DEF Poll, Step, PollInv, PollTypes
    <2>5. pc'[a] = "fetch" /\ held'[a] = file /\ file' = file /\ ran' = ran
        BY <1>1 DEF Poll, Step, PollInv, PollTypes
    <2> QED
        BY <2>3, <2>4, <2>5, OnlyPoll
<1>2. CASE Begin(a)
    <2>1. \A b \in Agents : b # a => pc[b] \in Idle
        BY <1>2 DEF Begin, Others
    <2>2. \A b \in Agents : b # a => pc'[b] \in Idle
        BY <1>2, <2>1 DEF Begin, Step, PollInv, PollTypes
    <2>3. pc'[a] = "running" /\ held'[a] = held[a] /\ ran' = held[a]
        BY <1>2 DEF Begin, Step, PollInv, PollTypes
    <2> QED
        BY <2>2, <2>3, OnlyPoll DEF Idle
<1>3. CASE FetchFails(a) \/ UpToDate(a) \/ Fetch(a) \/ End(a) \/ Truncate(a) \/ Write(a)
    <2>1. ~excused /\ pc[a] \notin Idle
        BY <1>3 DEF FetchFails, UpToDate, Fetch, End, Truncate, Write, Step, Idle, polls
    <2>2. \A b \in Agents : b # a => pc[b] \in Idle
        BY <2>1, OthersIdle
    <2>3. \A b \in Agents : b # a => pc'[b] \in Idle
        BY <1>3, <2>2 DEF FetchFails, UpToDate, Fetch, End, Truncate, Write,
            Step, PollInv, PollTypes
    <2>4. CASE FetchFails(a) \/ UpToDate(a)
        <3>1. file = ran
            BY <2>1, <2>2, <2>4 DEF FetchFails, UpToDate, Step, PollInv, OnRecord
        <3>2. pc'[a] = "sleep" /\ file' = file /\ ran' = ran
            BY <2>4 DEF FetchFails, UpToDate, Step, PollInv, PollTypes
        <3> QED
            BY <2>3, <3>1, <3>2, OnlyPoll
    <2>5. CASE Fetch(a)
        <3>1. held[a] = ran
            BY <2>1, <2>5 DEF Fetch, Step, PollInv, OnRecord
        <3>2. pc'[a] = "exec" /\ held'[a] # held[a] /\ ran' = ran
            BY <2>5 DEF Fetch, Step, PollInv, PollTypes
        <3> QED
            BY <2>3, <3>1, <3>2, OnlyPoll DEF Idle
    <2>6. CASE End(a) \/ Truncate(a)
        <3>1. held[a] = ran
            BY <2>1, <2>6 DEF End, Truncate, Step, PollInv, OnRecord
        <3>2. pc'[a] \in {"open", "write"} /\ held' = held /\ ran' = ran
            BY <2>6 DEF End, Truncate, Step, PollInv, PollTypes, polls
        <3> QED
            BY <2>3, <3>1, <3>2, OnlyPoll DEF Idle
    <2>7. CASE Write(a)
        <3>1. held[a] = ran
            BY <2>1, <2>7 DEF Write, Step, PollInv, OnRecord
        <3>2. pc'[a] = "sleep" /\ file' = held[a] /\ ran' = ran
            BY <2>7 DEF Write, Step, PollInv, PollTypes
        <3> QED
            BY <2>3, <3>1, <3>2, OnlyPoll
    <2> QED
        BY <1>3, <2>4, <2>5, <2>6, <2>7
<1> QED
    BY <1>1, <1>2, <1>3 DEF AgentStep

\* A poll that hangs is under way for good.
LEMMA HangKeeps ==
    ASSUME PollInv, PollTypes', NEW a \in Agents, Hang(a)
    PROVE  PollInv'
<1> SUFFICES ASSUME ~excused' PROVE PollInv'
    BY ExcusedHolds, PTL
<1>1. ~excused /\ pc[a] \notin Idle
    BY DEF Hang, Step, Idle, polls
<1>2. \A b \in Agents : b # a => pc[b] \in Idle
    BY <1>1, OthersIdle
<1>3. (\A b \in Agents : b # a => pc'[b] \in Idle) /\ pc'[a] = "hung"
    BY <1>2 DEF Hang, Step, PollInv, PollTypes
<1> QED
    BY <1>3, OnlyPoll DEF Idle

\* The invariant of the polls is inductive.
LEMMA PollInvStep == PollInv /\ [Next]_vars => PollInv'
<1> SUFFICES ASSUME PollInv, [Next]_vars PROVE PollInv'
    OBVIOUS
<1>1. PollTypes'
    BY PollTypesStep DEF PollInv
<1>2. ASSUME NEW a \in Agents, AgentStep(a) PROVE PollInv'
    BY <1>1, <1>2, AgentStepKeeps
<1>3. ASSUME NEW a \in Agents, Hang(a) PROVE PollInv'
    BY <1>1, <1>3, HangKeeps
<1>4. ASSUME NEW a \in Agents, WriteFails(a) \/ Crash(a) PROVE PollInv'
    <2>1. excused'
        BY <1>4 DEF WriteFails, Crash
    <2> QED
        BY <1>1, <2>1, ExcusedHolds, PTL
<1>5. CASE Reboot
    <2>1. excused'
        BY <1>5 DEF Reboot
    <2> QED
        BY <1>1, <2>1, ExcusedHolds, PTL
<1>6. CASE StartService \/ AskStop \/ StopService \/ Provision
           \/ SourceChanges \/ UNCHANGED vars
    <2>1. UNCHANGED <<file, held, ran, excused>>
        BY <1>6 DEF StartService, AskStop, StopService, Provision, ScriptStops,
            ScriptDeletes, Downloads, DownloadFails, ScriptCreates, ScriptStarts,
            SourceChanges, vars, polls
    <2>2. \A b \in Agents : pc'[b] = pc[b] \/ (pc[b] \in Idle /\ pc'[b] \in Idle)
        BY <1>6 DEF StartService, AskStop, StopService, Provision, ScriptStops,
            ScriptDeletes, Downloads, DownloadFails, ScriptCreates, ScriptStarts,
            SourceChanges, vars, Step, Running, Idle, PollInv, PollTypes
    <2> QED
        BY <1>1, <2>1, <2>2, IdleMoves
<1> QED
    BY <1>2, <1>3, <1>4, <1>5, <1>6 DEF Next

\* "Runs it only when it has changed" (agent.go:16): a job that is begun is
\* another than the one begun last, unless a fault or a poll beside it excuses
\* it; whatever the service is told and however often it is installed.
THEOREM RerunsNeedAnExcuse == Spec => RerunsAreExcused
<1>1. Init => PollInv
    BY AgentAssumption DEF Init, PollInv, PollTypes, Alone, OnRecord, Busy,
        Idle, Places
<1>2. PollInv => \A a \in Agents : pc[a] = "exec" => ran # held[a] \/ excused
    BY DEF PollInv, OnRecord
<1>3. PollInv /\ [Next]_vars =>
        [\A a \in Agents : pc[a] = "exec" /\ pc'[a] = "running" =>
            ran # held[a] \/ excused]_vars
    BY <1>2
<1> QED
    BY <1>1, PollInvStep, <1>3, PTL DEF Spec, RerunsAreExcused
=============================================================================
