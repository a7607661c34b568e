--------------------------- MODULE FleetRegistry ---------------------------
(***************************************************************************)
(* The registry file (fleet/registry.go) and the processes that share it:  *)
(* "put it on a network share and the whole team's fleet status sees the   *)
(* same fleet" (README.md).  fleet provision installs the agent, then      *)
(* loads the file, upserts what it installed and saves; a status board     *)
(* loads the file once and saves what it holds after every poll.  Nothing  *)
(* locks the file, and os.WriteFile truncates before it writes.  A save    *)
(* that fails ends fleet provision; a board goes on as if it had not.      *)
(***************************************************************************)
EXTENDS FiniteSets

CONSTANTS
    Machines,
    Provisioners,  \* runs of fleet provision
    Boards,        \* fleet status, with or without --tui
    DryRun         \* the provisioners were given --what-if

ASSUME RegistryAssumption ==
    DryRun \in BOOLEAN /\ Provisioners \cap Boards = {} /\ "zero" \notin Provisioners

Processes == Provisioners \cup Boards

\* A machine's entry: who set ProvisionedAt ("zero" is the zero time), and
\* whether LastSeen is set.
Entry == [at : Provisioners \cup {"zero"}, seen : BOOLEAN]

\* A registry is a function from the machines it lists to their entries.
Registries == UNION {[S -> Entry] : S \in SUBSET Machines}
NoMachines == [m \in {} |-> "none"]

VARIABLES
    state,      \* of the file: "missing", "empty", "garbled" or "ok"
    content,    \* what it says when it is "ok"
    pc,         \* the place of each process
    mem,        \* the registry each process holds
    oks,        \* oks[p]: the targets p's run reported OK
    installed,  \* history: the machines a provision script has run on
    recorded,   \* history: the machines a provisioner has saved as its own
    clash,      \* history: two processes held the registry at once
    cut         \* history: a save failed or was killed after it had truncated
                \* the file, and none was completed since

vars == <<state, content, pc, mem, oks, installed, recorded, clash, cut>>

\* json.Unmarshal fails on an empty file as on one with leftovers at its end.
Torn == state \in {"empty", "garbled"}

\* p has read the file and may still write it.
Holds(p) == pc[p] \in {"poll", "open", "write"}

Init ==
    /\ state = "missing" /\ content = NoMachines
    /\ pc = [p \in Processes |-> "idle"]
    /\ mem = [p \in Processes |-> NoMachines]
    /\ oks = [p \in Provisioners |-> {}]
    /\ installed = {} /\ recorded = {} /\ clash = FALSE /\ cut = FALSE

-----------------------------------------------------------------------------
\* Mutation: the zero time overwrites.
UpsertPlain(r, S, e) ==
    [m \in DOMAIN r \cup S |-> IF m \in S THEN e ELSE r[m]]

\* Upsert of an entry e for every machine of S: a zero ProvisionedAt keeps
\* the old one; LastSeen is whatever the caller brings.
Upsert(r, S, e) ==
    [m \in DOMAIN r \cup S |->
        IF m \notin S THEN r[m]
        ELSE IF m \in DOMAIN r /\ e.at = "zero" THEN [e EXCEPT !.at = r[m].at]
        ELSE e]

\* Mutation: failed targets are taken for installed ones.
FanOutReportsAll(p, T, S) ==
    /\ pc[p] = "idle" /\ S \subseteq T
    /\ installed' = IF DryRun THEN installed ELSE installed \cup S
    /\ oks' = [oks EXCEPT ![p] = T]
    /\ pc' = [pc EXCEPT ![p] = "load"]
    /\ UNCHANGED <<state, content, mem, recorded, clash, cut>>

\* The fan-out over the targets T, which succeeds on S.  In a dry run nothing
\* is executed and every result that renders is OK.
FanOut(p, T, S) ==
    /\ pc[p] = "idle" /\ S \subseteq T
    /\ installed' = IF DryRun THEN installed ELSE installed \cup S
    /\ oks' = [oks EXCEPT ![p] = S]
    /\ pc' = [pc EXCEPT ![p] = "load"]
    /\ UNCHANGED <<state, content, mem, recorded, clash, cut>>

\* LoadRegistry: a missing file is an empty registry.
Loaded == IF state = "missing" THEN NoMachines ELSE content

Overlap(p) == \E q \in Processes \ {p} : Holds(q)

\* Mutation: the registry is built anew instead of loaded.
LoadNothing(p) ==
    /\ pc[p] = "load" /\ ~Torn
    /\ mem' = [mem EXCEPT ![p] = Upsert(NoMachines, oks[p], [at |-> p, seen |-> FALSE])]
    /\ pc' = [pc EXCEPT ![p] = "open"]
    /\ clash' = (clash \/ Overlap(p))
    /\ UNCHANGED <<state, content, oks, installed, recorded, cut>>

\* Load and upsert the results that are OK.
Load(p) ==
    /\ pc[p] = "load" /\ ~Torn
    /\ mem' = [mem EXCEPT ![p] = Upsert(Loaded, oks[p], [at |-> p, seen |-> FALSE])]
    /\ pc' = [pc EXCEPT ![p] = "open"]
    /\ clash' = (clash \/ Overlap(p))
    /\ UNCHANGED <<state, content, oks, installed, recorded, cut>>

\* A file that does not parse: exit 1, with the machines installed.
LoadFails(p) ==
    /\ pc[p] = "load" /\ Torn
    /\ pc' = [pc EXCEPT ![p] = "gone"]
    /\ UNCHANGED <<state, content, mem, oks, installed, recorded, clash, cut>>

\* A status board starts: an empty or broken registry is the end of it.
StartBoard(b) ==
    /\ pc[b] = "idle"
    /\ IF Torn \/ Loaded = NoMachines
         THEN pc' = [pc EXCEPT ![b] = "gone"] /\ UNCHANGED <<mem, clash>>
         ELSE /\ mem' = [mem EXCEPT ![b] = Loaded]
              /\ pc' = [pc EXCEPT ![b] = "poll"]
              /\ clash' = (clash \/ Overlap(b))
    /\ UNCHANGED <<state, content, oks, installed, recorded, cut>>

\* A poll is back: every machine held is stamped.
Stamp(b) ==
    /\ pc[b] = "poll"
    /\ mem' = [mem EXCEPT ![b] =
                 Upsert(@, DOMAIN @, [at |-> "zero", seen |-> TRUE])]
    /\ pc' = [pc EXCEPT ![b] = "open"]
    /\ UNCHANGED <<state, content, oks, installed, recorded, clash, cut>>

\* Mutation: a file that does not parse is not overwritten.
OpenIfReadable(p) ==
    /\ pc[p] = "open"
    /\ IF Torn THEN UNCHANGED state /\ pc' = [pc EXCEPT ![p] = "poll"]
               ELSE state' = "empty" /\ pc' = [pc EXCEPT ![p] = "write"]
    /\ UNCHANGED <<content, mem, oks, installed, recorded, clash, cut>>

\* os.WriteFile opens with O_TRUNC ...
Open(p) ==
    /\ pc[p] = "open"
    /\ state' = "empty"
    /\ pc' = [pc EXCEPT ![p] = "write"]
    /\ UNCHANGED <<content, mem, oks, installed, recorded, clash, cut>>

\* The save is over, whatever came of it: fleet provision exits, with status 1
\* if it failed; a board drops the error and polls on.
SaveOver(p) == pc' = [pc EXCEPT ![p] = IF p \in Boards THEN "poll" ELSE "gone"]

\* r is s without some of its machines, and so the shorter file.
Part(r, s) ==
    DOMAIN r \subseteq DOMAIN s /\ r # s /\ \A m \in DOMAIN r : r[m] = s[m]

\* ... and writes from offset 0: onto longer content of someone who opened it
\* too, the end of that content stays behind.
Overwrite(p) ==
    /\ content' = mem[p]
    /\ \/ ~(state = "ok" /\ Part(mem[p], content)) /\ state' = "ok"
       \/ /\ state = "garbled" \/ (state = "ok" /\ content # mem[p])
          /\ state' = "garbled"

Write(p) ==
    /\ pc[p] = "write"
    /\ Overwrite(p) /\ SaveOver(p)
    /\ recorded' = IF p \in Provisioners THEN recorded \cup oks[p] ELSE recorded
    /\ cut' = FALSE
    /\ UNCHANGED <<mem, oks, installed, clash>>

\* The file cannot be opened, and is as it was.
OpenFails(p) ==
    /\ pc[p] = "open" /\ SaveOver(p)
    /\ UNCHANGED <<state, content, mem, oks, installed, recorded, clash, cut>>

\* The disk is full, or the share is gone: what is written of it is nothing, a
\* part, or, if it is the close that fails, all.
WriteFails(p) ==
    /\ pc[p] = "write" /\ SaveOver(p)
    /\ \/ state' \in {state, "garbled"} /\ UNCHANGED content
       \/ Overwrite(p)
    /\ cut' = TRUE
    /\ UNCHANGED <<mem, oks, installed, recorded, clash>>

\* The process is killed, or a board is quit.
Die(p) ==
    /\ pc[p] \notin {"idle", "gone"}
    /\ pc' = [pc EXCEPT ![p] = "gone"]
    /\ cut' = (cut \/ pc[p] = "write")
    /\ UNCHANGED <<state, content, mem, oks, installed, recorded, clash>>

Run(p) == \E T \in SUBSET Machines \ {{}}, S \in SUBSET Machines : FanOut(p, T, S)

Save(p) == Open(p) \/ Write(p) \/ OpenFails(p) \/ WriteFails(p)
ProvisionStep(p) == Load(p) \/ LoadFails(p) \/ Save(p)
BoardStep(b) == Stamp(b) \/ Save(b)

\* Every process may have come to its end.
Over == (\A p \in Processes : pc[p] = "gone") /\ UNCHANGED vars

Next ==
    \/ \E p \in Provisioners : Run(p) \/ ProvisionStep(p)
    \/ \E b \in Boards : StartBoard(b) \/ BoardStep(b)
    \/ \E p \in Processes : Die(p)
    \/ Over

Spec == Init /\ [][Next]_vars

\* Running processes go on; whoever starts one, or kills it, is free.  A board
\* saves after every poll, and the trouble with the file is not for ever: of its
\* saves that are tried again and again some open the file and some are completed.
FairSpec ==
    /\ Spec
    /\ \A p \in Provisioners : WF_vars(ProvisionStep(p))
    /\ \A b \in Boards : WF_vars(Stamp(b)) /\ SF_vars(Open(b)) /\ SF_vars(Write(b))

-----------------------------------------------------------------------------
TypeOK ==
    /\ state \in {"missing", "empty", "garbled", "ok"}
    /\ content \in Registries
    /\ pc \in [Processes -> {"idle", "load", "poll", "open", "write", "gone"}]
    /\ mem \in [Processes -> Registries]
    /\ oks \in [Provisioners -> SUBSET Machines]
    /\ installed \subseteq Machines /\ recorded \subseteq Machines
    /\ clash \in BOOLEAN /\ cut \in BOOLEAN

\* "The file-based record of machines we've provisioned and own"
\* (registry.go:12): whatever a process reads, holds or writes, in whatever
\* order, a machine that is listed had the agent installed on it.
OnlyInstalledListed ==
    /\ state = "ok" => DOMAIN content \subseteq installed
    /\ \A p \in Processes : DOMAIN mem[p] \subseteq installed

\* "A status-board refresh doesn't wipe the original provision time"
\* (registry.go:68): no entry anywhere is without a provision time.
ProvisionTimeKept ==
    /\ state = "ok" => \A m \in DOMAIN content : content[m].at # "zero"
    /\ \A p \in Processes : \A m \in DOMAIN mem[p] : mem[p][m].at # "zero"

\* Processes that take turns keep every machine: while nobody read the file
\* with another's save to come, no save drops what one recorded, also after
\* saves that failed or were killed, whose error the boards discard.  The file is
\* unreadable only in the middle of a save or after one that was cut.
TurnsLoseNothing ==
    ~clash =>
        /\ state = "ok" => recorded \subseteq DOMAIN content
        /\ Torn => cut \/ \E p \in Processes : pc[p] = "write"

\* A file left unreadable is made good by any board that is still up, provided
\* that its saves do not fail for ever (FairSpec).
BoardHealsFile ==
    \A b \in Boards : Torn /\ Holds(b) ~> ~Torn \/ ~Holds(b)

\* "the whole team's `fleet status` sees the same fleet" (README.md:154): a
\* machine that fleet provision has saved stays in the registry.
NoLostMachines == state = "ok" => recorded \subseteq DOMAIN content
=============================================================================
