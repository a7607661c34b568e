---------------------------- MODULE StatusProofs ----------------------------
(***************************************************************************)
(* What fleet status rests on: the registry file, whoever shares it (any   *)
(* number of machines, provisioners and boards, reading, saving over each  *)
(* other and dying in any order), and a live board's own driving.          *)
(***************************************************************************)
EXTENDS FleetRegistry, StatusBoard, FiniteSetTheorems, TLAPS

-----------------------------------------------------------------------------
(* The registry file.                                                      *)

\* A registry in which every entry has a type and a provision time.
Sound(r) ==
    /\ r \in Registries
    /\ \A m \in DOMAIN r : r[m].at # "zero"

Structure ==
    /\ mem \in [Processes -> Registries]
    /\ oks \in [Provisioners -> SUBSET Machines]
    /\ pc \in [Processes -> {"idle", "load", "poll", "open", "write", "gone"}]
    /\ Sound(content)
    /\ \A p \in Processes : Sound(mem[p])

\* Everything known of a machine stems from a script that ran on it.
Grounded ==
    /\ DOMAIN content \subseteq installed
    /\ \A p \in Processes : DOMAIN mem[p] \subseteq installed
    /\ \A p \in Provisioners : oks[p] \subseteq installed

\* A registry is a function from some of the machines to entries.
LEMMA RegistryShape ==
    ASSUME NEW r \in Registries
    PROVE  /\ DOMAIN r \subseteq Machines
           /\ r \in [DOMAIN r -> Entry]
BY DEF Registries

\* An upsert lists what was listed and what is brought.
LEMMA UpsertDomain ==
    ASSUME NEW r, NEW S, NEW e
    PROVE  DOMAIN Upsert(r, S, e) = DOMAIN r \cup S
BY DEF Upsert

\* An upsert keeps the provision time of every entry it touches without
\* bringing one, provided there is an old entry to take it from.
LEMMA UpsertSound ==
    ASSUME NEW r, Sound(r), NEW S \in SUBSET Machines, NEW e \in Entry,
           e.at = "zero" => S \subseteq DOMAIN r
    PROVE  Sound(Upsert(r, S, e))
<1>1. DOMAIN r \subseteq Machines /\ r \in [DOMAIN r -> Entry]
  BY RegistryShape DEF Sound
<1> DEFINE u == Upsert(r, S, e)
<1>2. \A m \in DOMAIN r \cup S : u[m] \in Entry /\ u[m].at # "zero"
  <2> SUFFICES ASSUME NEW m \in DOMAIN r \cup S
               PROVE  u[m] \in Entry /\ u[m].at # "zero"
    OBVIOUS
  <2>1. u[m] = IF m \notin S THEN r[m]
               ELSE IF m \in DOMAIN r /\ e.at = "zero"
                    THEN [e EXCEPT !.at = r[m].at] ELSE e
    BY DEF Upsert
  <2>2. CASE m \notin S
    BY <1>1, <2>1, <2>2 DEF Sound
  <2>3. CASE m \in S /\ m \in DOMAIN r /\ e.at = "zero"
    <3>1. r[m] \in Entry /\ r[m].at # "zero"
      BY <1>1, <2>3 DEF Sound
    <3> QED
      BY <2>1, <2>3, <3>1 DEF Entry
  <2>4. CASE m \in S /\ ~(m \in DOMAIN r /\ e.at = "zero")
    <3>1. e.at # "zero"
      BY <2>4
    <3> QED
      BY <2>1, <2>4, <3>1
  <2> QED
    BY <2>2, <2>3, <2>4
<1>3. u \in [DOMAIN r \cup S -> Entry]
  BY <1>2 DEF Upsert
<1>4. DOMAIN r \cup S \in SUBSET Machines
  BY <1>1
<1>5. u \in Registries
  BY <1>3, <1>4 DEF Registries
<1> QED
  BY <1>2, <1>5, UpsertDomain DEF Sound

\* The empty registry of a missing file.
LEMMA NoMachinesSound == Sound(NoMachines) /\ DOMAIN NoMachines = {}
<1>1. DOMAIN NoMachines = {}
  BY DEF NoMachines
<1>2. NoMachines \in [{} -> Entry]
  BY DEF NoMachines
<1>3. NoMachines \in Registries
  BY <1>2 DEF Registries
<1> QED
  BY <1>1, <1>3 DEF Sound

\* What a process loads is the file or nothing.
LEMMA LoadedSound ==
    ASSUME Structure
    PROVE  /\ Sound(Loaded)
           /\ DOMAIN Loaded \subseteq DOMAIN content
BY NoMachinesSound DEF Structure, Loaded

\* A registry taken into memory by one process leaves the others' alone.
LEMMA MemoryStep ==
    ASSUME Structure, NEW p \in Processes, NEW r, Sound(r),
           mem' = [mem EXCEPT ![p] = r]
    PROVE  /\ mem' \in [Processes -> Registries]
           /\ \A q \in Processes : Sound(mem'[q])
           /\ \A q \in Processes : mem'[q] = IF q = p THEN r ELSE mem[q]
BY DEF Structure, Sound

-----------------------------------------------------------------------------
\* What Load and Stamp put into memory is sound and lists what it should.
LEMMA LoadMemory ==
    ASSUME Structure, NEW p \in Provisioners, Load(p)
    PROVE  LET r == Upsert(Loaded, oks[p], [at |-> p, seen |-> FALSE])
           IN  /\ mem' = [mem EXCEPT ![p] = r]
               /\ Sound(r)
               /\ DOMAIN r = DOMAIN Loaded \cup oks[p]
<1> DEFINE e == [at |-> p, seen |-> FALSE]
<1>1. e \in Entry /\ e.at # "zero"
  BY RegistryAssumption DEF Entry
<1>2. oks[p] \in SUBSET Machines
  BY DEF Structure
<1>3. Sound(Upsert(Loaded, oks[p], e))
  BY <1>1, <1>2, LoadedSound, UpsertSound
<1> QED
  BY <1>3, UpsertDomain DEF Load

\* A stamp brings the zero time for machines that are all listed already.
LEMMA StampMemory ==
    ASSUME Structure, NEW b \in Boards, Stamp(b)
    PROVE  LET r == Upsert(mem[b], DOMAIN mem[b], [at |-> "zero", seen |-> TRUE])
           IN  /\ mem' = [mem EXCEPT ![b] = r]
               /\ Sound(r)
               /\ DOMAIN r = DOMAIN mem[b]
<1> DEFINE e == [at |-> "zero", seen |-> TRUE]
<1>1. b \in Processes
  BY DEF Processes
<1>2. e \in Entry
  BY DEF Entry
<1>3. Sound(mem[b]) /\ DOMAIN mem[b] \in SUBSET Machines
  BY <1>1, RegistryShape DEF Structure
<1>4. Sound(Upsert(mem[b], DOMAIN mem[b], e))
  BY <1>2, <1>3, UpsertSound
<1>5. DOMAIN Upsert(mem[b], DOMAIN mem[b], e) = DOMAIN mem[b] \cup DOMAIN mem[b]
  BY UpsertDomain
<1>6. mem' = [mem EXCEPT ![b] = Upsert(mem[b], DOMAIN mem[b], e)]
  BY <1>1 DEF Stamp, Structure
<1> QED
  BY <1>4, <1>5, <1>6

\* The start of all: nothing is listed.
LEMMA StructureInit == Init => Structure /\ Grounded
<1> SUFFICES ASSUME Init PROVE Structure /\ Grounded
  OBVIOUS
<1>1. Sound(content) /\ DOMAIN content = {}
  BY NoMachinesSound DEF Init
<1>2. \A p \in Processes : Sound(mem[p]) /\ DOMAIN mem[p] = {}
  BY NoMachinesSound DEF Init
<1>3. mem \in [Processes -> Registries]
  BY NoMachinesSound DEF Init, Sound
<1>4. oks \in [Provisioners -> SUBSET Machines] /\ \A p \in Provisioners : oks[p] = {}
  BY DEF Init
<1>5. pc \in [Processes -> {"idle", "load", "poll", "open", "write", "gone"}]
  BY DEF Init
<1> QED
  BY <1>1, <1>2, <1>3, <1>4, <1>5 DEF Structure, Grounded

\* Every step keeps every registry, in the file or in memory, sound.
LEMMA StructureStep == ASSUME Structure, [Next]_vars PROVE Structure'
<1> USE DEF Processes
<1>1. ASSUME NEW p \in Provisioners, Run(p) PROVE Structure'
  BY <1>1 DEF Run, FanOut, Structure
<1>2. ASSUME NEW p \in Provisioners, Load(p) PROVE Structure'
  <2>1. mem' \in [Processes -> Registries] /\ \A q \in Processes : Sound(mem'[q])
    BY <1>2, LoadMemory, MemoryStep
  <2> QED
    BY <1>2, <2>1 DEF Load, Structure
<1>3. ASSUME NEW p \in Provisioners, LoadFails(p) PROVE Structure'
  BY <1>3 DEF LoadFails, Structure
<1>4. ASSUME NEW b \in Boards, StartBoard(b) PROVE Structure'
  <2>1. mem' \in [Processes -> Registries] /\ \A q \in Processes : Sound(mem'[q])
    <3>1. CASE UNCHANGED mem
      BY <3>1 DEF Structure
    <3>2. CASE mem' = [mem EXCEPT ![b] = Loaded]
      BY <3>2, LoadedSound, MemoryStep
    <3> QED
      BY <1>4, <3>1, <3>2 DEF StartBoard
  <2> QED
    BY <1>4, <2>1 DEF StartBoard, Structure
<1>5. ASSUME NEW b \in Boards, Stamp(b) PROVE Structure'
  <2>1. mem' \in [Processes -> Registries] /\ \A q \in Processes : Sound(mem'[q])
    BY <1>5, StampMemory, MemoryStep
  <2> QED
    BY <1>5, <2>1 DEF Stamp, Structure
<1>6. ASSUME NEW p \in Processes, Open(p) PROVE Structure'
  BY <1>6 DEF Open, Structure
<1>7. ASSUME NEW p \in Processes, Write(p) \/ WriteFails(p) PROVE Structure'
  BY <1>7 DEF Write, WriteFails, Overwrite, SaveOver, Structure
<1>8. ASSUME NEW p \in Processes, Die(p) PROVE Structure'
  BY <1>8 DEF Die, Structure
<1>9. ASSUME NEW p \in Processes, OpenFails(p) PROVE Structure'
  BY <1>9 DEF OpenFails, SaveOver, Structure
<1>10. CASE UNCHANGED vars
  BY <1>10 DEF vars, Structure
<1> QED
  BY <1>1, <1>2, <1>3, <1>4, <1>5, <1>6, <1>7, <1>8, <1>9, <1>10
  DEF Next, ProvisionStep, BoardStep, Save, Over

\* Without a dry run, every step keeps what is listed within what is installed.
LEMMA GroundedStep ==
    ASSUME ~DryRun, Structure, Grounded, [Next]_vars
    PROVE  Grounded'
<1> USE DEF Processes
<1>1. ASSUME NEW p \in Provisioners, Run(p) PROVE Grounded'
  BY <1>1 DEF Run, FanOut, Structure, Grounded
<1>2. ASSUME NEW p \in Provisioners, Load(p) PROVE Grounded'
  <2> DEFINE r == Upsert(Loaded, oks[p], [at |-> p, seen |-> FALSE])
  <2>1. Sound(r) /\ mem' = [mem EXCEPT ![p] = r] /\ DOMAIN r = DOMAIN Loaded \cup oks[p]
    BY <1>2, LoadMemory
  <2> HIDE DEF r
  <2>2. \A q \in Processes : mem'[q] = IF q = p THEN r ELSE mem[q]
    BY <2>1, MemoryStep
  <2>3. DOMAIN r \subseteq installed
    BY <2>1, LoadedSound DEF Grounded
  <2> QED
    BY <1>2, <2>2, <2>3 DEF Load, Grounded
<1>3. ASSUME NEW p \in Provisioners, LoadFails(p) PROVE Grounded'
  BY <1>3 DEF LoadFails, Grounded
<1>4. ASSUME NEW b \in Boards, StartBoard(b) PROVE Grounded'
  <2>1. \A q \in Processes : mem'[q] \in {mem[q], Loaded}
    <3>1. CASE UNCHANGED mem
      BY <3>1
    <3>2. CASE mem' = [mem EXCEPT ![b] = Loaded]
      BY <3>2, LoadedSound, MemoryStep
    <3> QED
      BY <1>4, <3>1, <3>2 DEF StartBoard
  <2> QED
    BY <1>4, <2>1, LoadedSound DEF StartBoard, Grounded
<1>5. ASSUME NEW b \in Boards, Stamp(b) PROVE Grounded'
  <2> DEFINE r == Upsert(mem[b], DOMAIN mem[b], [at |-> "zero", seen |-> TRUE])
  <2>1. Sound(r) /\ mem' = [mem EXCEPT ![b] = r] /\ DOMAIN r = DOMAIN mem[b]
    BY <1>5, StampMemory
  <2> HIDE DEF r
  <2>2. \A q \in Processes : mem'[q] = IF q = b THEN r ELSE mem[q]
    BY <2>1, MemoryStep
  <2> QED
    BY <1>5, <2>1, <2>2 DEF Stamp, Grounded
<1>6. ASSUME NEW p \in Processes, Open(p) PROVE Grounded'
  BY <1>6 DEF Open, Grounded
<1>7. ASSUME NEW p \in Processes, Write(p) \/ WriteFails(p) PROVE Grounded'
  BY <1>7 DEF Write, WriteFails, Overwrite, SaveOver, Grounded
<1>8. ASSUME NEW p \in Processes, Die(p) PROVE Grounded'
  BY <1>8 DEF Die, Grounded
<1>9. ASSUME NEW p \in Processes, OpenFails(p) PROVE Grounded'
  BY <1>9 DEF OpenFails, SaveOver, Grounded
<1>10. CASE UNCHANGED vars
  BY <1>10 DEF vars, Grounded
<1> QED
  BY <1>1, <1>2, <1>3, <1>4, <1>5, <1>6, <1>7, <1>8, <1>9, <1>10
  DEF Next, ProvisionStep, BoardStep, Save, Over

\* Every registry anywhere is sound in every behaviour.
LEMMA StructureInvariant == Spec => []Structure
<1>1. Init => Structure
  BY StructureInit
<1>2. Structure /\ [Next]_vars => Structure'
  BY StructureStep
<1> QED
  BY <1>1, <1>2, PTL DEF Spec

\* No interleaving of provisioners, boards and kills loses the provision time
\* of a machine that is listed.
THEOREM ProvisionTimesSurvive == Spec => []ProvisionTimeKept
<1>1. Structure => ProvisionTimeKept
  BY DEF Structure, Sound, ProvisionTimeKept
<1> QED
  BY <1>1, StructureInvariant, PTL

\* Unless provisioning is a dry run, a machine that is listed, in the file or
\* in anyone's memory, has had the install script run on it.
THEOREM ListedIsInstalled == ASSUME ~DryRun PROVE Spec => []OnlyInstalledListed
<1>1. Init => Structure /\ Grounded
  BY StructureInit
<1>2. Structure /\ Grounded /\ [Next]_vars => (Structure /\ Grounded)'
  BY StructureStep, GroundedStep
<1>3. Grounded => OnlyInstalledListed
  BY DEF Grounded, OnlyInstalledListed
<1> QED
  BY <1>1, <1>2, <1>3, PTL DEF Spec

-----------------------------------------------------------------------------
(***************************************************************************)
(* Taking turns.  While there was no clash a single process holds the      *)
(* registry, whoever holds it has everything that was recorded, and the    *)
(* file is unreadable only in the middle of a save or after one that was   *)
(* cut, when nobody but the holder can make anything of it: what is loaded *)
(* is then what the last complete save wrote.                              *)
(***************************************************************************)
OneHolder == \A p, q \in Processes : Holds(p) /\ Holds(q) => p = q

HoldersComplete ==
    /\ \A p \in Processes : Holds(p) => recorded \subseteq DOMAIN mem[p]
    /\ \A p \in Provisioners : Holds(p) => oks[p] \subseteq DOMAIN mem[p]

FileComplete ==
    /\ state = "garbled" => cut
    /\ state = "empty" => cut \/ \E p \in Processes : pc[p] = "write"
    /\ \A p \in Processes : pc[p] = "write" => state = "empty"
    /\ ~Torn => recorded \subseteq DOMAIN Loaded

InTurn == OneHolder /\ HoldersComplete /\ FileComplete
Turns == ~clash => InTurn

\* One process moves.  If it takes hold, nobody else may have hold.
LEMMA HoldStep ==
    ASSUME Structure, OneHolder, NEW p \in Processes, NEW place,
           pc' = [pc EXCEPT ![p] = place],
           Holds(p)' => \A q \in Processes : Holds(q) => q = p
    PROVE  /\ OneHolder'
           /\ Holds(p)' <=> place \in {"poll", "open", "write"}
           /\ \A q \in Processes : q # p => (Holds(q)' <=> Holds(q))
BY DEF Structure, OneHolder, Holds

\* A process that lets go, or never had hold, changes no memory, nothing of what
\* is recorded and not the file, unless it was in a save that is cut here.
LEMMA QuietStep ==
    ASSUME Structure, InTurn, NEW p \in Processes, NEW place,
           pc' = [pc EXCEPT ![p] = place],
           place \notin {"poll", "open", "write"},
           cut \/ pc[p] = "write" => cut',
           UNCHANGED <<state, content, mem, recorded>>,
           \A q \in Provisioners : q # p => oks'[q] = oks[q]
    PROVE  InTurn'
<1>1. OneHolder' /\ ~Holds(p)' /\ \A q \in Processes : q # p => (Holds(q)' <=> Holds(q))
  BY HoldStep DEF InTurn, Structure, Holds
<1>2. HoldersComplete'
  BY <1>1 DEF InTurn, HoldersComplete, Processes
<1>3. FileComplete'
  <2>1. /\ pc'[p] # "write"
        /\ \A q \in Processes : q # p => (pc'[q] = "write" <=> pc[q] = "write")
    BY DEF Structure
  <2>2. ~Torn' => recorded' \subseteq DOMAIN Loaded'
    BY DEF InTurn, FileComplete, Torn, Loaded
  <2> QED
    BY <2>1, <2>2 DEF InTurn, FileComplete
<1> QED
  BY <1>1, <1>2, <1>3 DEF InTurn

\* A save that is over leaves either the whole of the writer's memory, or a file
\* that is known to be unreadable, or the file as it was; the one who saved keeps
\* its memory or lets go.
LEMMA SaveStep ==
    ASSUME Structure, InTurn, NEW p \in Processes, Holds(p), SaveOver(p),
           UNCHANGED <<mem, oks>>,
           recorded' = recorded \/ (p \in Provisioners /\ recorded' = recorded \cup oks[p]),
           \/ state' = "ok" /\ content' = mem[p]
           \/ state' \in {"empty", "garbled"} /\ cut' = TRUE
           \/ UNCHANGED <<state, content, recorded, cut>> /\ pc[p] # "write"
    PROVE  InTurn'
<1>1. PICK place : /\ place \in {"poll", "gone"}
                   /\ pc' = [pc EXCEPT ![p] = place]
                   /\ p \in Provisioners => place = "gone"
  BY RegistryAssumption DEF SaveOver
<1>2. \A q \in Processes : Holds(q) => q = p
  BY DEF InTurn, OneHolder
<1>3. OneHolder' /\ \A q \in Processes : q # p => ~Holds(q)'
  BY <1>1, <1>2, HoldStep DEF InTurn
<1>4. recorded' \subseteq DOMAIN mem[p]
  BY DEF InTurn, HoldersComplete
<1>5. p \in Provisioners => ~Holds(p)'
  BY <1>1 DEF Structure, Holds
<1>6. HoldersComplete'
  BY <1>3, <1>4, <1>5 DEF HoldersComplete, Processes
<1>7. \A q \in Processes : pc'[q] # "write"
  BY <1>1, <1>3 DEF Structure, Holds
<1>8. \A q \in Processes : pc[p] # "write" => pc[q] # "write"
  BY <1>2 DEF Holds
<1>9. FileComplete'
  <2>1. CASE state' = "ok" /\ content' = mem[p]
    BY <1>4, <1>7, <2>1 DEF FileComplete, Torn, Loaded
  <2>2. CASE state' \in {"empty", "garbled"} /\ cut' = TRUE
    BY <1>7, <2>2 DEF FileComplete, Torn
  <2>3. CASE UNCHANGED <<state, content, recorded, cut>> /\ pc[p] # "write"
    BY <1>7, <1>8, <2>3 DEF InTurn, FileComplete, Torn, Loaded
  <2> QED
    BY <2>1, <2>2, <2>3
<1> QED
  BY <1>3, <1>6, <1>9 DEF InTurn

\* A process that has no company reads the whole file.
LEMMA ReadStep ==
    ASSUME Structure, InTurn, NEW p \in Processes, NEW r, NEW place,
           place \in {"poll", "open"}, ~Holds(p), ~Overlap(p), ~Torn,
           Sound(r), DOMAIN Loaded \subseteq DOMAIN r,
           p \in Provisioners => oks[p] \subseteq DOMAIN r,
           mem' = [mem EXCEPT ![p] = r], pc' = [pc EXCEPT ![p] = place],
           UNCHANGED <<state, content, oks, recorded, cut>>
    PROVE  InTurn'
<1>1. \A q \in Processes : ~Holds(q)
  BY DEF Overlap
<1>2. OneHolder' /\ \A q \in Processes : q # p => ~Holds(q)'
  BY <1>1, HoldStep DEF InTurn
<1>3. mem'[p] = r
  BY MemoryStep
<1>4. recorded \subseteq DOMAIN Loaded
  BY DEF InTurn, FileComplete
<1>5. HoldersComplete'
  BY <1>2, <1>3, <1>4 DEF HoldersComplete, Processes
<1>6. FileComplete'
  <2>1. \A q \in Processes : pc'[q] # "write"
    BY <1>1 DEF Structure, Holds
  <2>2. \A q \in Processes : pc[q] # "write"
    BY <1>1 DEF Holds
  <2> QED
    BY <2>1, <2>2 DEF InTurn, FileComplete, Torn, Loaded
<1> QED
  BY <1>2, <1>5, <1>6 DEF InTurn

\* Every step that is no clash keeps the turns.
LEMMA TurnsStep == ASSUME Structure, Turns, [Next]_vars PROVE Turns'
<1> SUFFICES ASSUME ~clash' PROVE InTurn'
  BY DEF Turns
<1>1. ASSUME NEW p \in Provisioners, Run(p) PROVE InTurn'
  <2>1. PICK T \in SUBSET Machines, S \in SUBSET Machines : FanOut(p, T, S)
    BY <1>1 DEF Run
  <2>2. p \in Processes /\ InTurn
    BY <2>1 DEF FanOut, Turns, Processes
  <2>3. \A q \in Provisioners : q # p => oks'[q] = oks[q]
    BY <2>1 DEF FanOut, Structure
  <2> QED
    BY <2>1, <2>2, <2>3, QuietStep DEF FanOut
<1>2. ASSUME NEW p \in Provisioners, Load(p) PROVE InTurn'
  <2> DEFINE r == Upsert(Loaded, oks[p], [at |-> p, seen |-> FALSE])
  <2>1. Sound(r) /\ mem' = [mem EXCEPT ![p] = r] /\ DOMAIN r = DOMAIN Loaded \cup oks[p]
    BY <1>2, LoadMemory
  <2> HIDE DEF r
  <2>2. p \in Processes /\ InTurn /\ ~Overlap(p)
    BY <1>2 DEF Load, Turns, Processes
  <2>3. ~Holds(p) /\ ~Torn
    BY <1>2 DEF Load, Holds
  <2>4. pc' = [pc EXCEPT ![p] = "open"] /\ UNCHANGED <<state, content, oks, recorded, cut>>
    BY <1>2 DEF Load
  <2> QED
    BY <2>1, <2>2, <2>3, <2>4, ReadStep
<1>3. ASSUME NEW p \in Provisioners, LoadFails(p) PROVE InTurn'
  <2>1. p \in Processes /\ InTurn
    BY <1>3 DEF LoadFails, Turns, Processes
  <2> QED
    BY <1>3, <2>1, QuietStep DEF LoadFails
<1>4. ASSUME NEW b \in Boards, StartBoard(b) PROVE InTurn'
  <2>1. b \in Processes /\ pc[b] = "idle" /\ ~Holds(b)
    BY <1>4 DEF StartBoard, Holds, Processes
  <2>2. CASE Torn \/ Loaded = NoMachines
    <3>1. InTurn
      BY <1>4, <2>2 DEF StartBoard, Turns
    <3> QED
      BY <1>4, <2>1, <2>2, <3>1, QuietStep DEF StartBoard
  <2>3. CASE ~(Torn \/ Loaded = NoMachines)
    <3>1. /\ mem' = [mem EXCEPT ![b] = Loaded]
          /\ pc' = [pc EXCEPT ![b] = "poll"]
          /\ clash' = (clash \/ Overlap(b))
          /\ UNCHANGED <<state, content, oks, recorded, cut>>
      BY <1>4, <2>3 DEF StartBoard
    <3>2. InTurn /\ ~Overlap(b)
      BY <3>1 DEF Turns
    <3>3. b \notin Provisioners /\ Sound(Loaded) /\ ~Torn
      BY <2>3, RegistryAssumption, LoadedSound
    <3> QED
      BY <2>1, <3>1, <3>2, <3>3, ReadStep
  <2> QED
    BY <2>2, <2>3
<1>5. ASSUME NEW b \in Boards, Stamp(b) PROVE InTurn'
  <2> DEFINE r == Upsert(mem[b], DOMAIN mem[b], [at |-> "zero", seen |-> TRUE])
  <2>1. Sound(r) /\ mem' = [mem EXCEPT ![b] = r] /\ DOMAIN r = DOMAIN mem[b]
    BY <1>5, StampMemory
  <2> HIDE DEF r
  <2>2. b \in Processes /\ InTurn
    BY <1>5 DEF Stamp, Turns, Processes
  <2>3. \A q \in Processes : DOMAIN mem'[q] = DOMAIN mem[q]
    BY <2>1, <2>2, MemoryStep
  <2>4. pc[b] = "poll" /\ pc' = [pc EXCEPT ![b] = "open"]
        /\ UNCHANGED <<state, content, oks, recorded, cut>>
    BY <1>5 DEF Stamp
  <2>5. \A q \in Processes : /\ Holds(q)' <=> Holds(q)
                             /\ pc'[q] = "write" <=> pc[q] = "write"
    BY <2>2, <2>4 DEF Structure, Holds
  <2> QED
    BY <2>2, <2>3, <2>4, <2>5
    DEF InTurn, OneHolder, HoldersComplete, FileComplete, Torn, Loaded, Processes
<1>6. ASSUME NEW p \in Processes, Open(p) PROVE InTurn'
  <2>1. InTurn /\ pc[p] = "open" /\ pc' = [pc EXCEPT ![p] = "write"] /\ state' = "empty"
        /\ UNCHANGED <<content, mem, oks, recorded>>
    BY <1>6 DEF Open, Turns
  <2>2. pc'[p] = "write" /\ \A q \in Processes : Holds(q)' <=> Holds(q)
    BY <2>1 DEF Structure, Holds
  <2> QED
    BY <2>1, <2>2 DEF InTurn, OneHolder, HoldersComplete, FileComplete, Torn, Processes
<1>7. ASSUME NEW p \in Processes, Write(p) PROVE InTurn'
  <2>1. InTurn /\ Holds(p) /\ pc[p] = "write"
    BY <1>7 DEF Write, Turns, Holds
  <2>2. state = "empty"
    BY <2>1 DEF InTurn, FileComplete
  <2>3. state' = "ok" /\ content' = mem[p]
    BY <1>7, <2>2 DEF Write, Overwrite
  <2> QED
    BY <1>7, <2>1, <2>3, SaveStep DEF Write
<1>8. ASSUME NEW p \in Processes, WriteFails(p) PROVE InTurn'
  <2>1. InTurn /\ Holds(p) /\ pc[p] = "write"
    BY <1>8 DEF WriteFails, Turns, Holds
  <2>2. state = "empty"
    BY <2>1 DEF InTurn, FileComplete
  <2>3. \/ state' = "ok" /\ content' = mem[p]
        \/ state' \in {"empty", "garbled"} /\ cut' = TRUE
    BY <1>8, <2>2 DEF WriteFails, Overwrite
  <2> QED
    BY <1>8, <2>1, <2>3, SaveStep DEF WriteFails
<1>9. ASSUME NEW p \in Processes, OpenFails(p) PROVE InTurn'
  <2>1. InTurn /\ Holds(p) /\ pc[p] # "write"
    BY <1>9 DEF OpenFails, Turns, Holds
  <2> QED
    BY <1>9, <2>1, SaveStep DEF OpenFails
<1>10. ASSUME NEW p \in Processes, Die(p) PROVE InTurn'
  <2>1. InTurn
    BY <1>10 DEF Die, Turns
  <2> QED
    BY <1>10, <2>1, QuietStep DEF Die
<1>11. CASE UNCHANGED vars
  BY <1>11 DEF vars, Turns, InTurn, OneHolder, HoldersComplete, FileComplete, Holds, Torn, Loaded
<1> QED
  BY <1>1, <1>2, <1>3, <1>4, <1>5, <1>6, <1>7, <1>8, <1>9, <1>10, <1>11
  DEF Next, ProvisionStep, BoardStep, Save, Over, Processes

\* Before anything ran, nobody holds a file that is not there.
LEMMA TurnsInit == Init => Turns
BY NoMachinesSound
DEF Init, Turns, InTurn, OneHolder, HoldersComplete, FileComplete, Holds, Torn, Loaded, Processes

\* Processes that take turns keep every machine ever recorded, through saves
\* that fail and saves that are killed, and leave the file unreadable at no time
\* but in the middle of a save or after one that was cut, however many there are
\* and whatever they do.
THEOREM TurnsKeepMachines == Spec => []TurnsLoseNothing
<1>1. Turns => TurnsLoseNothing
  BY DEF Turns, InTurn, FileComplete, Torn, Loaded, TurnsLoseNothing
<1>2. Turns /\ Structure /\ [Next]_vars => Turns'
  BY TurnsStep
<1> QED
  BY <1>1, <1>2, TurnsInit, StructureInvariant, PTL DEF Spec

-----------------------------------------------------------------------------
(***************************************************************************)
(* The board's own driving, for any number of polls and keys: the three    *)
(* invariants of StatusBoard and its types are inductive together.  Types  *)
(* are split into numbers and flags, which need different provers.         *)
(***************************************************************************)

Numbers ==
    /\ started \in Polls /\ running \subseteq 1..started
    /\ sampled \in [Polls -> Nat] /\ clock \in Nat /\ row \in Nat
    /\ ticks \in Nat /\ keys \in 0..MaxKeys

Flags == polling \in BOOLEAN /\ quit \in BOOLEAN

Driving == BoardIsDriven /\ FlagHasPoll /\ OverlapBounded

IInv == Numbers /\ Flags /\ Driving

\* The bounds are positive naturals.
LEMMA Bounds ==
    MaxKeys \in Nat /\ MaxPolls \in Nat /\ MaxKeys >= 1 /\ MaxPolls >= 1
BY BoundsAssumption

\* The type invariant is the two parts.
LEMMA TypeParts == Numbers /\ Flags => BoardTypeOK
BY DEF BoardTypeOK, Numbers, Flags

\* The polls under way are finitely many.
LEMMA RunningIsFinite ==
    ASSUME Numbers
    PROVE  IsFiniteSet(running) /\ Cardinality(running) \in Nat
<1>1. IsFiniteSet(1..started)
  BY FS_Interval, Bounds DEF Numbers, Polls
<1>2. running \subseteq 1..started
  BY DEF Numbers
<1> QED
  BY <1>1, <1>2, FS_Subset, FS_CardinalityType

\* The first poll runs without the flag and without company.
LEMMA BoardInit == BoardStart => IInv
<1> SUFFICES ASSUME BoardStart PROVE IInv
  OBVIOUS
<1>1. Numbers
  BY Bounds DEF BoardStart, Numbers, Polls
<1>2. Flags
  BY DEF BoardStart, Flags
<1>3. Cardinality(running) = 1
  BY FS_Singleton DEF BoardStart
<1>4. Driving
  BY <1>3 DEF BoardStart, Driving, BoardIsDriven, FlagHasPoll, OverlapBounded
<1> QED
  BY <1>1, <1>2, <1>4 DEF IInv

\* Every step leaves the flags flags.
LEMMA FlagsStay == ASSUME Flags, [BoardNext]_boardVars PROVE Flags'
<1> USE DEF Flags
<1>1. CASE KeyR
  BY <1>1 DEF KeyR, StartPoll
<1>2. CASE Tick
  BY <1>2 DEF Tick, StartPoll
<1>3. CASE \E i \in Polls : Sample(i) \/ PollDone(i)
  BY <1>3 DEF Sample, PollDone
<1>4. CASE KeyQuit
  BY <1>4 DEF KeyQuit
<1>5. CASE UNCHANGED boardVars
  BY <1>5 DEF boardVars
<1> QED
  BY <1>1, <1>2, <1>3, <1>4, <1>5 DEF BoardNext, Drive, Stopped

\* Every step leaves the numbers in their sets.
LEMMA NumbersStay == ASSUME Numbers, [BoardNext]_boardVars PROVE Numbers'
<1> USE DEF Numbers
<1>0. ASSUME StartPoll
      PROVE  started' \in Polls /\ running' \subseteq 1..started'
  BY <1>0, Bounds DEF StartPoll, Polls
<1>1. CASE KeyR
  <2>1. started' \in Polls /\ running' \subseteq 1..started'
    BY <1>0, <1>1 DEF KeyR
  <2>2. keys' \in 0..MaxKeys
    BY <1>1, Bounds DEF KeyR
  <2>3. UNCHANGED <<sampled, clock, row, ticks>>
    BY <1>1 DEF KeyR
  <2> QED
    BY <2>1, <2>2, <2>3
<1>2. CASE Tick
  <2>1. started' \in Polls /\ running' \subseteq 1..started'
    BY <1>0, <1>2 DEF Tick
  <2>2. ticks' \in Nat
    BY <1>2 DEF Tick
  <2>3. UNCHANGED <<sampled, clock, row, keys>>
    BY <1>2 DEF Tick
  <2> QED
    BY <2>1, <2>2, <2>3
<1>3. ASSUME NEW i \in Polls, Sample(i) PROVE Numbers'
  BY <1>3 DEF Sample
<1>4. ASSUME NEW i \in Polls, PollDone(i) PROVE Numbers'
  <2>1. sampled[i] \in Nat
    OBVIOUS
  <2> QED
    BY <1>4, <2>1 DEF PollDone
<1>5. CASE KeyQuit
  BY <1>5 DEF KeyQuit
<1>6. CASE UNCHANGED boardVars
  BY <1>6 DEF boardVars
<1> QED
  BY <1>1, <1>2, <1>3, <1>4, <1>5, <1>6 DEF BoardNext, Drive, Stopped

\* A poll that starts takes a number of its own and sets the flag: where there
\* was at most one poll there are at most two.
LEMMA PollStarts ==
    ASSUME IInv, ~polling, StartPoll
    PROVE  Driving'
<1>1. started + 1 \notin running
  BY Bounds DEF IInv, Numbers, Polls
<1>2. Cardinality(running') = Cardinality(running) + 1
  BY <1>1, RunningIsFinite, FS_AddElement DEF IInv, StartPoll
<1>3. Cardinality(running) <= 1
  BY DEF IInv, Driving, OverlapBounded
<1>4. Cardinality(running') <= 2
  BY <1>2, <1>3, RunningIsFinite DEF IInv
<1>5. OverlapBounded'
  BY <1>4 DEF OverlapBounded, StartPoll
<1>6. BoardIsDriven' /\ FlagHasPoll'
  BY DEF StartPoll, BoardIsDriven, FlagHasPoll
<1> QED
  BY <1>5, <1>6 DEF Driving

\* A poll that reports arms a timer and clears the flag, whichever poll it is.
LEMMA PollReports ==
    ASSUME IInv, NEW i \in Polls, PollDone(i)
    PROVE  Driving'
<1>1. Cardinality(running') = Cardinality(running) - 1
  BY RunningIsFinite, FS_RemoveElement DEF IInv, PollDone
<1>2. Cardinality(running) <= 2
  <2>1. CASE polling
    BY <2>1 DEF IInv, Driving, OverlapBounded
  <2>2. CASE ~polling
    BY <2>2, RunningIsFinite DEF IInv, Driving, OverlapBounded
  <2> QED
    BY <2>1, <2>2
<1>3. Cardinality(running') <= 1
  BY <1>1, <1>2, RunningIsFinite DEF IInv
<1>4. OverlapBounded'
  BY <1>3 DEF OverlapBounded, PollDone
<1>5. BoardIsDriven'
  BY DEF IInv, Numbers, PollDone, BoardIsDriven
<1>6. FlagHasPoll'
  BY DEF PollDone, FlagHasPoll
<1> QED
  BY <1>4, <1>5, <1>6 DEF Driving

\* A step that moves no poll and no timer and leaves the flag drives as before.
LEMMA NothingMoves ==
    ASSUME IInv, UNCHANGED <<running, ticks, polling>>
    PROVE  Driving'
BY DEF IInv, Driving, BoardIsDriven, FlagHasPoll, OverlapBounded

\* Every step keeps the board driven, its flag justified and its polls few.
LEMMA DrivingStays == ASSUME IInv, [BoardNext]_boardVars PROVE Driving'
<1>1. CASE KeyR
  BY <1>1, PollStarts, NothingMoves DEF KeyR
<1>2. CASE Tick
  <2>1. CASE ~polling /\ StartPoll
    BY <2>1, PollStarts
  <2>2. CASE polling /\ UNCHANGED <<started, running, polling>>
    <3>1. running # {}
      BY <2>2 DEF IInv, Driving, FlagHasPoll
    <3> QED
      BY <2>2, <3>1
      DEF IInv, Driving, BoardIsDriven, FlagHasPoll, OverlapBounded
  <2> QED
    BY <1>2, <2>1, <2>2 DEF Tick
<1>3. ASSUME NEW i \in Polls, PollDone(i) PROVE Driving'
  BY <1>3, PollReports
<1>4. ASSUME NEW i \in Polls, Sample(i) PROVE Driving'
  BY <1>4, NothingMoves DEF Sample
<1>5. CASE KeyQuit
  BY <1>5, NothingMoves DEF KeyQuit
<1>6. CASE UNCHANGED boardVars
  BY <1>6, NothingMoves DEF boardVars
<1> QED
  BY <1>1, <1>2, <1>3, <1>4, <1>5, <1>6 DEF BoardNext, Drive, Stopped

\* The invariants of the board hold of every behaviour.
LEMMA BoardInvariant == BoardSpec => []IInv
<1>1. IInv /\ [BoardNext]_boardVars => IInv'
  BY FlagsStay, NumbersStay, DrivingStays DEF IInv
<1> QED
  BY BoardInit, <1>1, PTL DEF BoardSpec

\* Every variable has its type.
THEOREM BoardTypeCorrect == BoardSpec => []BoardTypeOK
<1>1. IInv => BoardTypeOK
  BY TypeParts DEF IInv
<1> QED
  BY <1>1, BoardInvariant, PTL

\* A board that is up always has a poll or a timer that drives it on.
THEOREM BoardNeverRunsDry == BoardSpec => []BoardIsDriven
<1>1. IInv => BoardIsDriven
  BY DEF IInv, Driving
<1> QED
  BY <1>1, BoardInvariant, PTL

\* The flag that mutes r and the timer is set only while a poll will clear it.
THEOREM FlagIsCleared == BoardSpec => []FlagHasPoll
<1>1. IInv => FlagHasPoll
  BY DEF IInv, Driving
<1> QED
  BY <1>1, BoardInvariant, PTL

\* The poll that the flag misses costs one overlap at a time and no more.
THEOREM OverlapIsBounded == BoardSpec => []OverlapBounded
<1>1. IInv => OverlapBounded
  BY DEF IInv, Driving
<1> QED
  BY <1>1, BoardInvariant, PTL
=============================================================================
