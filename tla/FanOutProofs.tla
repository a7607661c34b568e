---------------------------- MODULE FanOutProofs ----------------------------
(***************************************************************************)
(* Proofs about FanOut for every number of targets, parallelism and number *)
(* of retries, every set of hanging commands and of deaf transports: the   *)
(* pool, the slice, the failures, and the contracts that Run keeps with    *)
(* its callers and its goroutines with the transport.                      *)
(***************************************************************************)
EXTENDS FanOut, FiniteSetTheorems, TLAPS

-----------------------------------------------------------------------------
(* Counting targets.                                                       *)

\* The semaphore has at least one slot, whatever Options.Parallelism says.
LEMMA CapPositive == Cap \in Nat /\ Cap >= 1
BY OptionsAssumption DEF Cap

\* A set of targets is finite and no larger than the inventory.
LEMMA TargetSets ==
    ASSUME NEW S \in SUBSET Targets
    PROVE  IsFiniteSet(S) /\ Cardinality(S) \in 0..NTargets
<1>1. NTargets \in Nat
  BY OptionsAssumption
<1>2. IsFiniteSet(Targets) /\ Cardinality(Targets) = NTargets
  BY <1>1, FS_Interval DEF Targets
<1>3. IsFiniteSet(S) /\ Cardinality(S) <= Cardinality(Targets)
  BY <1>2, FS_Subset
<1>4. Cardinality(S) \in Nat
  BY <1>3, FS_CardinalityType
<1> QED
  BY <1>1, <1>2, <1>3, <1>4

\* Moving one goroutine changes the population of a set of places by that one
\* goroutine at most.
LEMMA MoveCount ==
    ASSUME NEW p \in [Targets -> Places], NEW t \in Targets,
           NEW x \in Places, NEW S \in SUBSET Places
    PROVE  Cardinality({u \in Targets : [p EXCEPT ![t] = x][u] \in S}) =
             Cardinality({u \in Targets : p[u] \in S})
             + (IF x \in S THEN 1 ELSE 0) - (IF p[t] \in S THEN 1 ELSE 0)
<1> DEFINE A == {u \in Targets : p[u] \in S}
           B == {u \in Targets : [p EXCEPT ![t] = x][u] \in S}
<1>1. IsFiniteSet(A) /\ Cardinality(A) \in Nat
  BY TargetSets, A \in SUBSET Targets
<1>2. ASSUME x \in S
      PROVE  Cardinality(B) = Cardinality(A)
        + (IF x \in S THEN 1 ELSE 0) - (IF p[t] \in S THEN 1 ELSE 0)
  <2>1. B = A \cup {t}
    BY <1>2
  <2>2. t \in A <=> p[t] \in S
    OBVIOUS
  <2>3. Cardinality(B) = IF t \in A THEN Cardinality(A) ELSE Cardinality(A) + 1
    BY <1>1, <2>1, FS_AddElement
  <2> HIDE DEF A, B
  <2> QED
    BY <1>1, <1>2, <2>2, <2>3
<1>3. ASSUME x \notin S
      PROVE  Cardinality(B) = Cardinality(A)
        + (IF x \in S THEN 1 ELSE 0) - (IF p[t] \in S THEN 1 ELSE 0)
  <2>1. B = A \ {t}
    BY <1>3
  <2>2. t \in A <=> p[t] \in S
    OBVIOUS
  <2>3. Cardinality(B) = IF t \in A THEN Cardinality(A) - 1 ELSE Cardinality(A)
    BY <1>1, <2>1, FS_RemoveElement
  <2> HIDE DEF A, B
  <2> QED
    BY <1>1, <1>3, <2>2, <2>3
<1>4. Cardinality(B) = Cardinality(A)
        + (IF x \in S THEN 1 ELSE 0) - (IF p[t] \in S THEN 1 ELSE 0)
  BY <1>2, <1>3
<1> QED
  BY <1>4

-----------------------------------------------------------------------------
(* The counters agree with the goroutines they count.                      *)

\* The part of the invariant about counters and control.
Counters == TypeOK /\ Accounting /\ LoopIndex

\* Nothing is counted before the first launch.
LEMMA CountersInit == Init => Counters
<1> SUFFICES ASSUME Init PROVE Counters
  OBVIOUS
<1>1. NTargets \in Nat /\ Cap \in Nat
  BY OptionsAssumption, CapPositive
<1>2. TypeOK
  <2>1. "idle" \in Places
    BY DEF Places
  <2>2. NoSummary \in [skipped : 0..NTargets, succeeded : 0..NTargets,
                       failed : 0..NTargets]
    BY <1>1 DEF NoSummary
  <2>3. pc \in [Targets -> Places]
    BY <2>1 DEF Init
  <2>4. attempt \in [Targets -> Nat] /\ num \in [Targets -> 0..NTargets]
    BY <1>1 DEF Init
  <2>5. /\ outcome \in [Targets -> {"zero", "ok", "fail"}]
        /\ results \in [Targets -> {"zero", "ok", "fail", "skip"}]
    BY DEF Init
  <2>6. /\ dpc \in {"acquire", "check", "launch", "wait", "returned"}
        /\ next \in 1..(NTargets + 1) /\ sem \in 0..Cap /\ wg \in 0..NTargets
        /\ done \in 0..NTargets
    BY <1>1 DEF Init
  <2>7. /\ stopped \in BOOLEAN /\ interrupted \in BOOLEAN
        /\ opts \in [dryRun : BOOLEAN, timeout : BOOLEAN]
    BY DEF Init
  <2> QED
    BY <2>2, <2>3, <2>4, <2>5, <2>6, <2>7 DEF Init, TypeOK
<1>3. At(Holding) = {} /\ At(Live) = {} /\ At(Counted) = {}
  BY DEF Init, At, Live, Holding, Before, Counted
<1>4. Accounting
  BY <1>3, FS_EmptySet DEF Init, Accounting, DispatcherSlot
<1>5. LoopIndex
  BY <1>1 DEF Init, LoopIndex, Targets
<1> QED
  BY <1>2, <1>4, <1>5 DEF Counters

\* The three populations the counters stand for move with a goroutine.
LEMMA Population ==
    ASSUME TypeOK, NEW t \in Targets, NEW x \in Places,
           pc' = [pc EXCEPT ![t] = x],
           NEW S \in {Holding, Live, Counted}
    PROVE  Cardinality(At(S)') = Cardinality(At(S))
             + (IF x \in S THEN 1 ELSE 0) - (IF pc[t] \in S THEN 1 ELSE 0)
<1>1. S \in SUBSET Places
  BY DEF Places, Live, Holding, Before, Counted
<1>2. pc \in [Targets -> Places]
  BY DEF TypeOK
<1>3. Cardinality({u \in Targets : [pc EXCEPT ![t] = x][u] \in S}) =
        Cardinality({u \in Targets : pc[u] \in S})
             + (IF x \in S THEN 1 ELSE 0) - (IF pc[t] \in S THEN 1 ELSE 0)
  BY <1>1, <1>2, MoveCount
<1>4. At(S) = {u \in Targets : pc[u] \in S}
  BY DEF At
<1>5. At(S)' = {u \in Targets : [pc EXCEPT ![t] = x][u] \in S}
  BY DEF At
<1> QED
  BY <1>3, <1>4, <1>5

\* The variables a step leaves to itself, apart from the counters.
Shape ==
    /\ dpc \in {"acquire", "check", "launch", "wait", "returned"}
    /\ next \in 1..(NTargets + 1)
    /\ pc \in [Targets -> Places]
    /\ attempt \in [Targets -> Nat]
    /\ outcome \in [Targets -> {"zero", "ok", "fail"}]
    /\ results \in [Targets -> {"zero", "ok", "fail", "skip"}]
    /\ stopped \in BOOLEAN /\ interrupted \in BOOLEAN
    /\ opts \in [dryRun : BOOLEAN, timeout : BOOLEAN]
    /\ summary \in [skipped : 0..NTargets, succeeded : 0..NTargets,
                    failed : 0..NTargets]

\* A step that takes t's goroutine to x, and what that does to the counters.
MovesTo(t, x) ==
    /\ x \in Places \ {"idle"} /\ pc[t] \in Live
    /\ pc' = [pc EXCEPT ![t] = x]
    /\ sem' = sem + (IF x \in Holding THEN 1 ELSE 0)
                  - (IF pc[t] \in Holding THEN 1 ELSE 0)
    /\ wg' = wg + (IF x \in Live THEN 1 ELSE 0)
                - (IF pc[t] \in Live THEN 1 ELSE 0)
    /\ done' = done + (IF x \in Counted THEN 1 ELSE 0)
                    - (IF pc[t] \in Counted THEN 1 ELSE 0)

\* The three counters are integers.
LEMMA CounterTypes == TypeOK => sem \in Int /\ wg \in Int /\ done \in Int
BY OptionsAssumption, CapPositive DEF TypeOK

\* Every action of a goroutine moves its own place along one of these edges
\* and changes each counter by at most one.
LEMMA WorkerMoves ==
    ASSUME TypeOK, NEW t \in Targets, Worker(t)
    PROVE  \E x \in Places : MovesTo(t, x)
<1> USE CounterTypes DEF MovesTo, Places, Live, Holding, Before, Counted
<1>1. ASSUME RenderFails(t) PROVE MovesTo(t, "store")
  BY <1>1 DEF RenderFails
<1>2. ASSUME RenderOnly(t) PROVE MovesTo(t, "store")
  BY <1>2 DEF RenderOnly
<1>3. ASSUME Start(t) PROVE MovesTo(t, "exec")
  BY <1>3 DEF Start
<1>4. ASSUME ExecReturns(t) \/ ExecExpires(t)
      PROVE  MovesTo(t, "retry") \/ MovesTo(t, "store")
  <2>1. PICK o : pc[t] = "exec" /\ AfterExec(t, o)
    BY <1>4 DEF ExecReturns, ExecExpires
  <2>2. PICK x \in {"retry", "store"} : pc' = [pc EXCEPT ![t] = x]
    BY <2>1 DEF AfterExec
  <2>3. sem' = sem /\ wg' = wg /\ done' = done
    BY <2>1 DEF AfterExec
  <2>4. ASSUME x = "retry" PROVE MovesTo(t, "retry")
    BY <2>1, <2>2, <2>3, <2>4
  <2>5. ASSUME x = "store" PROVE MovesTo(t, "store")
    BY <2>1, <2>2, <2>3, <2>5
  <2> QED
    BY <2>2, <2>4, <2>5
<1>5. ASSUME Retry(t) PROVE MovesTo(t, "exec")
  BY <1>5 DEF Retry
<1>6. ASSUME Store(t) PROVE MovesTo(t, "stop")
  BY <1>6 DEF Store
<1>7. ASSUME Stop(t) PROVE MovesTo(t, "count")
  BY <1>7 DEF Stop
<1>8. ASSUME CountDone(t) PROVE MovesTo(t, "report")
  BY <1>8 DEF CountDone
<1>9. ASSUME Report(t) PROVE MovesTo(t, "release")
  BY <1>9 DEF Report
<1>10. ASSUME Release(t) PROVE MovesTo(t, "done")
  BY <1>10 DEF Release
<1>11. ASSUME WgDone(t) PROVE MovesTo(t, "gone")
  BY <1>11 DEF WgDone
<1>12. {"store", "exec", "retry", "stop", "count", "report", "release",
        "done", "gone"} \subseteq Places
  OBVIOUS
<1> HIDE DEF MovesTo, Places, Live, Holding, Before, Counted
<1> QED
  BY <1>1, <1>2, <1>3, <1>4, <1>5, <1>6, <1>7, <1>8, <1>9, <1>10, <1>11, <1>12
     DEF Worker

\* A worker step keeps the types and touches no slice slot but its own.
LEMMA WorkerShape ==
    ASSUME TypeOK, NEW t \in Targets, Worker(t)
    PROVE  /\ Shape'
           /\ dpc' = dpc /\ next' = next
           /\ \A u \in Targets \ {t} : results'[u] = results[u]
<1>1. /\ dpc' = dpc /\ next' = next /\ interrupted' = interrupted
      /\ opts' = opts /\ summary' = summary
  BY DEF Worker, RenderFails, RenderOnly, Start, ExecReturns, ExecExpires,
     AfterExec, Retry, Store, Stop, CountDone, Report, Release, WgDone, otherVars
<1>2. PICK x \in Places : pc' = [pc EXCEPT ![t] = x]
  BY WorkerMoves DEF MovesTo
<1>3. pc' \in [Targets -> Places]
  BY <1>2 DEF TypeOK
<1>4. \/ attempt' = attempt
      \/ attempt' = [attempt EXCEPT ![t] = 1]
      \/ attempt' = [attempt EXCEPT ![t] = attempt[t] + 1]
  BY DEF Worker, RenderFails, RenderOnly, Start, ExecReturns, ExecExpires,
     AfterExec, Retry, Store, Stop, CountDone, Report, Release, WgDone, otherVars
<1>5. attempt' \in [Targets -> Nat]
  BY <1>4 DEF TypeOK
<1>6. \/ outcome' = outcome
      \/ \E o \in {"ok", "fail"} : outcome' = [outcome EXCEPT ![t] = o]
  BY DEF Worker, RenderFails, RenderOnly, Start, ExecReturns, ExecExpires,
     AfterExec, Retry, Store, Stop, CountDone, Report, Release, WgDone, otherVars
<1>7. outcome' \in [Targets -> {"zero", "ok", "fail"}]
  BY <1>6 DEF TypeOK
<1>8. results' = results \/ results' = [results EXCEPT ![t] = outcome[t]]
  BY DEF Worker, RenderFails, RenderOnly, Start, ExecReturns, ExecExpires,
     AfterExec, Retry, Store, Stop, CountDone, Report, Release, WgDone, otherVars
<1>9. results' \in [Targets -> {"zero", "ok", "fail", "skip"}]
  BY <1>8 DEF TypeOK
<1>10. stopped' \in BOOLEAN
  <2>1. CASE Stop(t)
    BY <2>1 DEF Stop, TypeOK
  <2>2. CASE ~Stop(t)
    BY <2>2 DEF Worker, RenderFails, RenderOnly, Start, ExecReturns,
       ExecExpires, AfterExec, Retry, Store, CountDone, Report, Release,
       WgDone, TypeOK
  <2> QED
    BY <2>1, <2>2
<1>11. \A u \in Targets \ {t} : results'[u] = results[u]
  BY <1>8 DEF TypeOK
<1>12. Shape'
  BY <1>1, <1>3, <1>5, <1>7, <1>9, <1>10 DEF Shape, TypeOK
<1> QED
  BY <1>1, <1>11, <1>12

\* After a step, Shape and the accounting give back the whole type invariant,
\* bounds included.
LEMMA TypeFromParts ==
    ASSUME Shape', Accounting', sem' <= Cap, num' \in [Targets -> 0..NTargets]
    PROVE  TypeOK'
<1>1. \A S : At(S)' \in SUBSET Targets
  BY DEF At
<1>2. /\ Cardinality(At(Holding)') \in 0..NTargets
      /\ Cardinality(At(Live)') \in 0..NTargets
      /\ Cardinality(At(Counted)') \in 0..NTargets
  BY <1>1, TargetSets
<1>3. sem' \in 0..Cap /\ wg' \in 0..NTargets /\ done' \in 0..NTargets
  BY <1>2, CapPositive, OptionsAssumption DEF Accounting, DispatcherSlot
<1> QED
  BY <1>3 DEF Shape, TypeOK

\* A goroutine's step keeps the counters equal to what they count.
LEMMA WorkerCounters ==
    ASSUME Counters, NEW t \in Targets, Worker(t)
    PROVE  Counters'
<1> USE DEF Counters
<1>1. PICK x \in Places : MovesTo(t, x)
  BY WorkerMoves
<1>2. Shape' /\ dpc' = dpc /\ next' = next
  BY WorkerShape
<1>3. \A S \in {Holding, Live, Counted} :
        Cardinality(At(S)') = Cardinality(At(S))
             + (IF x \in S THEN 1 ELSE 0) - (IF pc[t] \in S THEN 1 ELSE 0)
  BY <1>1, Population DEF MovesTo
<1>4. \A S : IsFiniteSet(At(S)) /\ Cardinality(At(S)) \in Nat
  BY TargetSets, OptionsAssumption, \A S : At(S) \in SUBSET Targets DEF At
<1>5. Accounting'
  <2>1. DispatcherSlot' = DispatcherSlot /\ DispatcherSlot \in {0, 1}
    BY <1>2 DEF DispatcherSlot
  <2> QED
    BY <1>1, <1>3, <1>4, <2>1 DEF Accounting, MovesTo
<1>6. sem' <= Cap
  <2>1. CASE x \in Holding => pc[t] \in Holding
    BY <1>1, <2>1, CounterTypes, CapPositive DEF MovesTo, TypeOK
  <2>2. CASE x \in Holding /\ pc[t] \notin Holding
    <3>1. pc[t] = "done"
      BY <1>1, <2>2 DEF MovesTo, Live
    <3>2. WgDone(t)
      BY <3>1 DEF Worker, RenderFails, RenderOnly, Start, ExecReturns,
         ExecExpires, AfterExec, Retry, Store, Stop, CountDone, Report, Release
    <3> QED
      BY <3>2, CounterTypes, CapPositive DEF WgDone, TypeOK
  <2> QED
    BY <2>1, <2>2
<1>7. num' \in [Targets -> 0..NTargets]
  <2>1. CASE CountDone(t)
    <3>1. done' \in 0..NTargets
      BY <1>5, TargetSets, At(Counted)' \in SUBSET Targets DEF Accounting, At
    <3>2. num' = [num EXCEPT ![t] = done']
      BY <2>1 DEF CountDone
    <3> QED
      BY <3>1, <3>2 DEF TypeOK
  <2>2. CASE ~CountDone(t)
    BY <2>2 DEF Worker, RenderFails, RenderOnly, Start, ExecReturns,
       ExecExpires, AfterExec, Retry, Store, Stop, Report, Release, WgDone, TypeOK
  <2> QED
    BY <2>1, <2>2
<1>8. TypeOK'
  <2>1. Shape' /\ Accounting' /\ sem' <= Cap /\ num' \in [Targets -> 0..NTargets]
    BY <1>2, <1>5, <1>6, <1>7
  <2> QED
    BY <2>1, TypeFromParts
<1>9. LoopIndex'
  <2>1. t < next
    BY <1>1, OptionsAssumption DEF LoopIndex, MovesTo, TypeOK, Targets,
       Live, Holding, Before
  <2>2. \A u \in Targets : u >= next' => u # t
    BY <1>2, <2>1, OptionsAssumption DEF TypeOK, Targets
  <2>3. \A u \in Targets \ {t} : pc'[u] = pc[u] /\ results'[u] = results[u]
    BY <1>1, WorkerShape DEF MovesTo, TypeOK
  <2> QED
    BY <1>2, <2>2, <2>3 DEF LoopIndex
<1> QED
  BY <1>5, <1>8, <1>9

\* A dispatcher step other than Launch leaves the goroutines alone.
LEMMA QuietAccounting ==
    ASSUME Counters, UNCHANGED workerVars, wg' = wg,
           sem' - DispatcherSlot' = sem - DispatcherSlot, sem' \in Int
    PROVE  Accounting'
<1>1. \A S : At(S)' = At(S)
  BY DEF At, workerVars
<1>2. \A S : Cardinality(At(S)) \in Nat
  BY TargetSets, OptionsAssumption, \A S : At(S) \in SUBSET Targets DEF At
<1>3. DispatcherSlot \in Int /\ DispatcherSlot' \in Int
  BY DEF DispatcherSlot
<1> QED
  BY <1>1, <1>2, <1>3 DEF Counters, Accounting, workerVars

\* A dispatcher's step keeps the counters equal to what they count.
LEMMA DispatcherCounters ==
    ASSUME Counters, Dispatcher
    PROVE  Counters'
<1> USE OptionsAssumption, CapPositive
<1> USE DEF Counters
<1>1. sem \in Int /\ wg \in Int /\ done \in Int /\ next \in Int
  BY CounterTypes DEF TypeOK
<1>2. ASSUME Acquire PROVE Counters'
  <2>1. Shape' /\ sem' <= Cap /\ num' \in [Targets -> 0..NTargets]
    BY <1>1, <1>2 DEF Acquire, workerVars, Shape, TypeOK
  <2>2. Accounting'
    BY <1>1, <1>2, QuietAccounting DEF Acquire, DispatcherSlot
  <2>3. LoopIndex'
    BY <1>2 DEF Acquire, workerVars, LoopIndex
  <2> QED
    BY <2>1, <2>2, <2>3, TypeFromParts
<1>3. ASSUME Skip PROVE Counters'
  <2>1. next \in Targets
    BY <1>3 DEF Skip, LoopIndex, TypeOK, Targets
  <2>2. Shape' /\ sem' <= Cap /\ num' \in [Targets -> 0..NTargets]
    BY <1>1, <1>3, <2>1 DEF Skip, workerVars, Shape, TypeOK, Targets
  <2>3. Accounting'
    BY <1>1, <1>3, QuietAccounting DEF Skip, DispatcherSlot
  <2>4. LoopIndex'
    BY <1>3, <2>1 DEF Skip, workerVars, LoopIndex, TypeOK, Targets
  <2> QED
    BY <2>2, <2>3, <2>4, TypeFromParts
<1>4. ASSUME Proceed PROVE Counters'
  <2>1. Shape' /\ sem' <= Cap /\ num' \in [Targets -> 0..NTargets]
    BY <1>1, <1>4 DEF Proceed, workerVars, Shape, TypeOK
  <2>2. Accounting'
    BY <1>1, <1>4, QuietAccounting DEF Proceed, DispatcherSlot
  <2>3. LoopIndex'
    BY <1>4 DEF Proceed, workerVars, LoopIndex
  <2> QED
    BY <2>1, <2>2, <2>3, TypeFromParts
<1>5. ASSUME Launch PROVE Counters'
  <2>1. next \in Targets /\ pc[next] = "idle"
    BY <1>5 DEF Launch, LoopIndex, TypeOK, Targets
  <2>2. "render" \in Places /\ "render" \in Holding /\ "render" \in Live
        /\ "render" \notin Counted
        /\ "idle" \notin Holding /\ "idle" \notin Live /\ "idle" \notin Counted
    BY DEF Places, Live, Holding, Before, Counted
  <2>3. \A S : Cardinality(At(S)) \in Nat
    BY TargetSets, \A S : At(S) \in SUBSET Targets DEF At
  <2>4. pc' = [pc EXCEPT ![next] = "render"]
    BY <1>5 DEF Launch
  <2>5. /\ Cardinality(At(Holding)') = Cardinality(At(Holding)) + 1
        /\ Cardinality(At(Live)') = Cardinality(At(Live)) + 1
        /\ Cardinality(At(Counted)') = Cardinality(At(Counted))
    <3> USE <2>1, <2>2, <2>3, <2>4, Population DEF Counters
    <3>1. Cardinality(At(Holding)') = Cardinality(At(Holding)) + 1 - 0
      OBVIOUS
    <3>2. Cardinality(At(Live)') = Cardinality(At(Live)) + 1 - 0
      OBVIOUS
    <3>3. Cardinality(At(Counted)') = Cardinality(At(Counted)) + 0 - 0
      OBVIOUS
    <3> QED
      BY <3>1, <3>2, <3>3
  <2>6. DispatcherSlot = 1 /\ DispatcherSlot' = 0
    BY <1>5 DEF Launch, DispatcherSlot
  <2>7. sem' = sem /\ wg' = wg + 1 /\ done' = done
    BY <1>5 DEF Launch
  <2>8. Accounting'
    BY <2>3, <2>5, <2>6, <2>7 DEF Accounting
  <2>9. Shape' /\ sem' <= Cap /\ num' \in [Targets -> 0..NTargets]
    BY <1>1, <1>5, <2>1, <2>2 DEF Launch, Shape, TypeOK, Targets
  <2>10. LoopIndex'
    BY <1>5, <2>1 DEF Launch, LoopIndex, TypeOK, Targets
  <2> QED
    BY <2>8, <2>9, <2>10, TypeFromParts
<1>6. ASSUME Drain PROVE Counters'
  <2>1. Shape' /\ sem' <= Cap /\ num' \in [Targets -> 0..NTargets]
    BY <1>1, <1>6 DEF Drain, workerVars, Shape, TypeOK
  <2>2. Accounting'
    BY <1>1, <1>6, QuietAccounting DEF Drain, DispatcherSlot
  <2>3. LoopIndex'
    BY <1>6 DEF Drain, workerVars, LoopIndex, TypeOK
  <2> QED
    BY <2>1, <2>2, <2>3, TypeFromParts
<1>7. ASSUME Return PROVE Counters'
  <2>1. Summarize \in [skipped : 0..NTargets, succeeded : 0..NTargets,
                       failed : 0..NTargets]
    <3>1. /\ {t \in Targets : results[t] = "skip"} \in SUBSET Targets
          /\ {t \in Targets : OK(results[t])} \in SUBSET Targets
          /\ {t \in Targets : results[t] # "skip" /\ ~OK(results[t])}
                \in SUBSET Targets
      OBVIOUS
    <3> QED
      BY <3>1, TargetSets DEF Summarize
  <2>2. Shape' /\ sem' <= Cap /\ num' \in [Targets -> 0..NTargets]
    BY <1>1, <1>7, <2>1 DEF Return, workerVars, Shape, TypeOK
  <2>3. Accounting'
    BY <1>1, <1>7, QuietAccounting DEF Return, DispatcherSlot
  <2>4. LoopIndex'
    BY <1>7 DEF Return, workerVars, LoopIndex
  <2> QED
    BY <2>2, <2>3, <2>4, TypeFromParts
<1> QED
  BY <1>2, <1>3, <1>4, <1>5, <1>6, <1>7 DEF Dispatcher

\* An interrupt does not touch the counters.
LEMMA InterruptCounters ==
    ASSUME Counters, Interrupt
    PROVE  Counters'
<1>1. Shape' /\ sem' <= Cap /\ num' \in [Targets -> 0..NTargets]
  BY CounterTypes, CapPositive DEF Counters, Interrupt, workerVars, Shape, TypeOK
<1>2. Accounting'
  BY CounterTypes, QuietAccounting DEF Counters, Interrupt, DispatcherSlot
<1>3. LoopIndex'
  BY DEF Counters, Interrupt, workerVars, LoopIndex
<1> QED
  BY <1>1, <1>2, <1>3, TypeFromParts DEF Counters

\* Nor does a stuttering step.
LEMMA StutterCounters ==
    ASSUME Counters, UNCHANGED vars
    PROVE  Counters'
BY DEF Counters, vars, TypeOK, Accounting, LoopIndex, DispatcherSlot, At

\* The semaphore, the WaitGroup and the progress counter count the goroutines
\* that hold a slot, are alive and have reported (engine.go:86-124).
THEOREM CountersInvariant == Spec => []Counters
<1>1. Counters /\ [Next]_vars => Counters'
  BY WorkerCounters, DispatcherCounters, InterruptCounters, StutterCounters
     DEF Next, Terminated
<1> QED
  BY <1>1, CountersInit, PTL DEF Spec

\* Every variable of the engine keeps its type: in particular the semaphore,
\* the WaitGroup and the progress counter never leave their ranges.
THEOREM TypeCorrect == Spec => []TypeOK
<1>1. Counters => TypeOK
  BY DEF Counters
<1> QED
  BY <1>1, CountersInvariant, PTL

\* However many targets and however they interleave, no more than Cap hold a
\* slot of the pool.
THEOREM PoolIsCapped == Spec => []PoolCap
<1>1. Counters => PoolCap
  <2> SUFFICES ASSUME Counters PROVE PoolCap
    OBVIOUS
  <2>1. Holders = At(Holding)
    BY DEF Holders, At
  <2>2. At(Holding) \in SUBSET Targets
    BY DEF At
  <2>3. Cardinality(At(Holding)) \in Nat
    BY <2>2, TargetSets, OptionsAssumption
  <2> QED
    BY <2>1, <2>3, CapPositive
       DEF Counters, Accounting, DispatcherSlot, TypeOK, PoolCap
<1> QED
  BY <1>1, CountersInvariant, PTL

-----------------------------------------------------------------------------
(* The slice of results.                                                   *)

\* No slot of the results slice is written at the start.
LEMMA SliceInit == Init => Slice
BY OptionsAssumption DEF Init, Slice, Targets, Before, Places, Live, Holding

\* A worker step keeps the slice: only the acting goroutine's place, outcome
\* and slot change.
LEMMA WorkerSlice ==
    ASSUME Counters, Slice, NEW t \in Targets, Worker(t)
    PROVE  Slice'
<1> USE DEF Counters
<1>1. dpc' = dpc /\ next' = next
  BY WorkerShape
<1>2. pc[t] \in Live /\ pc'[t] \in Places \ {"idle"}
  BY WorkerMoves DEF MovesTo, TypeOK
<1>3. \A u \in Targets \ {t} :
        pc'[u] = pc[u] /\ outcome'[u] = outcome[u] /\ results'[u] = results[u]
  <2>1. \A u \in Targets \ {t} : pc'[u] = pc[u]
    BY WorkerMoves DEF MovesTo, TypeOK
  <2>2. \A u \in Targets \ {t} : outcome'[u] = outcome[u]
    BY DEF Worker, RenderFails, RenderOnly, Start, ExecReturns, ExecExpires,
       AfterExec, Retry, Store, Stop, CountDone, Report, Release, WgDone, TypeOK
  <2> QED
    BY <2>1, <2>2, WorkerShape
<1>4. /\ pc'[t] \in Before => results'[t] = "zero"
      /\ pc'[t] \in Before \ {"store"} => outcome'[t] \in {"zero", "fail"}
      /\ pc'[t] \in Places \ (Before \cup {"idle"}) =>
              results'[t] = outcome'[t] /\ outcome'[t] # "zero"
      /\ pc'[t] = "store" => outcome'[t] # "zero"
  <2> USE DEF Slice, TypeOK, Before, Places, Live, Holding
  <2>1. CASE RenderFails(t) \/ RenderOnly(t) \/ Start(t)
    BY <2>1 DEF RenderFails, RenderOnly, Start
  <2>2. CASE ExecReturns(t) \/ ExecExpires(t)
    <3>1. PICK o \in {"ok", "fail"} : pc[t] = "exec" /\ AfterExec(t, o)
      BY <2>2 DEF ExecReturns, ExecExpires
    <3> QED
      BY <3>1 DEF AfterExec
  <2>3. CASE Retry(t)
    BY <2>3 DEF Retry
  <2>4. CASE Store(t)
    BY <2>4 DEF Store
  <2>5. CASE Stop(t)
    BY <2>5 DEF Stop
  <2>6. CASE CountDone(t) \/ Report(t)
    BY <2>6 DEF CountDone, Report
  <2>7. CASE Release(t) \/ WgDone(t)
    BY <2>7 DEF Release, WgDone
  <2> QED
    BY <2>1, <2>2, <2>3, <2>4, <2>5, <2>6, <2>7 DEF Worker
<1>5. dpc # "returned"
  BY <1>2 DEF Slice, Live, Holding, Before
<1> QED
  BY <1>1, <1>2, <1>3, <1>4, <1>5 DEF Slice

\* The dispatcher writes only the slot of a target it skips.
LEMMA DispatcherSlice ==
    ASSUME Counters, Slice, Dispatcher \/ Interrupt \/ UNCHANGED vars
    PROVE  Slice'
<1> USE OptionsAssumption
<1> USE DEF Counters
<1>1. CASE Acquire \/ Proceed \/ Drain \/ Interrupt \/ UNCHANGED vars
  BY <1>1 DEF Acquire, Proceed, Drain, Interrupt, vars, workerVars, Slice
<1>2. CASE Skip
  <2>1. next \in Targets /\ pc[next] = "idle" /\ outcome[next] = "zero"
    BY <1>2 DEF Skip, LoopIndex, TypeOK, Targets, Slice
  <2>2. \A u \in Targets : u < next' => u < next \/ u = next
    BY <1>2 DEF Skip, TypeOK, Targets
  <2> QED
    BY <1>2, <2>1, <2>2 DEF Skip, workerVars, Slice, TypeOK, Before, Places,
       Live, Holding
<1>3. CASE Launch
  <2>1. next \in Targets /\ pc[next] = "idle" /\ outcome[next] = "zero"
        /\ results[next] = "zero"
    BY <1>3 DEF Launch, LoopIndex, TypeOK, Targets, Slice
  <2>2. \A u \in Targets : u < next' => u < next \/ u = next
    BY <1>3 DEF Launch, TypeOK, Targets
  <2> QED
    BY <1>3, <2>1, <2>2 DEF Launch, workerVars, Slice, TypeOK, Before, Places,
       Live, Holding
<1>4. CASE Return
  <2>1. At(Live) = {}
    <3>1. IsFiniteSet(At(Live)) /\ Cardinality(At(Live)) = 0
      BY <1>4, TargetSets, At(Live) \in SUBSET Targets DEF Return, Accounting, At
    <3> QED
      BY <3>1, FS_EmptySet
  <2>2. \A t \in Targets : pc[t] \in {"idle", "gone"}
    BY <2>1 DEF At, TypeOK, Places
  <2> QED
    BY <1>4, <2>2 DEF Return, workerVars, Slice
<1> QED
  BY <1>1, <1>2, <1>3, <1>4 DEF Dispatcher

\* A slot of the results slice is written once, by the target's goroutine or
\* by the skip (engine.go:99, 108).
THEOREM SliceInvariant == Spec => [](Counters /\ Slice)
<1>1. Counters /\ Slice /\ [Next]_vars => Slice'
  BY WorkerSlice, DispatcherSlice DEF Next, Terminated
<1> QED
  BY <1>1, SliceInit, CountersInvariant, PTL DEF Spec

\* Run never returns while a goroutine of it is alive, nor with a slot of the
\* slice that neither its goroutine nor the dispatcher has written.
THEOREM RunReturnsComplete == Spec => []ReturnIsComplete
<1>1. Counters /\ Slice => ReturnIsComplete
  <2> SUFFICES ASSUME Counters, Slice, dpc = "returned", NEW t \in Targets
               PROVE  \/ pc[t] = "gone" /\ results[t] = outcome[t]
                      \/ pc[t] = "idle" /\ results[t] = "skip"
    BY DEF ReturnIsComplete
  <2>1. t < next
    BY OptionsAssumption DEF Counters, LoopIndex, Targets
  <2> QED
    BY <2>1 DEF Slice, Places, Live, Holding, Before
<1> QED
  BY <1>1, SliceInvariant, PTL

-----------------------------------------------------------------------------
(* Cancellation and its effect.                                            *)

\* At the start nothing is skipped and nothing is cancelled.
LEMMA CancellationInit == Init => Cancellation
BY DEF Init, Cancellation, Failed

\* A goroutine cancels the run only for a failure of its own.
LEMMA WorkerCancellation ==
    ASSUME Counters, Slice, Cancellation, NEW t \in Targets, Worker(t)
    PROVE  Cancellation'
<1> USE DEF Counters
<1>1. /\ dpc' = dpc /\ next' = next /\ interrupted' = interrupted
      /\ \A u \in Targets \ {t} : results'[u] = results[u]
  <2>1. interrupted' = interrupted
    BY DEF Worker, RenderFails, RenderOnly, Start, ExecReturns, ExecExpires,
       AfterExec, Retry, Store, Stop, CountDone, Report, Release, WgDone, otherVars
  <2> QED
    BY <2>1, WorkerShape
<1>2. /\ pc[t] \in Live /\ pc[t] # "idle"
      /\ \A u \in Targets : pc[u] = "idle" => pc'[u] = "idle"
  BY WorkerMoves DEF MovesTo, TypeOK, Live, Holding, Before
<1>3. results'[t] # "skip" /\ (results[t] = "fail" => results'[t] = "fail")
  <2>1. results[t] # "skip"
    BY <1>2 DEF Cancellation, TypeOK, Targets
  <2>2. CASE Store(t)
    BY <2>2 DEF Store, Slice, TypeOK, Before
  <2>3. CASE ~Store(t)
    BY <2>1, <2>3 DEF Worker, RenderFails, RenderOnly, Start, ExecReturns,
       ExecExpires, AfterExec, Retry, Stop, CountDone, Report, Release, WgDone
  <2> QED
    BY <2>2, <2>3
<1>4. \A u \in Failed : u \in Failed'
  BY <1>1, <1>3 DEF Failed
<1>5. /\ stopped => stopped'
      /\ stopped' => stopped \/ (StopOnError /\ t \in Failed')
  <2>1. CASE Stop(t)
    <3>1. results[t] = outcome[t] /\ outcome[t] \in {"ok", "fail"}
      BY <2>1 DEF Stop, Slice, TypeOK, Places, Live, Holding, Before
    <3> QED
      BY <2>1, <3>1 DEF Stop, OK, Failed
  <2>2. CASE ~Stop(t)
    BY <2>2 DEF Worker, RenderFails, RenderOnly, Start, ExecReturns,
       ExecExpires, AfterExec, Retry, Store, CountDone, Report, Release, WgDone
  <2> QED
    BY <2>1, <2>2
<1>6. stopped' /\ dpc' # "returned" => StopOnError /\ Failed' # {}
  BY <1>1, <1>4, <1>5 DEF Cancellation
<1>7. ASSUME NEW u \in Targets, results'[u] = "skip"
      PROVE  /\ Cancelled' /\ u < next' /\ dpc' # "launch"
             /\ \A v \in Targets : u <= v => pc'[v] = "idle"
  <2>1. results[u] = "skip"
    BY <1>1, <1>3, <1>7
  <2> QED
    BY <1>1, <1>2, <1>5, <2>1 DEF Cancellation, Cancelled
<1> QED
  BY <1>6, <1>7 DEF Cancellation

\* Once the dispatcher has skipped a target it launches none.
LEMMA DispatcherCancellation ==
    ASSUME Counters, Slice, Cancellation, Dispatcher \/ Interrupt \/ UNCHANGED vars
    PROVE  Cancellation'
<1> USE OptionsAssumption
<1> USE DEF Counters
<1>1. CASE Acquire \/ Drain \/ UNCHANGED vars
  BY <1>1 DEF Acquire, Drain, vars, workerVars, Cancellation, Cancelled, Failed
<1>2. CASE Interrupt
  BY <1>2 DEF Interrupt, workerVars, Cancellation, Cancelled, Failed
<1>3. CASE Proceed
  BY <1>3 DEF Proceed, workerVars, Cancellation, Cancelled, Failed
<1>4. CASE Launch
  BY <1>4 DEF Launch, Cancellation, Cancelled, Failed
<1>5. CASE Return
  BY <1>5 DEF Return, workerVars, Cancellation, Cancelled, Failed
<1>6. CASE Skip
  <2>1. next \in Targets /\ results[next] = "zero" /\ next' = next + 1
        /\ \A v \in Targets : next <= v => pc[v] = "idle"
    BY <1>6 DEF Skip, LoopIndex, TypeOK, Targets
  <2>2. Failed' = Failed
    BY <1>6, <2>1 DEF Skip, Failed, TypeOK
  <2>3. \A u \in Targets : results'[u] = "skip" => results[u] = "skip" \/ u = next
    BY <1>6 DEF Skip, TypeOK
  <2>4. dpc' = "acquire" /\ Cancelled /\ Cancelled' /\ stopped' = stopped
        /\ pc' = pc /\ dpc = "check"
    BY <1>6 DEF Skip, Cancelled, workerVars
  <2>5. stopped' /\ dpc' # "returned" => StopOnError /\ Failed' # {}
    BY <2>2, <2>4 DEF Cancellation
  <2>6. ASSUME NEW u \in Targets, results'[u] = "skip"
        PROVE  /\ Cancelled' /\ u < next' /\ dpc' # "launch"
               /\ \A v \in Targets : u <= v => pc'[v] = "idle"
    <3>1. u <= next /\ u < next'
      BY <2>1, <2>3, <2>6 DEF Cancellation, TypeOK, Targets
    <3>2. \A v \in Targets : u <= v => pc[v] = "idle"
      BY <2>1, <2>3, <2>6 DEF Cancellation
    <3> QED
      BY <2>4, <3>1, <3>2
  <2> QED
    BY <2>5, <2>6 DEF Cancellation
<1> QED
  BY <1>1, <1>2, <1>3, <1>4, <1>5, <1>6 DEF Dispatcher

\* Cancellation is for good, has a cause, and stops the launches (engine.go:95-112).
THEOREM CancellationInvariant == Spec => [](Counters /\ Slice /\ Cancellation)
<1>1. Counters /\ Slice /\ Cancellation /\ [Next]_vars => Cancellation'
  BY WorkerCancellation, DispatcherCancellation DEF Next, Terminated
<1> QED
  BY <1>1, CancellationInit, SliceInvariant, PTL DEF Spec

\* What is skipped is a suffix of the inventory.
THEOREM SkipsAreASuffix == Spec => []SkippedSuffix
<1>1. Cancellation => SkippedSuffix
  BY DEF Cancellation, SkippedSuffix
<1> QED
  BY <1>1, CancellationInvariant, PTL

\* Failures accumulate, an interrupt is for good, and a worker skips nothing.
LEMMA WorkerCause ==
    ASSUME Counters, Slice, Cancellation, SkipHasCause,
           NEW t \in Targets, Worker(t)
    PROVE  SkipHasCause'
<1> USE DEF Counters
<1>1. \A u \in Targets \ {t} : results'[u] = results[u]
  BY WorkerShape
<1>2. interrupted' = interrupted
  BY DEF Worker, RenderFails, RenderOnly, Start, ExecReturns, ExecExpires,
     AfterExec, Retry, Store, Stop, CountDone, Report, Release, WgDone, otherVars
<1>3. results'[t] = "skip" => results[t] = "skip"
  BY DEF Worker, RenderFails, RenderOnly, Start, ExecReturns, ExecExpires,
     AfterExec, Retry, Store, Stop, CountDone, Report, Release, WgDone, TypeOK
<1>4. results[t] = "fail" => results'[t] = "fail"
  BY DEF Worker, RenderFails, RenderOnly, Start, ExecReturns, ExecExpires,
     AfterExec, Retry, Store, Stop, CountDone, Report, Release, WgDone, TypeOK,
     Slice, Before
<1>5. Failed # {} => Failed' # {}
  BY <1>1, <1>4 DEF Failed
<1> QED
  BY <1>1, <1>2, <1>3, <1>5 DEF SkipHasCause

\* A skip happens under a cancellation, and that has its cause.
LEMMA DispatcherCause ==
    ASSUME Counters, Cancellation, SkipHasCause,
           Dispatcher \/ Interrupt \/ UNCHANGED vars
    PROVE  SkipHasCause'
<1> USE DEF Counters
<1>1. CASE Skip
  <2>1. next \in Targets /\ results[next] = "zero"
    BY <1>1, OptionsAssumption DEF Skip, LoopIndex, TypeOK, Targets
  <2>2. Failed' = Failed /\ interrupted' = interrupted
    BY <1>1, <2>1 DEF Skip, Failed, TypeOK
  <2>3. interrupted \/ (StopOnError /\ Failed # {})
    BY <1>1 DEF Skip, Cancelled, Cancellation
  <2> QED
    BY <2>2, <2>3 DEF SkipHasCause
<1>2. CASE ~Skip
  <2>1. results' = results /\ (interrupted => interrupted')
    BY <1>2 DEF Dispatcher, Acquire, Proceed, Launch, Drain, Return, Interrupt, vars
  <2> QED
    BY <2>1 DEF SkipHasCause, Failed
<1> QED
  BY <1>1, <1>2

\* A target is skipped only after an interrupt or, with StopOnError, a failure.
THEOREM SkipsHaveACause == Spec => []SkipHasCause
<1>1. Init => SkipHasCause
  BY DEF Init, SkipHasCause
<1>2. Counters /\ Slice /\ Cancellation /\ SkipHasCause /\ [Next]_vars
        => SkipHasCause'
  BY WorkerCause, DispatcherCause DEF Next, Terminated
<1> QED
  BY <1>1, <1>2, CancellationInvariant, PTL DEF Spec

-----------------------------------------------------------------------------
(* How far failures spread under StopOnError.                              *)

\* At the start there is no failure.
LEMMA ReachInit == Init => FailureReach
<1> SUFFICES ASSUME Init PROVE FailureReach
  OBVIOUS
<1>1. Failed = {} /\ Holders = {} /\ Committed = {}
  BY DEF Init, Failed, Holders, Committed, Holding, Before
<1> QED
  BY <1>1, FS_EmptySet, CapPositive DEF FailureReach, Reach

\* A step that adds no target to the reach keeps its bound.
LEMMA ReachShrinks ==
    ASSUME FailureReach /\ StopOnError, Reach' \subseteq Reach
    PROVE  Cardinality(Reach') <= Cap
<1>1. Reach \in SUBSET Targets
  BY DEF Reach, Failed, Holders, Committed
<1>2. IsFiniteSet(Reach) /\ Cardinality(Reach) \in Nat /\ Cardinality(Reach) <= Cap
  BY <1>1, TargetSets, OptionsAssumption DEF FailureReach
<1>3. Cardinality(Reach') <= Cardinality(Reach)
  BY <1>2, FS_Subset
<1>4. Cardinality(Reach') \in Nat
  BY <1>2, FS_Subset, FS_CardinalityType
<1> QED
  BY <1>2, <1>3, <1>4, CapPositive

\* A failure is among the goroutines that held a slot when it happened.
LEMMA WorkerReach ==
    ASSUME Counters, Slice, FailureReach, NEW t \in Targets, Worker(t)
    PROVE  FailureReach'
<1> SUFFICES ASSUME FailureReach /\ StopOnError
             PROVE  /\ ~stopped' => \A u \in Failed' : pc'[u] = "stop"
                    /\ Cardinality(Reach') <= Cap
  BY DEF FailureReach
<1> USE DEF Counters
<1>1. /\ dpc' = dpc /\ next' = next
      /\ \A u \in Targets \ {t} : pc'[u] = pc[u] /\ results'[u] = results[u]
  BY WorkerShape, WorkerMoves DEF MovesTo, TypeOK
<1>2. pc'[t] \in Holding => pc[t] \in Holding
  BY DEF Worker, RenderFails, RenderOnly, Start, ExecReturns, ExecExpires,
     AfterExec, Retry, Store, Stop, CountDone, Report, Release, WgDone, TypeOK,
     Holding, Before
<1>3. results'[t] = "fail" => results[t] = "fail" \/ pc[t] \in Holding
  BY DEF Worker, RenderFails, RenderOnly, Start, ExecReturns, ExecExpires,
     AfterExec, Retry, Store, Stop, CountDone, Report, Release, WgDone, TypeOK,
     Holding, Before
<1>4. Reach' \subseteq Reach
  BY <1>1, <1>2, <1>3 DEF Reach, Failed, Holders, Committed
<1>5. ASSUME ~stopped', NEW u \in Targets, u \in Failed' PROVE pc'[u] = "stop"
  <2>1. ~stopped
    BY <1>5 DEF Worker, RenderFails, RenderOnly, Start, ExecReturns,
       ExecExpires, AfterExec, Retry, Store, Stop, CountDone, Report, Release, WgDone
  <2>2. CASE u # t
    BY <1>1, <2>1, <2>2, <1>5 DEF FailureReach, Failed
  <2>3. CASE u = t /\ Store(t)
    BY <2>3 DEF Store, TypeOK
  <2>4. CASE u = t /\ ~Store(t)
    <3>1. results[t] = "fail"
      BY <1>5, <2>4 DEF Failed, Worker, RenderFails, RenderOnly, Start,
         ExecReturns, ExecExpires, AfterExec, Retry, Stop, CountDone, Report,
         Release, WgDone
    <3>2. pc[t] = "stop" /\ outcome[t] = "fail"
      BY <2>1, <3>1 DEF FailureReach, Failed, Slice, Places, Live, Holding, Before
    <3>3. Stop(t)
      BY <3>2 DEF Worker, RenderFails, RenderOnly, Start, ExecReturns,
         ExecExpires, AfterExec, Retry, Store, CountDone, Report, Release, WgDone
    <3>4. stopped'
      BY <3>2, <3>3 DEF Stop, OK
    <3> QED
      BY <1>5, <3>4
  <2> QED
    BY <2>2, <2>3, <2>4
<1> QED
  BY <1>4, <1>5, ReachShrinks DEF Failed

\* A launch takes a slot that is free, and none follows a cancellation but
\* that of the target already committed to.
LEMMA DispatcherReach ==
    ASSUME Counters, FailureReach, Dispatcher \/ Interrupt \/ UNCHANGED vars
    PROVE  FailureReach'
<1> SUFFICES ASSUME FailureReach /\ StopOnError
             PROVE  /\ ~stopped' => \A u \in Failed' : pc'[u] = "stop"
                    /\ Cardinality(Reach') <= Cap
  BY DEF FailureReach
<1> USE DEF Counters
<1>1. Failed' = Failed
  <2>1. CASE Skip
    <3>1. next \in Targets /\ results[next] = "zero"
      BY <2>1, OptionsAssumption DEF Skip, LoopIndex, TypeOK, Targets
    <3> QED
      BY <2>1, <3>1 DEF Skip, Failed, TypeOK
  <2>2. CASE ~Skip
    BY <2>2 DEF Dispatcher, Acquire, Proceed, Launch, Drain, Return, Interrupt,
       vars, Failed
  <2> QED
    BY <2>1, <2>2
<1>2. stopped => stopped'
  BY DEF Dispatcher, Acquire, Skip, Proceed, Launch, Drain, Return, Interrupt, vars
<1>3. \A u \in Failed : pc[u] # "idle" => pc'[u] = pc[u]
  <2>1. CASE Launch
    <3>1. next \in Targets /\ pc[next] = "idle"
      BY <2>1, OptionsAssumption DEF Launch, LoopIndex, TypeOK, Targets
    <3> QED
      BY <2>1, <3>1 DEF Launch, Failed, TypeOK
  <2>2. CASE ~Launch
    BY <2>2 DEF Dispatcher, Acquire, Skip, Proceed, Drain, Return, Interrupt,
       vars, workerVars
  <2> QED
    BY <2>1, <2>2
<1>4. ~stopped' => \A u \in Failed' : pc'[u] = "stop"
  BY <1>1, <1>2, <1>3 DEF FailureReach
<1>5. CASE Proceed
  <2>1. Failed \subseteq Holders
    BY <1>5 DEF Proceed, Cancelled, FailureReach, Failed, Holders, Holding
  <2>2. Failed' = Failed /\ Holders' = Holders /\ Committed' \subseteq {next}
    BY <1>1, <1>5 DEF Proceed, workerVars, Holders, Committed
  <2>3. Reach' \subseteq Holders \cup {next}
    BY <2>1, <2>2 DEF Reach
  <2>4. Holders = At(Holding) /\ Holders \in SUBSET Targets
    BY DEF Holders, At
  <2>5. IsFiniteSet(Holders) /\ Cardinality(Holders) \in Nat
    BY <2>4, TargetSets, OptionsAssumption
  <2>6. Cardinality(Holders) + 1 <= Cap
    BY <1>5, <2>4, <2>5, CapPositive DEF Proceed, Accounting, DispatcherSlot, TypeOK
  <2>7. IsFiniteSet(Holders \cup {next}) /\ Cardinality(Holders \cup {next}) <= Cap
    BY <2>5, <2>6, CapPositive, FS_AddElement
  <2>8. /\ Cardinality(Reach') <= Cardinality(Holders \cup {next})
        /\ IsFiniteSet(Reach')
    BY <2>3, <2>7, FS_Subset
  <2> QED
    BY <1>4, <2>7, <2>8, FS_CardinalityType, CapPositive
<1>6. CASE ~Proceed
  <2>1. Reach' \subseteq Reach
    <3>1. CASE Launch
      BY <1>1, <3>1 DEF Launch, Reach, Holders, Committed, TypeOK
    <3>2. CASE ~Launch
      <4>1. \/ pc' = pc /\ dpc' # "launch"
            \/ UNCHANGED <<pc, dpc, next>>
        BY <1>6, <3>2 DEF Dispatcher, Acquire, Skip, Drain, Return, Interrupt,
           vars, workerVars
      <4> QED
        BY <1>1, <4>1 DEF Reach, Holders, Committed
    <3> QED
      BY <3>1, <3>2
  <2> QED
    BY <1>4, <2>1, ReachShrinks
<1> QED
  BY <1>5, <1>6

\* With StopOnError no more targets fail than could be in flight when the
\* first of them did, whatever the size of the inventory.
THEOREM FailuresAreBounded == Spec => []StopBoundsFailures
<1>1. Counters /\ Slice /\ FailureReach /\ [Next]_vars => FailureReach'
  BY WorkerReach, DispatcherReach DEF Next, Terminated
<1>2. FailureReach => StopBoundsFailures
  <2> SUFFICES ASSUME FailureReach /\ StopOnError PROVE Cardinality(Failed) <= Cap
    BY DEF StopBoundsFailures
  <2>1. Reach \in SUBSET Targets /\ Failed \in SUBSET Reach
    BY DEF Reach, Failed, Holders, Committed
  <2>2. IsFiniteSet(Reach) /\ Cardinality(Reach) \in Nat
    BY <2>1, TargetSets, OptionsAssumption
  <2>3. /\ Cardinality(Failed) <= Cardinality(Reach)
        /\ Cardinality(Failed) \in Nat
    BY <2>1, <2>2, FS_Subset, FS_CardinalityType
  <2> QED
    BY <2>2, <2>3, CapPositive DEF FailureReach
<1> QED
  BY <1>1, <1>2, ReachInit, SliceInvariant, PTL DEF Spec

-----------------------------------------------------------------------------
(***************************************************************************)
(* The two contracts: every goroutine makes its calls as ExecContract      *)
(* says, and Run is RunContract to its callers.                            *)
(***************************************************************************)

\* Where a goroutine is tells how many calls it has begun and what they
\* answered so far.
Calls ==
    \A t \in Targets :
        /\ pc[t] \in {"idle", "render"} => attempt[t] = 0 /\ outcome[t] = "zero"
        /\ pc[t] = "exec" => attempt[t] >= 1 /\ attempt[t] <= Attempts
        /\ pc[t] = "retry" =>
                attempt[t] >= 1 /\ attempt[t] < Attempts /\ outcome[t] = "fail"

LEMMA AttemptsType == Attempts \in Int
BY OptionsAssumption DEF Attempts

LEMMA CallsInit == Init => Calls
BY DEF Init, Calls

\* A step of t's goroutine changes nothing of another target's.
LEMMA OthersStay ==
    ASSUME TypeOK, NEW u \in Targets, Worker(u), NEW t \in Targets, t # u
    PROVE  pc'[t] = pc[t] /\ attempt'[t] = attempt[t] /\ outcome'[t] = outcome[t]
<1>1. /\ pc \in [Targets -> Places] /\ attempt \in [Targets -> Nat]
      /\ outcome \in [Targets -> {"zero", "ok", "fail"}]
  BY DEF TypeOK
<1> QED
  BY <1>1 DEF Worker, RenderFails, RenderOnly, Start, ExecReturns, ExecExpires,
       AfterExec, Retry, Store, Stop, CountDone, Report, Release, WgDone, otherVars

\* The three kinds of step of a goroutine, as ExecContract names them.
LEMMA BeginStep ==
    ASSUME NEW t \in Targets, Place(t) \in {"before", "between"},
           attempt[t] < Attempts, Place(t)' = "exec", attempt'[t] = attempt[t] + 1,
           Answered(t)' = Answered(t)
    PROVE  Exec(t)!Next
BY DEF Exec!Next, Exec!Begin

LEMMA AnswerStep ==
    ASSUME NEW t \in Targets, NEW o \in {"ok", "fail"},
           Place(t) = "exec", Answered(t)' = o, attempt'[t] = attempt[t],
           Place(t)' = IF o = "fail" /\ attempt[t] < Attempts
                       THEN "between" ELSE "after"
    PROVE  Exec(t)!Next
BY DEF Exec!Next, Exec!Answer

LEMMA SpareStep ==
    ASSUME NEW t \in Targets, Place(t) = "before", Place(t)' = "after",
           attempt'[t] = attempt[t], Answered(t)' = Answered(t)
    PROVE  Exec(t)!Next
BY DEF Exec!Next, Exec!Spare

LEMMA QuietStep ==
    ASSUME NEW t \in Targets, Place(t)' = Place(t),
           attempt'[t] = attempt[t], Answered(t)' = Answered(t)
    PROVE  UNCHANGED Exec(t)!vars
BY DEF Exec!vars
\* What a goroutine's own step does to its calls: its place in the contract,
\* its attempts and its outcome, and that the bookkeeping above stays true.
LEMMA OwnStep ==
    ASSUME TypeOK, Calls, NEW t \in Targets, Worker(t)
    PROVE  /\ Exec(t)!Next \/ UNCHANGED Exec(t)!vars
           /\ pc'[t] \in {"idle", "render"} => attempt'[t] = 0 /\ outcome'[t] = "zero"
           /\ pc'[t] = "exec" => attempt'[t] >= 1 /\ attempt'[t] <= Attempts
           /\ pc'[t] = "retry" =>
                 attempt'[t] >= 1 /\ attempt'[t] < Attempts /\ outcome'[t] = "fail"
<1> USE AttemptsType
<1>1. /\ pc \in [Targets -> Places] /\ attempt \in [Targets -> Nat]
      /\ outcome \in [Targets -> {"zero", "ok", "fail"}]
  BY DEF TypeOK
<1>2. /\ pc[t] \in {"idle", "render"} => attempt[t] = 0 /\ outcome[t] = "zero"
      /\ pc[t] = "exec" => attempt[t] >= 1 /\ attempt[t] <= Attempts
      /\ pc[t] = "retry" =>
            attempt[t] >= 1 /\ attempt[t] < Attempts /\ outcome[t] = "fail"
  BY DEF Calls
<1>3. CASE RenderFails(t) \/ RenderOnly(t)
  <2>1. /\ pc[t] = "render" /\ pc'[t] = "store" /\ attempt'[t] = attempt[t]
        /\ attempt[t] = 0
    BY <1>1, <1>2, <1>3 DEF RenderFails, RenderOnly
  <2>2. Place(t) = "before" /\ Place(t)' = "after" /\ Answered(t)' = Answered(t)
    BY <2>1 DEF Place, Answered
  <2> QED
    BY <2>1, <2>2, SpareStep
<1>4. CASE Start(t)
  <2>1. /\ pc[t] = "render" /\ pc'[t] = "exec" /\ attempt[t] = 0 /\ attempt'[t] = 1
        /\ outcome'[t] = "zero" /\ Attempts >= 1
    BY <1>1, <1>2, <1>4 DEF Start
  <2>2. Place(t) = "before" /\ Place(t)' = "exec" /\ Answered(t)' = Answered(t)
    BY <2>1 DEF Place, Answered
  <2> QED
    BY <2>1, <2>2, BeginStep
<1>5. CASE ExecReturns(t) \/ ExecExpires(t)
  <2>1. PICK o \in {"ok", "fail"} : pc[t] = "exec" /\ AfterExec(t, o)
    BY <1>5 DEF ExecReturns, ExecExpires
  <2>2. /\ pc'[t] = IF o = "fail" /\ attempt[t] < Attempts THEN "retry" ELSE "store"
        /\ attempt'[t] = attempt[t] /\ outcome'[t] = o
        /\ attempt[t] >= 1 /\ attempt[t] \in Nat
    BY <1>1, <1>2, <2>1 DEF AfterExec
  <2>3. /\ Place(t) = "exec" /\ Answered(t)' = o
        /\ Place(t)' = IF o = "fail" /\ attempt[t] < Attempts
                       THEN "between" ELSE "after"
    BY <2>1, <2>2 DEF Place, Answered
  <2>4. Exec(t)!Next
    BY <2>2, <2>3, AnswerStep
  <2> QED
    BY <2>2, <2>4
<1>6. CASE Retry(t)
  <2>1. /\ pc[t] = "retry" /\ pc'[t] = "exec" /\ attempt'[t] = attempt[t] + 1
        /\ attempt[t] >= 1 /\ attempt[t] < Attempts /\ attempt[t] \in Nat
        /\ outcome'[t] = outcome[t]
    BY <1>1, <1>2, <1>6 DEF Retry
  <2>2. Place(t) = "between" /\ Place(t)' = "exec" /\ Answered(t)' = Answered(t)
    BY <2>1 DEF Place, Answered
  <2> QED
    BY <2>1, <2>2, BeginStep
<1>7. CASE \/ Store(t) \/ Stop(t) \/ CountDone(t) \/ Report(t)
           \/ Release(t) \/ WgDone(t)
  <2>1. /\ pc[t] \in {"store", "stop", "count", "report", "release", "done"}
        /\ pc'[t] \in {"stop", "count", "report", "release", "done", "gone"}
        /\ attempt'[t] = attempt[t] /\ outcome'[t] = outcome[t]
    BY <1>1, <1>7 DEF Store, Stop, CountDone, Report, Release, WgDone
  <2>2. Place(t) = "after" /\ Place(t)' = "after" /\ Answered(t)' = Answered(t)
    BY <2>1 DEF Place, Answered
  <2> QED
    BY <2>1, <2>2, QuietStep
<1> QED
  BY <1>3, <1>4, <1>5, <1>6, <1>7 DEF Worker

\* A target that nothing touches, or that is launched, has made no call.
LEMMA OtherStep ==
    ASSUME Calls, NEW t \in Targets,
           \/ pc'[t] = pc[t] /\ attempt'[t] = attempt[t] /\ outcome'[t] = outcome[t]
           \/ /\ pc[t] = "idle" /\ pc'[t] = "render"
              /\ attempt'[t] = attempt[t] /\ outcome'[t] = outcome[t]
    PROVE  /\ UNCHANGED Exec(t)!vars
           /\ pc'[t] \in {"idle", "render"} => attempt'[t] = 0 /\ outcome'[t] = "zero"
           /\ pc'[t] = "exec" => attempt'[t] >= 1 /\ attempt'[t] <= Attempts
           /\ pc'[t] = "retry" =>
                 attempt'[t] >= 1 /\ attempt'[t] < Attempts /\ outcome'[t] = "fail"
<1>1. Place(t)' = Place(t) /\ Answered(t)' = Answered(t)
  BY DEF Place, Answered
<1>2. UNCHANGED Exec(t)!vars
  BY <1>1, QuietStep
<1> QED
  BY <1>2 DEF Calls

\* Every step of the program keeps the bookkeeping, and is for every target a
\* step of the contract or none.
LEMMA EveryStep ==
    ASSUME Counters, Calls, [Next]_vars
    PROVE  /\ Calls'
           /\ \A t \in Targets : Exec(t)!Next \/ UNCHANGED Exec(t)!vars
<1>1. TypeOK /\ LoopIndex
  BY DEF Counters
<1>2. ASSUME NEW t \in Targets
      PROVE  /\ Exec(t)!Next \/ UNCHANGED Exec(t)!vars
             /\ pc'[t] \in {"idle", "render"} =>
                    attempt'[t] = 0 /\ outcome'[t] = "zero"
             /\ pc'[t] = "exec" => attempt'[t] >= 1 /\ attempt'[t] <= Attempts
             /\ pc'[t] = "retry" =>
                    attempt'[t] >= 1 /\ attempt'[t] < Attempts /\ outcome'[t] = "fail"
  <2>1. CASE \E u \in Targets : Worker(u)
    <3>1. PICK u \in Targets : Worker(u)
      BY <2>1
    <3>2. CASE t = u
      BY <1>1, <3>1, <3>2, OwnStep
    <3>3. CASE t # u
      BY <1>1, <3>1, <3>3, OthersStay, OtherStep
    <3> QED
      BY <3>2, <3>3
  <2>2. CASE Launch
    <3>1. next <= NTargets /\ next \in Targets /\ pc[next] = "idle"
      BY <1>1, <2>2, OptionsAssumption DEF Launch, LoopIndex, TypeOK, Targets
    <3>2. /\ pc' = [pc EXCEPT ![next] = "render"]
          /\ attempt' = attempt /\ outcome' = outcome
          /\ pc \in [Targets -> Places]
      BY <1>1, <2>2 DEF Launch, TypeOK
    <3>3. \/ pc'[t] = pc[t] /\ attempt'[t] = attempt[t] /\ outcome'[t] = outcome[t]
          \/ /\ pc[t] = "idle" /\ pc'[t] = "render"
             /\ attempt'[t] = attempt[t] /\ outcome'[t] = outcome[t]
      BY <3>1, <3>2
    <3> QED
      BY <3>3, OtherStep
  <2>3. CASE \/ Acquire \/ Skip \/ Proceed \/ Drain \/ Return \/ Interrupt
             \/ Terminated \/ UNCHANGED vars
    <3>1. pc' = pc /\ attempt' = attempt /\ outcome' = outcome
      BY <2>3 DEF Acquire, Skip, Proceed, Drain, Return, Interrupt, Terminated,
         vars, workerVars
    <3> QED
      BY <3>1, OtherStep
  <2> QED
    BY <2>1, <2>2, <2>3 DEF Next, Dispatcher
<1>3. Calls'
  BY <1>2 DEF Calls
<1> QED
  BY <1>2, <1>3

\* Before the first call every target's contract is at its start.
LEMMA ContractsInit == Init => \A t \in Targets : Exec(t)!Init
<1> SUFFICES ASSUME Init, NEW t \in Targets PROVE Exec(t)!Init
  OBVIOUS
<1>1. pc[t] = "idle" /\ attempt[t] = 0
  BY DEF Init
<1>2. Place(t) = "before" /\ Answered(t) = "none"
  BY <1>1 DEF Place, Answered
<1> QED
  BY <1>1, <1>2 DEF Exec!Init

\* For any inventory, retries, pool and transports: every goroutine of Run
\* makes its calls of Transport.Exec as ExecContract says, which is what the
\* transports are written for.
THEOREM CallsKeepContract == Spec => ExecSpec
<1>1. Init => Calls /\ \A t \in Targets : Exec(t)!Init
  BY CallsInit, ContractsInit
<1>2. Counters /\ Calls /\ [Next]_vars => Calls'
  BY EveryStep
<1>3. Counters /\ Calls /\ [Next]_vars =>
        [\A t \in Targets : Exec(t)!Next \/ UNCHANGED Exec(t)!vars]_vars
  BY EveryStep
<1> QED
  BY <1>1, <1>2, <1>3, CountersInvariant, PTL DEF Spec, ExecSpec

-----------------------------------------------------------------------------
(* Run is RunContract.                                                     *)

\* What the contract sees of the targets.
Statuses == [t \in Targets |-> Status(t)]

\* The contract's count is the one of FiniteSets.
LEMMA SameCount ==
    ASSUME NEW S
    PROVE  Contract!Cardinality(S) = Cardinality(S)
BY DEF Contract!Cardinality, Cardinality

\* A target's status, from its goroutine, its slot and the dispatcher.
StatusTable ==
    \A t \in Targets : Status(t) =
        IF pc[t] \in Before \cup {"stop"} THEN "running"
        ELSE IF pc[t] # "idle" THEN outcome[t]
        ELSE IF dpc = "launch" /\ next = t THEN "running"
        ELSE IF results[t] = "skip" THEN "skip" ELSE "pending"

LEMMA StatusIs == Counters => StatusTable
<1> SUFFICES ASSUME Counters, NEW t \in Targets
             PROVE  Status(t) =
                IF pc[t] \in Before \cup {"stop"} THEN "running"
                ELSE IF pc[t] # "idle" THEN outcome[t]
                ELSE IF dpc = "launch" /\ next = t THEN "running"
                ELSE IF results[t] = "skip" THEN "skip" ELSE "pending"
  BY DEF StatusTable
<1>1. next = t => results[t] # "skip"
  <2>1. t >= t /\ t \in Nat
    BY DEF Targets
  <2> QED
    BY <2>1 DEF Counters, LoopIndex
<1> QED
  BY <1>1 DEF Status, Before

\* The same of the next state.
LEMMA StatusIsNext == Counters' => StatusTable'
BY StatusIs, PTL

\* Nothing that the contract sees.
LEMMA StatusesStay ==
    ASSUME \A t \in Targets : Status(t)' = Status(t),
           UNCHANGED <<stopped, interrupted, dpc = "returned", summary>>
    PROVE  UNCHANGED Contract!vars
<1>1. Statuses' = Statuses
  BY DEF Statuses, Targets
<1> QED
  BY <1>1 DEF Contract!vars, Statuses

\* One target gets a status.
LEMMA StatusesMove ==
    ASSUME NEW t \in Targets, NEW s, Status(t)' = s,
           \A u \in Targets : u # t => Status(u)' = Status(u)
    PROVE  Statuses' = [Statuses EXCEPT ![t] = s]
BY DEF Statuses, Targets

LEMMA TargetType == \A t \in Targets : t \in Nat /\ t >= 1 /\ t <= NTargets
BY DEF Targets

\* The dispatcher comes upon a target it has not touched.
LEMMA NextIsFrontier ==
    ASSUME Counters, Slice, dpc = "check"
    PROVE  next \in Targets /\ Contract!Frontier(next) /\ pc[next] = "idle"
<1>1. next \in Nat /\ next >= 1 /\ next <= NTargets /\ NTargets \in Nat
  BY OptionsAssumption DEF Counters, TypeOK, LoopIndex
<1>2. next \in Targets /\ pc[next] = "idle" /\ results[next] = "zero"
  BY <1>1 DEF Targets, Counters, LoopIndex
<1>3. Status(next) = "pending"
  BY <1>2, StatusIs DEF StatusTable, Before
<1>4. ASSUME NEW u \in Targets, u < next PROVE Status(u) # "pending"
  <2>1. pc[u] = "idle" => results[u] = "skip"
    BY <1>4 DEF Slice
  <2>2. outcome[u] \in {"zero", "ok", "fail"}
    BY DEF Counters, TypeOK
  <2> QED
    BY <2>1, <2>2, StatusIs DEF StatusTable
<1> QED
  BY <1>2, <1>3, <1>4 DEF Contract!Frontier, Contract!Having

\* Skip is the contract's.
LEMMA SkipIsContract ==
    ASSUME Counters, Counters', Slice, Skip
    PROVE  Contract!Next
<1> PICK n \in Targets : n = next
  BY NextIsFrontier DEF Skip
<1>0. StatusTable /\ StatusTable'
  BY StatusIs, StatusIsNext
<1>1. dpc = "check" /\ Contract!Frontier(n) /\ pc[n] = "idle"
  BY NextIsFrontier DEF Skip
<1>2. /\ pc' = pc /\ outcome' = outcome /\ dpc' = "acquire"
      /\ results' = [results EXCEPT ![next] = "skip"]
      /\ results \in [Targets -> {"zero", "ok", "fail", "skip"}]
      /\ UNCHANGED <<stopped, interrupted, summary>> /\ Cancelled
  BY DEF Skip, workerVars, Counters, TypeOK
<1>3. Status(n)' = "skip"
  BY <1>0, <1>1, <1>2 DEF StatusTable, Before
<1>4. \A u \in Targets : u # n => Status(u)' = Status(u)
  BY <1>0, <1>1, <1>2 DEF StatusTable, Before
<1>5. Statuses' = [Statuses EXCEPT ![n] = "skip"]
  BY <1>1, <1>3, <1>4, StatusesMove
<1>6. Contract!SkipTarget(n)
  BY <1>1, <1>2, <1>5 DEF Contract!SkipTarget, Contract!Cut, Cancelled, Statuses
<1> QED
  BY <1>1, <1>6 DEF Contract!Next, Contract!Progress

\* A target starts for the contract when the dispatcher has looked at the
\* context for it; the slot it holds leaves room for one more.
LEMMA ProceedIsContract ==
    ASSUME Counters, Counters', Slice, Proceed
    PROVE  Contract!Next
<1> PICK n \in Targets : n = next
  BY NextIsFrontier DEF Proceed
<1>0. StatusTable /\ StatusTable'
  BY StatusIs, StatusIsNext
<1>1. dpc = "check" /\ Contract!Frontier(n) /\ pc[n] = "idle"
  BY NextIsFrontier DEF Proceed
<1>2. /\ pc' = pc /\ outcome' = outcome /\ results' = results /\ next' = next
      /\ dpc' = "launch"
      /\ UNCHANGED <<stopped, interrupted, summary>> /\ ~Cancelled
      /\ results[next] = "zero"
  <2>1. next <= next /\ next \in Nat
    BY <1>1 DEF Targets
  <2> QED
    BY <1>1, <2>1 DEF Proceed, workerVars, Counters, LoopIndex
<1>3. Status(n)' = "running"
  BY <1>0, <1>1, <1>2 DEF StatusTable, Before
<1>4. \A u \in Targets : u # n => Status(u)' = Status(u)
  BY <1>0, <1>1, <1>2 DEF StatusTable, Before
<1>5. Statuses' = [Statuses EXCEPT ![n] = "running"]
  BY <1>1, <1>3, <1>4, StatusesMove
<1>6. Cardinality(Contract!Having("running")) < Cap
  <2> DEFINE R == Contract!Having("running")
  <2>1. R \subseteq At(Holding)
    <3> SUFFICES ASSUME NEW t \in Targets, Status(t) = "running"
                 PROVE  pc[t] \in Holding
      BY DEF Contract!Having, At
    <3>1. pc[t] \in Places /\ outcome[t] \in {"zero", "ok", "fail"}
      BY DEF Counters, TypeOK
    <3>2. pc[t] \in Before \cup {"stop"}
      BY <1>1, <3>1, StatusIs DEF StatusTable
    <3> QED
      BY <3>2 DEF Holding
  <2>2. At(Holding) \subseteq Targets
    BY DEF At
  <2>3. IsFiniteSet(At(Holding)) /\ Cardinality(At(Holding)) \in Nat
    BY <2>2, TargetSets
  <2>4. Cardinality(R) <= Cardinality(At(Holding)) /\ Cardinality(R) \in Nat
    BY <2>1, <2>3, FS_Subset, FS_CardinalityType
  <2>5. sem = Cardinality(At(Holding)) + 1 /\ sem <= Cap /\ Cap \in Nat
    BY <1>1, CapPositive DEF Counters, TypeOK, Accounting, DispatcherSlot
  <2> QED
    BY <2>3, <2>4, <2>5
<1>7. Contract!Start(n)
  BY <1>1, <1>2, <1>5, <1>6, SameCount
     DEF Contract!Start, Contract!Cut, Cancelled, Statuses
<1> QED
  BY <1>1, <1>7 DEF Contract!Next, Contract!Progress

\* The launch of a target that counts as running is none of the contract's.
LEMMA LaunchIsQuiet ==
    ASSUME Counters, Counters', Slice, Launch
    PROVE  UNCHANGED Contract!vars
<1>1. /\ dpc = "launch" /\ next \in Targets /\ next \in Nat
      /\ pc[next] = "idle" /\ results[next] = "zero"
  <2>1. next \in Nat /\ next >= 1 /\ next <= NTargets /\ NTargets \in Nat
    BY OptionsAssumption DEF Launch, Counters, TypeOK, LoopIndex
  <2> QED
    BY <2>1 DEF Targets, Launch, Counters, LoopIndex
<1> PICK n \in Targets : n = next
  BY <1>1
<1>0. StatusTable /\ StatusTable'
  BY StatusIs, StatusIsNext
<1>2. /\ dpc' = "acquire" /\ next' = next + 1
      /\ pc' = [pc EXCEPT ![next] = "render"] /\ pc \in [Targets -> Places]
      /\ UNCHANGED <<outcome, results, stopped, interrupted, summary>>
  BY DEF Launch, Counters, TypeOK
<1>3. Status(n)' = "running" /\ Status(n) = "running"
  BY <1>0, <1>1, <1>2 DEF StatusTable, Before
<1>4. \A u \in Targets : u # n => Status(u)' = Status(u)
  BY <1>0, <1>1, <1>2 DEF StatusTable, Before
<1> QED
  BY <1>1, <1>2, <1>3, <1>4, StatusesStay

\* Run returns when no goroutine is left.
LEMMA ReturnIsContract ==
    ASSUME Counters, Slice, Return
    PROVE  Contract!Next
<1>1. /\ dpc = "wait" /\ wg = 0 /\ dpc' = "returned" /\ summary' = Summarize
      /\ stopped' = TRUE
      /\ UNCHANGED <<next, pc, outcome, results, interrupted>>
  BY DEF Return, workerVars
<1>2. \A t \in Targets : pc[t] \notin Live
  <2>1. IsFiniteSet(At(Live)) /\ Cardinality(At(Live)) = 0
    <3>1. At(Live) \subseteq Targets
      BY DEF At
    <3> QED
      BY <1>1, <3>1, TargetSets DEF Counters, Accounting
  <2>2. At(Live) = {}
    BY <2>1, FS_EmptySet
  <2> QED
    BY <2>2 DEF At
<1>3. StatusTable
  BY StatusIs
<1>4. ASSUME NEW t \in Targets
      PROVE  /\ Status(t)' = Status(t)
             /\ Status(t) = "skip" <=> results[t] = "skip"
             /\ Status(t) = "ok" <=> OK(results[t])
             /\ Status(t) = "fail" <=> results[t] # "skip" /\ ~OK(results[t])
             /\ Status(t) \notin {"pending", "running"}
  <2>1. pc[t] \in {"idle", "gone"} /\ outcome[t] \in {"zero", "ok", "fail"}
        /\ t <= NTargets /\ t \in Nat /\ NTargets \in Nat
    BY <1>2, TargetType, OptionsAssumption DEF Counters, TypeOK, Places
  <2>2. CASE pc[t] = "idle"
    <3>1. results[t] = "skip" /\ next = NTargets + 1
      BY <1>1, <2>1, <2>2 DEF Counters, LoopIndex, Slice
    <3>2. Status(t) = "skip"
      BY <1>1, <1>3, <2>2, <3>1 DEF StatusTable, Before
    <3>3. Status(t)' = Status(t)
      BY <1>1, <2>2 DEF Status, Before
    <3> QED
      BY <3>1, <3>2, <3>3 DEF OK
  <2>3. CASE pc[t] = "gone"
    <3>1. results[t] = outcome[t] /\ outcome[t] # "zero"
      BY <2>3 DEF Slice, Places, Live, Holding, Before
    <3>2. Status(t) = outcome[t]
      BY <1>3, <2>3 DEF StatusTable, Before
    <3>3. Status(t)' = Status(t)
      BY <1>1, <2>3 DEF Status, Before
    <3> QED
      BY <2>1, <3>1, <3>2, <3>3 DEF OK
  <2> QED
    BY <2>1, <2>2, <2>3
<1>5. Statuses' = Statuses
  BY <1>4 DEF Statuses, Targets
<1>6. /\ {t \in Targets : results[t] = "skip"} = Contract!Having("skip")
      /\ {t \in Targets : OK(results[t])} = Contract!Having("ok")
      /\ {t \in Targets : results[t] # "skip" /\ ~OK(results[t])} = Contract!Having("fail")
  BY <1>4 DEF Contract!Having
<1>7. summary' = [skipped   |-> Cardinality(Contract!Having("skip")),
                  succeeded |-> Cardinality(Contract!Having("ok")),
                  failed    |-> Cardinality(Contract!Having("fail"))]
  BY <1>1, <1>6 DEF Summarize
<1>8. Contract!Having("pending") \cup Contract!Having("running") = {}
  BY <1>4 DEF Contract!Having
<1>9. Contract!Return
  BY <1>1, <1>5, <1>7, <1>8, SameCount DEF Contract!Return, Statuses
<1> QED
  BY <1>9 DEF Contract!Next, Contract!Progress

\* The dispatcher's other steps.
LEMMA DispatcherIsContract ==
    ASSUME Counters, Counters', Slice, Dispatcher
    PROVE  Contract!Next \/ UNCHANGED Contract!vars
<1>1. CASE Acquire \/ Drain
  <2>1. /\ dpc \in {"acquire", "check", "wait"} /\ dpc' \in {"acquire", "check", "wait"}
        /\ UNCHANGED <<pc, outcome, results, next, stopped, interrupted, summary>>
    BY <1>1 DEF Acquire, Drain, workerVars
  <2>2. \A t \in Targets : Status(t)' = Status(t)
    BY <2>1, StatusIs, StatusIsNext DEF StatusTable
  <2> QED
    BY <2>1, <2>2, StatusesStay
<1> QED
  BY <1>1, SkipIsContract, ProceedIsContract, LaunchIsQuiet, ReturnIsContract
     DEF Dispatcher

\* A goroutine ends its target for the contract when it has cancelled the run
\* for a failure.
LEMMA StopIsContract ==
    ASSUME Counters, Counters', Slice, NEW t \in Targets, Stop(t)
    PROVE  Contract!Next
<1>1. /\ pc[t] = "stop" /\ pc' = [pc EXCEPT ![t] = "count"]
      /\ pc \in [Targets -> Places]
      /\ stopped' = (stopped \/ (~OK(outcome[t]) /\ StopOnError))
      /\ UNCHANGED <<dpc, next, outcome, results, interrupted, summary>>
  BY DEF Stop, otherVars, Counters, TypeOK
<1>2. outcome[t] \in {"ok", "fail"}
  BY <1>1 DEF Slice, Places, Live, Holding, Before, Counters, TypeOK
<1>3. StatusTable /\ StatusTable'
  BY StatusIs, StatusIsNext
<1>4. Status(t) = "running" /\ Status(t)' = outcome[t]
  BY <1>1, <1>3 DEF StatusTable, Before
<1>5. \A u \in Targets : u # t => Status(u)' = Status(u)
  BY <1>1, <1>3 DEF StatusTable
<1>6. Statuses' = [Statuses EXCEPT ![t] = outcome[t]]
  BY <1>4, <1>5, StatusesMove
<1>7. dpc # "returned"
  BY <1>1 DEF Slice
<1>8. stopped' = (stopped \/ (outcome[t] = "fail" /\ StopOnError))
  BY <1>1, <1>2 DEF OK
<1>9. Contract!Finish(t, outcome[t])
  BY <1>1, <1>4, <1>6, <1>7, <1>8 DEF Contract!Finish, Contract!Having, Statuses
<1> QED
  BY <1>2, <1>9 DEF Contract!Next, Contract!Progress

\* What else a goroutine does is none of the contract's.
LEMMA WorkerIsContract ==
    ASSUME Counters, Counters', Slice, NEW t \in Targets, Worker(t)
    PROVE  Contract!Next \/ UNCHANGED Contract!vars
<1>1. CASE Stop(t)
  BY <1>1, StopIsContract
<1>2. CASE ~Stop(t)
  <2>1. StatusTable /\ StatusTable' /\ pc \in [Targets -> Places]
        /\ outcome \in [Targets -> {"zero", "ok", "fail"}]
        /\ results \in [Targets -> {"zero", "ok", "fail", "skip"}]
    BY StatusIs, StatusIsNext DEF Counters, TypeOK
  <2>2. CASE RenderFails(t) \/ RenderOnly(t) \/ Start(t) \/ ExecReturns(t)
             \/ ExecExpires(t) \/ Retry(t) \/ Store(t)
    <3>1. /\ pc[t] \in Before /\ \E p \in Before \cup {"stop"} : pc' = [pc EXCEPT ![t] = p]
          /\ UNCHANGED <<dpc, next, stopped, interrupted, summary>>
      BY <2>2 DEF RenderFails, RenderOnly, Start, ExecReturns, ExecExpires, AfterExec,
                  Retry, Store, otherVars, Before
    <3>2. \A u \in Targets : u # t => outcome'[u] = outcome[u] /\ results'[u] = results[u]
      BY <2>1, <2>2 DEF RenderFails, RenderOnly, Start, ExecReturns, ExecExpires,
                        AfterExec, Retry, Store
    <3>3. \A u \in Targets : u # t => pc'[u] = pc[u]
      BY <2>1, <3>1
    <3>4. pc'[t] \in Before \cup {"stop"}
      BY <2>1, <3>1
    <3>5. \A u \in Targets : Status(u)' = Status(u)
      BY <2>1, <3>1, <3>2, <3>3, <3>4 DEF StatusTable
    <3> QED
      BY <3>1, <3>5, StatusesStay
  <2>3. CASE CountDone(t) \/ Report(t) \/ Release(t) \/ WgDone(t)
    <3>1. /\ pc[t] \in Counted \cup {"count"} /\ \E p \in Counted : pc' = [pc EXCEPT ![t] = p]
          /\ UNCHANGED <<dpc, next, outcome, results, stopped, interrupted, summary>>
      BY <2>3 DEF CountDone, Report, Release, WgDone, otherVars, Counted
    <3>2. \A u \in Targets : u # t => pc'[u] = pc[u]
      BY <2>1, <3>1
    <3>3. pc'[t] \in Counted
      BY <2>1, <3>1
    <3>4. \A u \in Targets : Status(u)' = Status(u)
      BY <2>1, <3>1, <3>2, <3>3 DEF StatusTable, Counted, Before
    <3> QED
      BY <3>1, <3>4, StatusesStay
  <2> QED
    BY <1>2, <2>2, <2>3 DEF Worker
<1> QED
  BY <1>1, <1>2

\* Every step of the program is a step of the contract or none.
LEMMA StepIsContract ==
    ASSUME Counters, Counters', Slice, [Next]_vars
    PROVE  Contract!Next \/ UNCHANGED Contract!vars
<1>1. CASE Interrupt
  <2>1. /\ ~interrupted /\ dpc # "returned" /\ interrupted' = TRUE
        /\ UNCHANGED <<dpc, next, pc, outcome, results, stopped, summary>>
    BY <1>1 DEF Interrupt, workerVars
  <2>2. \A t \in Targets : Status(t)' = Status(t)
    BY <2>1, StatusIs, StatusIsNext DEF StatusTable
  <2>3. Statuses' = Statuses
    BY <2>2 DEF Statuses, Targets
  <2>4. Contract!Interrupt
    BY <2>1, <2>3 DEF Contract!Interrupt, Statuses
  <2> QED
    BY <2>4 DEF Contract!Next
<1>2. CASE Terminated \/ UNCHANGED vars
  <2>1. UNCHANGED <<dpc, next, pc, outcome, results, stopped, interrupted, summary>>
    BY <1>2 DEF Terminated, vars
  <2>2. \A t \in Targets : Status(t)' = Status(t)
    BY <2>1, StatusIs, StatusIsNext DEF StatusTable
  <2> QED
    BY <2>1, <2>2, StatusesStay
<1> QED
  BY <1>1, <1>2, DispatcherIsContract, WorkerIsContract DEF Next

\* For any inventory, parallelism, retries and transports: Run, with its slots,
\* goroutines and counters, is RunContract to its callers (engine.go:58), which
\* is what RunWaves and the dashboards are written for.
THEOREM RunKeepsContract == Spec => ContractSpec
<1>1. Init => Contract!Init
  <2> SUFFICES ASSUME Init PROVE Contract!Init
    OBVIOUS
  <2>1. \A t \in Targets : Status(t) = "pending"
    BY DEF Init, Status, Before
  <2>2. Statuses = [t \in Targets |-> "pending"]
    BY <2>1 DEF Statuses
  <2> QED
    BY <2>2 DEF Init, NoSummary, Contract!Init, Contract!Begin, Statuses
<1>2. Counters /\ Slice /\ Counters' /\ [Next]_vars => [Contract!Next]_(Contract!vars)
  BY StepIsContract
<1>3. Spec => [](Counters /\ Slice)
  BY SliceInvariant
<1> QED
  BY <1>1, <1>2, <1>3, PTL DEF Spec, ContractSpec, Contract!Spec
=============================================================================
