-------------------------- MODULE WorkerLoopProofs --------------------------
(***************************************************************************)
(* WorkerLoop for every number of scenarios, goroutines, slots, restarts   *)
(* and repeated rows.                                                      *)
(***************************************************************************)
EXTENDS WorkerLoop, FiniteSetTheorems, TLAPS

\* The holders of slots form a finite set whose size is a natural number.
LEMMA HoldersFinite == IsFiniteSet(Holders) /\ Cardinality(Holders) \in Nat
<1>1. Holders \subseteq Goroutines
  BY DEF Holders
<1>2. IsFiniteSet(Holders)
  BY <1>1, FS_Subset, WorkerAssumption
<1> QED
  BY <1>2, FS_CardinalityType

\* A goroutine that takes a slot adds one holder.
LEMMA HolderAdded ==
    ASSUME NEW g \in Goroutines, ~HoldsSlot(g),
           Holders' = Holders \cup {g}
    PROVE  Cardinality(Holders') = Cardinality(Holders) + 1
<1>1. g \notin Holders
  BY DEF Holders
<1> QED
  BY <1>1, HoldersFinite, FS_AddElement

\* A goroutine that gives its slot back removes one holder, so there was one.
LEMMA HolderRemoved ==
    ASSUME NEW g \in Goroutines, HoldsSlot(g),
           Holders' = Holders \ {g}
    PROVE  /\ Cardinality(Holders') = Cardinality(Holders) - 1
           /\ Cardinality(Holders) > 0
<1>1. g \in Holders
  BY DEF Holders
<1>2. Cardinality(Holders \ {g}) = Cardinality(Holders) - 1
  BY <1>1, HoldersFinite, FS_RemoveElement
<1>3. Cardinality(Holders) # 0
  BY <1>1, HoldersFinite, FS_EmptySet
<1> QED
  BY <1>2, <1>3, HoldersFinite

\* The empty assignment list is one.
LEMMA NoRowsType == NoRows \in [Scenarios -> 0..MaxRows]
  BY WorkerAssumption DEF NoRows

\* Type correctness and the meaning of the slots channel, of every step.
LEMMA TypeAndSlotsStep ==
    ASSUME TypeOK, SlotInv, ScenarioInv, LoopInv, [Next]_vars
    PROVE  TypeOK' /\ SlotInv'
<1> USE WorkerAssumption
<1> USE DEF TypeOK, WorkerIds, NoRows, cpVars, loopVars, goVars
<1>s. ASSUME phase' = phase, slots' = slots
      PROVE  SlotInv'
  <2>1. Holders' = Holders
    BY <1>s DEF Holders, HoldsSlot
  <2> QED
    BY <1>s, <2>1 DEF SlotInv
<1>h. ASSUME NEW g \in Goroutines, NEW st \in {"free", "queued", "ended", "leaving"},
             phase' = [phase EXCEPT ![g] = st], slots' = slots,
             phase[g] \in {"running", "ended"} <=> st \in {"ended", "leaving"},
             phase[g] # "leaving"
      PROVE  SlotInv'
  <2>1. Holders' = Holders
    BY <1>h DEF Holders, HoldsSlot
  <2> QED
    BY <1>h, <2>1 DEF SlotInv
<1>1. CASE ControlPlane
  <2>1. ASSUME NEW s \in Scenarios, PutScenario(s)
        PROVE  TypeOK' /\ SlotInv'
    BY <2>1, <1>s DEF PutScenario
  <2>4. ASSUME NEW s \in Scenarios, DropScenario(s)
        PROVE  TypeOK' /\ SlotInv'
    BY <2>4, <1>s DEF DropScenario
  <2>2. ASSUME NEW w \in WorkerIds, NEW s \in Scenarios, AssignScenario(w, s)
        PROVE  TypeOK' /\ SlotInv'
    <3>1. rows[w][s] + 1 \in 0..MaxRows
      BY <2>2, WorkerAssumption DEF AssignScenario, AppendsRow, InsertsRow
    <3> QED
      BY <2>2, <3>1, <1>s DEF AssignScenario
  <2>3. CASE ControlPlaneRestart
    BY <2>3, <1>s DEF ControlPlaneRestart
  <2> QED
    BY <1>1, <2>1, <2>2, <2>3, <2>4 DEF ControlPlane
<1>2. CASE Loop
  <2>1. CASE Register
    BY <2>1, <1>s DEF Register, RegisterWorker
  <2>7. CASE RegisterFails \/ Tick
    BY <2>7, <1>s DEF RegisterFails, Tick
  <2>2. CASE HeartbeatOK
    BY <2>2, <1>s DEF HeartbeatOK, Assignments, LoopInv, id
  <2>3. CASE HeartbeatErr \/ FetchErr
    BY <2>3, <1>s DEF HeartbeatErr, FetchErr
  <2>4. ASSUME NEW s \in Scenarios, Scan(s)
        PROVE  TypeOK' /\ SlotInv'
    BY <2>4, <1>s DEF Scan
  <2>5. ASSUME NEW g \in Goroutines, Dispatch(g)
        PROVE  TypeOK' /\ SlotInv'
    BY <2>5, <1>h DEF Dispatch
  <2>6. CASE TickEnd \/ Stop
    BY <2>6, <1>s DEF TickEnd, Stop, CancelNotIn
  <2> QED
    BY <1>2, <2>1, <2>2, <2>3, <2>4, <2>5, <2>6, <2>7 DEF Loop
<1>3. CASE CancelContext
  BY <1>3, <1>s DEF CancelContext
<1>4. CASE ProcessRestart
  <2>c. cancelled' \in [Goroutines -> BOOLEAN]
    BY <1>4, Zenon DEF ProcessRestart
  <2>p. phase' \in [Goroutines -> {"free", "queued", "running", "ended", "leaving"}]
    BY <1>4 DEF ProcessRestart
  <2>d. /\ dispatched' \in [Scenarios -> Goroutines \cup {None}]
        /\ scn' \in [Goroutines -> Scenarios \cup {None}]
    BY <1>4, Zenon DEF ProcessRestart
  <2>b. ctxDone' \in BOOLEAN /\ wanted' \subseteq Scenarios /\ cur' \in Scenarios \cup {None}
    BY <1>4, Zenon DEF ProcessRestart
  <2>s. slots' \in 0..MaxConcurrentRuns
    BY <1>4 DEF ProcessRestart
  <2>n. pending' \in [Scenarios -> 0..MaxRows]
    BY <1>4, NoRowsType, Zenon DEF ProcessRestart
  <2>1. TypeOK'
    BY <1>4, <2>b, <2>c, <2>p, <2>d, <2>s, <2>n DEF ProcessRestart
  <2>2. Holders' = {}
    BY <1>4 DEF ProcessRestart, Holders, HoldsSlot
  <2> QED
    BY <1>4, <2>1, <2>2, FS_EmptySet DEF ProcessRestart, SlotInv
<1>5. ASSUME NEW g \in Goroutines, Goroutine(g)
      PROVE  TypeOK' /\ SlotInv'
  <2>1. CASE AcquireSlot(g)
    <3>1. Holders' = Holders \cup {g} /\ ~HoldsSlot(g)
      BY <2>1 DEF AcquireSlot, Holders, HoldsSlot
    <3>2. Cardinality(Holders') = Cardinality(Holders) + 1
      BY <3>1, HolderAdded
    <3>3. SlotInv'
      BY <2>1, <3>2 DEF AcquireSlot, SlotInv
    <3>4. TypeOK'
      BY <2>1 DEF AcquireSlot
    <3> QED
      BY <3>3, <3>4
  <2>2. CASE GiveUp(g)
    BY <2>2, <1>h DEF GiveUp, DeleteEntry, Retire
  <2>3. CASE HandlerReturns(g)
    BY <2>3, <1>h DEF HandlerReturns
  <2>4. CASE DeferredDelete(g)
    BY <2>4, <1>h DEF DeferredDelete, DeleteEntry, Retire
  <2>5. CASE ReleaseSlot(g)
    <3>1. Holders' = Holders \ {g} /\ HoldsSlot(g)
      BY <2>5 DEF ReleaseSlot, Holders, HoldsSlot
    <3>2. slots > 0 /\ slots - 1 = Cardinality(Holders')
      BY <3>1, HolderRemoved DEF SlotInv
    <3> QED
      BY <2>5, <3>1, <3>2 DEF ReleaseSlot, SlotInv
  <2> QED
    BY <1>5, <2>1, <2>2, <2>3, <2>4, <2>5 DEF Goroutine
<1>6. CASE UNCHANGED vars
  BY <1>6, <1>s DEF vars
<1> QED
  BY <1>1, <1>2, <1>3, <1>4, <1>5, <1>6 DEF Next

\* The pieces about the map, the loop and the control plane's rows, of every step.
LEMMA MapStep ==
    ASSUME IInv, TypeOK', [Next]_vars
    PROVE  ScenarioInv' /\ EntryInv' /\ LoopInv' /\ RowsInv' /\ OwnerInv'
<1> USE WorkerAssumption
<1> USE DEF IInv, TypeOK, WorkerIds, NoRows, cpVars, loopVars, goVars,
            ScenarioInv, EntryInv, LoopInv, RowsInv, OwnerInv, Active, id
<1>1. CASE ControlPlane
  <2>1. ASSUME NEW s \in Scenarios, PutScenario(s)
        PROVE  ScenarioInv' /\ EntryInv' /\ LoopInv' /\ RowsInv' /\ OwnerInv'
    BY <2>1 DEF PutScenario
  <2>2. ASSUME NEW s \in Scenarios, DropScenario(s)
        PROVE  ScenarioInv' /\ EntryInv' /\ LoopInv' /\ RowsInv' /\ OwnerInv'
    BY <2>2 DEF DropScenario
  <2>3. ASSUME NEW w \in WorkerIds, NEW s \in Scenarios, AssignScenario(w, s)
        PROVE  ScenarioInv' /\ EntryInv' /\ LoopInv' /\ RowsInv' /\ OwnerInv'
    BY <2>3 DEF AssignScenario, AppendsRow, InsertsRow
  <2>4. CASE ControlPlaneRestart
    BY <2>4 DEF ControlPlaneRestart
  <2> QED
    BY <1>1, <2>1, <2>2, <2>3, <2>4 DEF ControlPlane
<1>2. CASE Loop
  <2>1. CASE Register
    BY <2>1 DEF Register, RegisterWorker
  <2>2. CASE RegisterFails \/ Tick \/ HeartbeatErr
    BY <2>2 DEF RegisterFails, Tick, HeartbeatErr
  <2>3. CASE HeartbeatOK
    BY <2>3 DEF HeartbeatOK, Assignments
  <2>4. CASE FetchErr
    BY <2>4 DEF FetchErr
  <2>5. ASSUME NEW s \in Scenarios, Scan(s)
        PROVE  ScenarioInv' /\ EntryInv' /\ LoopInv' /\ RowsInv' /\ OwnerInv'
    BY <2>5 DEF Scan
  <2>6. ASSUME NEW g \in Goroutines, Dispatch(g)
        PROVE  ScenarioInv' /\ EntryInv' /\ LoopInv' /\ RowsInv' /\ OwnerInv'
    BY <2>6 DEF Dispatch
  <2>7. CASE TickEnd
    BY <2>7 DEF TickEnd, CancelNotIn
  <2>8. CASE Stop
    BY <2>8 DEF Stop, CancelNotIn
  <2> QED
    BY <1>2, <2>1, <2>2, <2>3, <2>4, <2>5, <2>6, <2>7, <2>8 DEF Loop
<1>3. CASE CancelContext
  BY <1>3 DEF CancelContext
<1>4. CASE ProcessRestart
  BY <1>4 DEF ProcessRestart
<1>5. ASSUME NEW g \in Goroutines, Goroutine(g)
      PROVE  ScenarioInv' /\ EntryInv' /\ LoopInv' /\ RowsInv' /\ OwnerInv'
  <2>1. CASE AcquireSlot(g)
    BY <2>1 DEF AcquireSlot
  <2>2. CASE GiveUp(g)
    BY <2>2 DEF GiveUp, DeleteEntry, Retire
  <2>3. CASE HandlerReturns(g)
    BY <2>3 DEF HandlerReturns
  <2>4. CASE DeferredDelete(g)
    BY <2>4 DEF DeferredDelete, DeleteEntry, Retire
  <2>5. CASE ReleaseSlot(g)
    BY <2>5 DEF ReleaseSlot
  <2> QED
    BY <1>5, <2>1, <2>2, <2>3, <2>4, <2>5 DEF Goroutine
<1>6. CASE UNCHANGED vars
  BY <1>6 DEF vars
<1> QED
  BY <1>1, <1>2, <1>3, <1>4, <1>5, <1>6 DEF Next

\* The inductive invariant holds in every reachable state.
THEOREM Invariance == Spec => []IInv
<1>1. Init => IInv
  <2> SUFFICES ASSUME Init PROVE IInv
    OBVIOUS
  <2>1. Holders = {}
    BY DEF Init, Holders, HoldsSlot
  <2>c. cancelled \in [Goroutines -> BOOLEAN]
    BY Zenon DEF Init
  <2>d. /\ dispatched \in [Scenarios -> Goroutines \cup {None}]
        /\ scn \in [Goroutines -> Scenarios \cup {None}]
        /\ rows \in [WorkerIds -> [Scenarios -> 0..MaxRows]]
        /\ pending \in [Scenarios -> 0..MaxRows]
    BY NoRowsType, Zenon DEF Init
  <2>p. phase \in [Goroutines -> {"free", "queued", "running", "ended", "leaving"}]
    BY DEF Init
  <2>b. /\ ctxDone \in BOOLEAN /\ wanted \subseteq Scenarios /\ cur \in Scenarios \cup {None}
        /\ workers \subseteq WorkerIds /\ stored \subseteq Scenarios
    BY Zenon DEF Init
  <2>s. slots \in 0..MaxConcurrentRuns /\ regs \in 0..MaxRegistrations
    BY WorkerAssumption DEF Init
  <2>t. TypeOK
    BY <2>b, <2>c, <2>d, <2>p, <2>s DEF Init, TypeOK
  <2>2. SlotInv
    BY <2>1, FS_EmptySet DEF Init, SlotInv
  <2>3. ScenarioInv /\ EntryInv /\ LoopInv /\ RowsInv /\ OwnerInv
    BY WorkerAssumption
       DEF Init, ScenarioInv, EntryInv, LoopInv, RowsInv, OwnerInv, Active
  <2> QED
    BY <2>t, <2>2, <2>3 DEF IInv
<1>2. IInv /\ [Next]_vars => IInv'
  <2> SUFFICES ASSUME IInv, [Next]_vars PROVE IInv'
    OBVIOUS
  <2>1. TypeOK' /\ SlotInv'
    BY TypeAndSlotsStep DEF IInv
  <2> QED
    BY <2>1, MapStep DEF IInv
<1> QED
  BY <1>1, <1>2, PTL DEF Spec

\* Every variable keeps its type: the slots channel never goes below zero or
\* above its capacity.
THEOREM TypeCorrect == Spec => []TypeOK
<1>1. IInv => TypeOK
  BY DEF IInv
<1> QED
  BY <1>1, Invariance, PTL

\* At most MaxConcurrentRuns handlers run at once, and the channel counts them.
THEOREM SlotsBoundRunsHolds == Spec => []SlotsBoundRuns
<1>1. IInv => SlotsBoundRuns
  <2> SUFFICES ASSUME IInv PROVE SlotsBoundRuns
    OBVIOUS
  <2> DEFINE Running == {g \in Goroutines : phase[g] = "running"}
  <2>1. Running \subseteq Holders
    BY DEF Holders, HoldsSlot
  <2>2. Cardinality(Running) \in Nat /\ Cardinality(Running) <= Cardinality(Holders)
    <3>1. IsFiniteSet(Running) /\ Cardinality(Running) <= Cardinality(Holders)
      BY <2>1, HoldersFinite, FS_Subset
    <3> QED
      BY <3>1, FS_CardinalityType
  <2>3. Cardinality(Holders) = slots /\ slots <= MaxConcurrentRuns /\ slots \in Nat
    BY WorkerAssumption DEF IInv, SlotInv, TypeOK
  <2>4. Cardinality(Running) <= MaxConcurrentRuns
    BY <2>2, <2>3, WorkerAssumption
  <2> QED
    BY <2>3, <2>4 DEF SlotsBoundRuns, Holders
<1> QED
  BY <1>1, Invariance, PTL

\* A scenario nobody removes has at most one goroutine working on it.
THEOREM OneLiveRunHolds == Spec => []OneLiveRun
<1>1. IInv => OneLiveRun
  BY DEF IInv, OwnerInv, OneLiveRun, Live, Active
<1> QED
  BY <1>1, Invariance, PTL

\* The map reaches every live goroutine of a scenario nobody removes.
THEOREM CancellableHolds == Spec => []AssignedRunsAreCancellable
<1>1. IInv => AssignedRunsAreCancellable
  BY DEF IInv, OwnerInv, AssignedRunsAreCancellable, Live, Active
<1> QED
  BY <1>1, Invariance, PTL

\* Neither failed heartbeats nor a control plane without memory stop a run.
THEOREM OutageKeepsRunsHolds == Spec => []OutageKeepsRuns
<1>1. IInv => OutageKeepsRuns
  BY WorkerAssumption
     DEF IInv, TypeOK, OwnerInv, EntryInv, ScenarioInv, OutageKeepsRuns, Active
<1> QED
  BY <1>1, Invariance, PTL
=============================================================================
