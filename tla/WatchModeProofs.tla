-------------------------- MODULE WatchModeProofs ---------------------------
(* Proofs about WatchMode, for every set of scenarios and every bound.      *)
EXTENDS WatchMode, FiniteSetTheorems, TLAPS

\* Steps of a scenario are numbered from 1, and a running iteration is at one.
LEMMA StepListType ==
    ASSUME TypeOK
    PROVE  /\ steps \in Seq(StepType) /\ steps # <<>>
           /\ Len(steps) \in Nat /\ Len(steps) > 0
  <1>1. steps \in Seq(StepType) /\ steps # <<>>
    BY StepAssumption DEF TypeOK, StepTypeOK
  <1> QED
    BY <1>1

\* Appending an event keeps the store a store.
LEMMA RecordType ==
    ASSUME TypeOK, NEW hit \in BOOLEAN, Record(hit)
    PROVE  store' \in Seq(EventType)
  <1>1. [iter |-> iter, step |-> at, hit |-> hit] \in EventType
    <2>1. iter \in Nat /\ at \in Nat
      BY StepAssumption, StepListType DEF TypeOK, StepTypeOK
    <2> QED
      BY <2>1 DEF EventType
  <1> QED
    BY <1>1 DEF TypeOK, StepTypeOK, Record

\* Where an iteration is: the part of StepTypeOK that every step action changes.
Progress ==
    /\ at \in 0..Len(steps)
    /\ result \in {"idle", "running", "ok", "error"}
    /\ sub \in Nat
    /\ open \in BOOLEAN

LEMMA StepDoneType ==
    ASSUME TypeOK, Frame, StepDone
    PROVE  Progress'
  <1>1. at \in 0..Len(steps) /\ Len(steps) \in Nat /\ steps' = steps
    BY StepListType DEF TypeOK, StepTypeOK, Frame
  <1>2. at' \in 0..Len(steps')
    BY <1>1 DEF StepDone
  <1>3. result' \in {"idle", "running", "ok", "error"}
    BY DEF StepDone, TypeOK, StepTypeOK
  <1>4. sub' \in Nat /\ open' \in BOOLEAN
    BY DEF StepDone
  <1> QED
    BY <1>2, <1>3, <1>4 DEF Progress

LEMMA StepFailsType ==
    ASSUME TypeOK, Frame, StepFails
    PROVE  Progress'
  <1>1. at' \in 0..Len(steps')
    BY DEF StepFails, TypeOK, StepTypeOK, Frame
  <1>2. sub' \in Nat /\ open' \in BOOLEAN
    BY DEF StepFails
  <1> QED
    BY <1>1, <1>2 DEF StepFails, Progress

LEMMA StepGoesOnType ==
    ASSUME TypeOK, Frame, sub' = sub + 1, StepGoesOn
    PROVE  Progress'
  <1>1. at' \in 0..Len(steps') /\ result' \in {"idle", "running", "ok", "error"}
    BY DEF StepGoesOn, TypeOK, StepTypeOK, Frame
  <1>2. sub' \in Nat
    BY DEF TypeOK, StepTypeOK
  <1>3. open' \in BOOLEAN
    BY DEF StepGoesOn, TypeOK, StepTypeOK
  <1> QED
    BY <1>1, <1>2, <1>3 DEF Progress

\* Who filled ${previous.*} is an iteration and a step, or nobody.
LEMMA PreviousType ==
    ASSUME TypeOK, RecordPrevious \/ UNCHANGED previous
    PROVE  previous' \in Nat \X Nat
  <1>1. iter \in Nat /\ at \in Nat /\ previous \in Nat \X Nat
    BY StepAssumption, StepListType DEF TypeOK, StepTypeOK
  <1> QED
    BY <1>1 DEF RecordPrevious

LEMMA FrameType ==
    ASSUME TypeOK, Frame, Progress',
           RecordPrevious \/ UNCHANGED previous,
           UNCHANGED store \/ \E hit \in BOOLEAN : Record(hit)
    PROVE  StepTypeOK'
  <1>1. previous' \in Nat \X Nat
    BY PreviousType
  <1>2. store' \in Seq(EventType)
    <2>1. CASE UNCHANGED store
      BY <2>1 DEF TypeOK, StepTypeOK
    <2> QED
      BY <2>1, RecordType
  <1>3. steps' \in StepLists /\ iter' \in 0..MaxIterations
    BY DEF TypeOK, StepTypeOK, Frame
  <1>4. ctxDone' \in BOOLEAN
    BY DEF TypeOK, StepTypeOK, Frame
  <1> QED
    BY <1>1, <1>2, <1>3, <1>4 DEF StepTypeOK, Progress

\* Every action of a step keeps the variables of the runner well typed.
LEMMA StepActionType ==
    ASSUME TypeOK, StepAction
    PROVE  StepTypeOK'
  <1>1. Frame
    BY DEF StepAction, Refused, ProduceAborted, ProduceBadPayload, ProduceInjected, ProduceSent,
       StreamOpen, StreamOpenErr, RuleError, StreamBroken, ConsumeMatch, ConsumeNoMatch,
       ConsumeTimeout, FrameMatch, FrameNoMatch, FrameTimeout, HTTPInjected, HTTPTransportErr,
       HTTPOk, HTTPUnexpected, GRPCInvokeErr, GRPCResponse, SleepDone, SleepAborted, Arrives
  <1>2. RecordPrevious \/ UNCHANGED previous
    BY DEF StepAction, Refused, ProduceAborted, ProduceBadPayload, ProduceInjected, ProduceSent,
       StreamOpen, StreamOpenErr, RuleError, StreamBroken, ConsumeMatch, ConsumeNoMatch,
       ConsumeTimeout, FrameMatch, FrameNoMatch, FrameTimeout, HTTPInjected, HTTPTransportErr,
       HTTPOk, HTTPUnexpected, GRPCInvokeErr, GRPCResponse, SleepDone, SleepAborted
  <1>3. UNCHANGED store \/ \E hit \in BOOLEAN : Record(hit)
    BY DEF StepAction, Refused, ProduceAborted, ProduceBadPayload, ProduceInjected, ProduceSent,
       StreamOpen, StreamOpenErr, RuleError, StreamBroken, ConsumeMatch, ConsumeNoMatch,
       ConsumeTimeout, FrameMatch, FrameNoMatch, FrameTimeout, HTTPInjected, HTTPTransportErr,
       HTTPOk, HTTPUnexpected, GRPCInvokeErr, GRPCResponse, SleepDone, SleepAborted, Arrives
  <1>4. \/ StepDone \/ StepFails \/ StreamOpen
        \/ sub' = sub + 1 /\ StepGoesOn
    BY DEF StepAction, Refused, ProduceAborted, ProduceBadPayload, ProduceInjected, ProduceSent,
       StreamOpenErr, RuleError, StreamBroken, ConsumeMatch, ConsumeNoMatch,
       ConsumeTimeout, FrameMatch, FrameNoMatch, FrameTimeout, HTTPInjected, HTTPTransportErr,
       HTTPOk, HTTPUnexpected, GRPCInvokeErr, GRPCResponse, SleepDone, SleepAborted, ProducedOne
  <1>5. CASE StreamOpen
    <2>1. Progress'
      BY <1>5 DEF StreamOpen, Frame, Progress, TypeOK, StepTypeOK
    <2> QED
      BY <1>1, <1>2, <1>3, <2>1, FrameType
  <1> QED
    BY <1>1, <1>2, <1>3, <1>4, <1>5, StepDoneType, StepFailsType, StepGoesOnType, FrameType

\* The type invariant is inductive.
LEMMA TypeStep ==
    ASSUME TypeOK, [Next]_vars
    PROVE  TypeOK'
  <1> USE DEF TypeOK
  <1>0. TypeOK
    OBVIOUS
  <1>l. Len(store) \in Nat
    BY DEF StepTypeOK
  <1>1. CASE LoopIterate
    BY <1>0, <1>1, StepAssumption, StepListType
       DEF LoopIterate, BeginRun, UnchangedWatch, StepTypeOK
  <1>2. CASE LoopStep
    BY <1>0, <1>2, StepActionType DEF LoopStep, UnchangedWatch
  <1>3. CASE LoopRunReturns \/ LoopGapEnds \/ LoopExit
    BY <1>3 DEF LoopRunReturns, LoopGapEnds, LoopExit, UnchangedWatch, StepTypeOK, runVars
  <1>4. CASE SelectDone
    BY <1>4 DEF SelectDone, StepTypeOK, runVars
  <1>4a. CASE Drain
    BY <1>4a DEF Drain, BeginSnapshot, StepTypeOK, runVars
  <1>4b. CASE SelectLoopEnded
    BY <1>4b DEF SelectLoopEnded, BeginSnapshot, StepTypeOK, runVars
  <1>5. CASE SelectTick
    BY <1>5, WatchAssumption DEF SelectTick, BeginSnapshot, StepTypeOK, runVars
  <1>6. CASE SnapshotRead \/ SnapshotReport
    <2>1. seen' \in Seq(Nat)
      <3>1. seen \in Seq(Nat) /\ seen' = Append(seen, Len(store))
        BY <1>6 DEF SnapshotRead, SnapshotReport
      <3> HIDE DEF TypeOK
      <3> QED
        BY <1>l, <3>1
    <2>2. pc' \in {"select", "drain", "reads", "push", "returned"}
      BY <1>6 DEF SnapshotRead, SnapshotReport
    <2>3. StepTypeOK'
      BY <1>6 DEF SnapshotRead, SnapshotReport, StepTypeOK, runVars
    <2> QED
      BY <1>6, <2>1, <2>2, <2>3 DEF SnapshotRead, SnapshotReport
  <1>7. CASE PushEnds
    <2>1. StepTypeOK'
      BY <1>7 DEF PushEnds, StepTypeOK, runVars
    <2>2. seen' \in Seq(Nat)
      <3>1. seen \in Seq(Nat) /\ (seen' = seen \/ seen' = <<>>)
        BY <1>7 DEF PushEnds
      <3>2. <<>> \in Seq(Nat)
        OBVIOUS
      <3> HIDE DEF TypeOK
      <3> QED
        BY <3>1, <3>2, Zenon
    <2> QED
      BY <1>7, <2>1, <2>2 DEF PushEnds
  <1>8. CASE CancelWatch
    BY <1>8 DEF CancelWatch, StepTypeOK, watchVars
  <1>9. CASE UNCHANGED vars
    BY <1>9 DEF vars, runVars, watchVars, StepTypeOK
  <1> QED
    BY <1>1, <1>2, <1>3, <1>4, <1>4a, <1>4b, <1>5, <1>6, <1>7, <1>8, <1>9
       DEF Next, StepLoop, Watcher

\* The loop's writes end before the last snapshot: only a step changes the store,
\* and only the step loop, before it exits, takes steps.
LEMMA LastStep ==
    ASSUME IInv, [Next]_vars
    PROVE  LoopInv' /\ LastInv'
  <1> USE DEF IInv, LoopInv, LastInv
  <1>0. TypeOK /\ seen \in Seq(Nat) /\ Len(store) \in Nat /\ Len(seen) \in Nat
    BY DEF TypeOK, StepTypeOK
  <1>1. CASE LoopIterate
    BY <1>0, <1>1 DEF LoopIterate, BeginRun, UnchangedWatch, TypeOK
  <1>2. CASE LoopStep
    BY <1>0, <1>2 DEF LoopStep, UnchangedWatch, TypeOK
  <1>3. CASE LoopRunReturns \/ LoopGapEnds \/ LoopExit
    BY <1>0, <1>3 DEF LoopRunReturns, LoopGapEnds, LoopExit, UnchangedWatch, runVars, TypeOK
  <1>4. CASE SelectDone
    BY <1>0, <1>4 DEF SelectDone, runVars, TypeOK
  <1>5. CASE Drain \/ SelectLoopEnded
    BY <1>0, <1>5 DEF Drain, SelectLoopEnded, BeginSnapshot, runVars, TypeOK
  <1>6. CASE SelectTick
    BY <1>0, <1>6 DEF SelectTick, BeginSnapshot, runVars, TypeOK
  <1>7. CASE SnapshotRead \/ SnapshotReport
    <2>1. seen' = Append(seen, Len(store)) /\ UNCHANGED <<runVars, loopPc, errCh, next>>
      BY <1>7 DEF SnapshotRead, SnapshotReport
    <2>2. /\ seen' # <<>> /\ Len(seen') = Len(seen) + 1
          /\ \A i \in 1..Len(seen) : seen'[i] = seen[i]
          /\ seen'[Len(seen) + 1] = Len(store)
      BY <1>0, <2>1
    <2>3. next = "return" => \A i \in 1..Len(seen') : seen'[i] = Len(store)
      BY <1>0, <2>2
    <2> QED
      BY <1>7, <2>1, <2>2, <2>3 DEF SnapshotRead, SnapshotReport, runVars
  <1>8. CASE PushEnds
    BY <1>0, <1>8 DEF PushEnds, runVars, TypeOK
  <1>9. CASE CancelWatch
    BY <1>9 DEF CancelWatch, watchVars
  <1>10. CASE UNCHANGED vars
    BY <1>10 DEF vars, runVars, watchVars
  <1> QED
    BY <1>1, <1>2, <1>3, <1>4, <1>5, <1>6, <1>7, <1>8, <1>9, <1>10 DEF Next, StepLoop, Watcher

\* The inductive invariant.
THEOREM Invariance == Spec => []IInv
  <1>1. Init => IInv
    <2> SUFFICES ASSUME Init PROVE IInv
      OBVIOUS
    <2>1. TypeOK
      <3>1. Len(steps) \in Nat
        BY StepAssumption DEF Init, RunInit
      <3>2. StepTypeOK
        <4>1. ctxDone \in BOOLEAN /\ open \in BOOLEAN
          BY DEF Init, RunInit
        <4>2. store \in Seq(EventType) /\ previous \in Nat \X Nat
          BY DEF Init, RunInit, Nobody
        <4> QED
          BY <3>1, <4>1, <4>2, StepAssumption DEF Init, RunInit, StepTypeOK
      <3>3. seen \in Seq(Nat)
        BY DEF Init
      <3> QED
        BY <3>2, <3>3, WatchAssumption DEF Init, TypeOK
    <2> QED
      BY <2>1 DEF Init, RunInit, IInv, LoopInv, LastInv
  <1>2. IInv /\ [Next]_vars => IInv'
    BY TypeStep, LastStep DEF IInv
  <1> QED
    BY <1>1, <1>2, PTL DEF Spec

\* The type invariant of the watch mode and the runner in it.
THEOREM TypeCorrect == Spec => []TypeOK
  <1>1. IInv => TypeOK
    BY DEF IInv
  <1> QED
    BY <1>1, Invariance, PTL

\* Watch does not return before the last step is over (watch.go:76-88).
THEOREM NoStepAfterReturnHolds == Spec => []NoStepAfterReturn
  <1>1. IInv => NoStepAfterReturn
    BY DEF IInv, LoopInv, LastInv, NoStepAfterReturn
  <1> QED
    BY <1>1, Invariance, PTL

\* The last report of a Watch that returned is about the whole store.
THEOREM FinalSnapshotCompleteHolds == Spec => []FinalSnapshotComplete
  <1>1. IInv => FinalSnapshotComplete
    BY DEF IInv, LastInv, FinalSnapshotComplete
  <1> QED
    BY <1>1, Invariance, PTL
-----------------------------------------------------------------------------
(* What steps leave in the store                                           *)

\* The ways an action of a step can go.
Fails == StepFails /\ (UNCHANGED store \/ \E hit \in BOOLEAN : Record(hit))

Opens == UNCHANGED <<store, at, result, sub>>

PassesUnrecorded ==
    /\ UNCHANGED store /\ StepDone
    /\ Step.kind \in {"websocket", "sse", "sleep"}
    /\ Step.kind # "sleep" => ~Step.rules

GoesOn(hit) ==
    /\ Record(hit) /\ sub' = sub + 1 /\ StepGoesOn
    /\ Step.kind \in {"produce"} \cup Streams
    /\ Step.kind = "consume" => ~hit
    /\ Step.kind = "produce" => sub + 1 # Step.count
    /\ Step.kind \in {"websocket", "sse"} => ~(Step.count > 0 /\ sub + 1 >= Step.count)

Passes(hit) ==
    /\ Record(hit) /\ StepDone
    /\ Step.kind # "sleep"
    /\ Step.kind = "produce" => sub + 1 = Step.count
    /\ Step.kind = "consume" => hit
    /\ Step.kind \in {"websocket", "sse"} /\ Step.rules =>
           hit \/ (Step.count > 0 /\ sub + 1 >= Step.count)

LEMMA StepOutcomes ==
    ASSUME StepAction
    PROVE  /\ Frame /\ result = "running"
           /\ \/ Fails \/ Opens \/ PassesUnrecorded
              \/ \E hit \in BOOLEAN : GoesOn(hit) \/ Passes(hit)
  <1> USE DEF InStep, Kinds, Streams
  <1>1. CASE Refused \/ ProduceAborted \/ ProduceBadPayload \/ StreamOpenErr \/ StreamBroken
             \/ ConsumeTimeout \/ GRPCInvokeErr \/ SleepAborted
    BY <1>1 DEF Refused, ProduceAborted, ProduceBadPayload, StreamOpenErr, StreamBroken,
                ConsumeTimeout, GRPCInvokeErr, SleepAborted, Fails
  <1>2. CASE RuleError \/ HTTPUnexpected
    BY <1>2 DEF RuleError, HTTPUnexpected, CallsHTTP, Arrives, Fails
  <1>3. CASE StreamOpen
    BY <1>3 DEF StreamOpen, Opens
  <1>4. CASE SleepDone \/ FrameTimeout
    BY <1>4 DEF SleepDone, FrameTimeout, PassesUnrecorded, Fails
  <1>5. CASE ProduceInjected \/ ProduceSent
    BY <1>5 DEF ProduceInjected, ProduceSent, ProducedOne, GoesOn, Passes
  <1>6. CASE ConsumeMatch \/ ConsumeNoMatch
    BY <1>6 DEF ConsumeMatch, ConsumeNoMatch, Arrives, GoesOn, Passes
  <1>7. CASE FrameMatch \/ FrameNoMatch
    BY <1>7 DEF FrameMatch, FrameNoMatch, Arrives, GoesOn, Passes
  <1>8. CASE HTTPInjected \/ HTTPTransportErr \/ HTTPOk
    BY <1>8 DEF HTTPInjected, HTTPTransportErr, HTTPOk, CallsHTTP, Passes
  <1>9. CASE \E meets \in BOOLEAN : GRPCResponse(meets)
    BY <1>9 DEF GRPCResponse, Fails, Passes
  <1> QED
    BY <1>1, <1>2, <1>3, <1>4, <1>5, <1>6, <1>7, <1>8, <1>9 DEF StepAction

LEMMA EventsFinite ==
    ASSUME TypeOK, NEW n \in Nat
    PROVE  /\ IsFiniteSet(EventsOf(n)) /\ Cardinality(EventsOf(n)) \in Nat
           /\ EventsOf(n) \subseteq 1..Len(store) /\ Len(store) \in Nat
           /\ Len(store) + 1 \notin EventsOf(n)
  <1>1. Len(store) \in Nat /\ EventsOf(n) \subseteq 1..Len(store)
    BY DEF TypeOK, StepTypeOK, EventsOf
  <1>2. IsFiniteSet(1..Len(store))
    BY <1>1, FS_Interval
  <1>3. IsFiniteSet(EventsOf(n))
    BY <1>1, <1>2, FS_Subset
  <1> QED
    BY <1>1, <1>3, FS_CardinalityType

\* Recording adds one event of the current step and moves no other.
LEMMA RecordEvents ==
    ASSUME TypeOK, Frame, NEW hit \in BOOLEAN, Record(hit), NEW n \in Nat
    PROVE  /\ EventsOf(n)' = IF n = at THEN EventsOf(n) \cup {Len(store) + 1} ELSE EventsOf(n)
           /\ Len(store') = Len(store) + 1
           /\ store'[Len(store) + 1] = [iter |-> iter, step |-> at, hit |-> hit]
           /\ \A i \in 1..Len(store) : store'[i] = store[i]
           /\ Cardinality(EventsOf(n) \cup {Len(store) + 1}) = Cardinality(EventsOf(n)) + 1
  <1> DEFINE e == [iter |-> iter, step |-> at, hit |-> hit]
             k == Len(store)
  <1>1. e.iter = iter /\ e.step = at
    OBVIOUS
  <1>2. store' = Append(store, e) /\ store \in Seq(EventType)
    BY DEF Record, TypeOK, StepTypeOK
  <1> HIDE DEF e
  <1>3. k \in Nat /\ Len(store') = k + 1 /\ store'[k + 1] = e /\ \A i \in 1..k : store'[i] = store[i]
    BY <1>2
  <1>4. EventsOf(n)' = {i \in 1..(k + 1) : store'[i].iter = iter /\ store'[i].step = n}
    BY <1>3 DEF EventsOf, Frame
  <1>5. EventsOf(n) = {i \in 1..k : store[i].iter = iter /\ store[i].step = n}
    BY DEF EventsOf
  <1> HIDE DEF k
  <1>6. EventsOf(n)' = IF n = at THEN EventsOf(n) \cup {k + 1} ELSE EventsOf(n)
    BY <1>1, <1>3, <1>4, <1>5
  <1> USE DEF k
  <1>7. Cardinality(EventsOf(n) \cup {k + 1}) = Cardinality(EventsOf(n)) + 1
    BY EventsFinite, FS_AddElement
  <1> QED
    BY <1>3, <1>6, <1>7 DEF e

LEMMA SameEvents ==
    ASSUME Frame, UNCHANGED store, NEW n \in Nat
    PROVE  EventsOf(n)' = EventsOf(n)
  BY DEF Frame, EventsOf

\* The evidence of a step lasts while others write.
LEMMA EvidenceStays ==
    ASSUME TypeOK, Frame, NEW n \in Nat, Evidence(n),
           UNCHANGED store \/ (n # at /\ \E hit \in BOOLEAN : Record(hit))
    PROVE  Evidence(n)'
  <1>1. EventsOf(n)' = EventsOf(n) /\ \A i \in EventsOf(n) : store'[i] = store[i]
    BY SameEvents, RecordEvents, EventsFinite
  <1>2. {i \in EventsOf(n)' : store'[i].hit} = {i \in EventsOf(n) : store[i].hit}
    BY <1>1
  <1>3. steps' = steps
    BY DEF Frame
  <1> QED
    BY <1>1, <1>2, <1>3 DEF Evidence

LEMMA StoreType ==
    ASSUME TypeOK
    PROVE  /\ at \in Nat /\ iter \in Nat /\ sub \in Nat /\ Len(store) \in Nat
           /\ \A i \in 1..Len(store) : store[i].iter \in Nat /\ store[i].step \in Nat
  <1>1. at \in Nat /\ iter \in Nat /\ sub \in Nat
    BY StepAssumption, StepListType DEF TypeOK, StepTypeOK
  <1>2. store \in Seq(EventType)
    BY DEF TypeOK, StepTypeOK
  <1>3. Len(store) \in Nat /\ \A i \in 1..Len(store) : store[i] \in EventType
    BY <1>2
  <1> QED
    BY <1>1, <1>3 DEF EventType

LEMMA WrittenStays ==
    ASSUME TypeOK, WrittenInOrder, Frame, at' \in Nat, at <= at',
           UNCHANGED store \/ \E hit \in BOOLEAN : Record(hit)
    PROVE  WrittenInOrder'
  <1>1. at \in Nat /\ iter \in Nat /\ Len(store) \in Nat
        /\ \A i \in 1..Len(store) : store[i].iter \in Nat /\ store[i].step \in Nat
    BY StoreType
  <1>2. CASE UNCHANGED store
    BY <1>1, <1>2 DEF WrittenInOrder, Frame
  <1>3. CASE \E hit \in BOOLEAN : Record(hit)
    <2>1. PICK hit \in BOOLEAN : Record(hit)
      BY <1>3
    <2>2. /\ Len(store') = Len(store) + 1
          /\ store'[Len(store) + 1] = [iter |-> iter, step |-> at, hit |-> hit]
          /\ \A i \in 1..Len(store) : store'[i] = store[i]
      BY <1>1, <2>1, RecordEvents
    <2>3. iter' = iter
      BY DEF Frame
    <2>4. ASSUME NEW i \in 1..Len(store')
          PROVE  store'[i].iter <= iter' /\ (store'[i].iter = iter' => store'[i].step <= at')
      <3>1. CASE i = Len(store) + 1
        BY <1>1, <2>2, <2>3, <3>1
      <3>2. CASE i # Len(store) + 1
        <4>1. i \in 1..Len(store) /\ store'[i] = store[i]
          BY <1>1, <2>2, <3>2
        <4> QED
          BY <1>1, <2>3, <4>1 DEF WrittenInOrder
      <3> QED
        BY <3>1, <3>2
    <2> QED
      BY <2>4 DEF WrittenInOrder
  <1> QED
    BY <1>2, <1>3

\* The step is over: its evidence is there, and the next has written nothing.
LEMMA DoneInv ==
    ASSUME TypeOK, EvidenceInv, Frame, result = "running", StepDone,
           UNCHANGED store \/ \E hit \in BOOLEAN : Record(hit),
           \A n \in Nat : n = at => Evidence(n)'
    PROVE  EvidenceInv'
  <1>1. /\ Len(steps) \in Nat /\ at \in 1..Len(steps) /\ iter \in Nat /\ iter > 0
        /\ steps' = steps /\ iter' = iter
    BY StepListType, StepAssumption DEF EvidenceInv, TypeOK, StepTypeOK, Frame
  <1>2. at' \in 1..Len(steps) /\ at <= at' /\ sub' = 0
    BY <1>1 DEF StepDone
  <1>3. WrittenInOrder'
    BY <1>1, <1>2, WrittenStays DEF EvidenceInv
  <1>4. \A n \in 1..Len(steps) : n < at => Evidence(n)'
    BY <1>1, EvidenceStays DEF EvidenceInv, PassedStepsLeftEvidence, Passed
  <1>5. PassedStepsLeftEvidence'
    BY <1>1, <1>4 DEF PassedStepsLeftEvidence, Passed, StepDone
  <1>6. ASSUME result' = "running"
        PROVE  StepInProgress'
    <2>1. at' = at + 1
      BY <1>6 DEF StepDone
    <2>2. at' \in Nat /\ at' # at
      BY <1>1, <2>1
    <2>3. EventsOf(at') = {}
      BY <1>1, <2>1, StoreType DEF EventsOf, EvidenceInv, WrittenInOrder
    <2>4. ASSUME NEW n \in Nat, n # at
          PROVE  EventsOf(n)' = EventsOf(n)
      BY <2>4, SameEvents, RecordEvents
    <2>5. {i \in 1..Len(store') : store'[i].iter = iter' /\ store'[i].step = at'} = {}
      BY <2>2, <2>3, <2>4 DEF EventsOf
    <2>6. Cardinality({}) = 0
      BY FS_EmptySet
    <2> QED
      BY <1>2, <2>5, <2>6 DEF StepInProgress, EventsOf
  <1>7. result' # "running" => sub' = 0
    BY <1>2
  <1> QED
    BY <1>1, <1>2, <1>3, <1>5, <1>6 DEF EvidenceInv

\* What the running step sees of an event it records.
LEMMA RecordedNow ==
    ASSUME TypeOK, Frame, NEW hit \in BOOLEAN, Record(hit)
    PROVE  LET mine == EventsOf(at) \cup {Len(store) + 1}
           IN  /\ at \in Nat /\ \A n \in Nat : n = at => EventsOf(n)' = mine
               /\ Cardinality(mine) = Cardinality(EventsOf(at)) + 1
               /\ store'[Len(store) + 1].hit = hit
               /\ \A i \in EventsOf(at) : store'[i] = store[i]
  <1>1. at \in Nat
    BY StoreType
  <1>2. /\ \A n \in Nat : n = at => EventsOf(n)' = EventsOf(n) \cup {Len(store) + 1}
        /\ Cardinality(EventsOf(at) \cup {Len(store) + 1}) = Cardinality(EventsOf(at)) + 1
        /\ store'[Len(store) + 1] = [iter |-> iter, step |-> at, hit |-> hit]
        /\ \A i \in 1..Len(store) : store'[i] = store[i]
    BY <1>1, RecordEvents
  <1>3. EventsOf(at) \subseteq 1..Len(store)
    BY <1>1, EventsFinite
  <1> QED
    BY <1>1, <1>2, <1>3

LEMMA StepActionEvidence ==
    ASSUME TypeOK, EvidenceInv, StepAction
    PROVE  EvidenceInv'
  <1>1. Frame /\ result = "running"
    BY StepOutcomes
  <1>2. /\ Len(steps) \in Nat /\ at \in 1..Len(steps) /\ iter \in Nat /\ iter > 0
        /\ steps' = steps /\ iter' = iter /\ StepInProgress /\ sub \in Nat
        /\ Step \in StepType /\ steps[at] = Step
    BY <1>1, StepListType, StepAssumption DEF EvidenceInv, TypeOK, StepTypeOK, Frame, Step
  <1>3. \A n \in 1..Len(steps) : n < at => Evidence(n)
    BY <1>2 DEF EvidenceInv, PassedStepsLeftEvidence, Passed
  <1>4. CASE Fails
    <2>1. at' = at /\ result' = "error" /\ sub' = 0
      BY <1>4 DEF Fails, StepFails
    <2>2. WrittenInOrder'
      BY <1>1, <1>2, <1>4, <2>1, WrittenStays DEF Fails, EvidenceInv
    <2>3. \A n \in 1..Len(steps) : n < at => Evidence(n)'
      BY <1>1, <1>2, <1>3, <1>4, EvidenceStays DEF Fails
    <2>4. PassedStepsLeftEvidence'
      BY <1>2, <2>1, <2>3 DEF PassedStepsLeftEvidence, Passed
    <2> QED
      BY <1>2, <2>1, <2>2, <2>4 DEF EvidenceInv
  <1>5. CASE Opens
    <2>1. UNCHANGED <<store, at, result, sub, iter, steps>>
      BY <1>1, <1>5 DEF Opens, Frame
    <2>2. WrittenInOrder'
      BY <2>1 DEF EvidenceInv, WrittenInOrder
    <2>3. StepInProgress'
      BY <1>2, <2>1 DEF StepInProgress, EventsOf, Step
    <2>4. \A n \in 1..Len(steps) : n < at => Evidence(n)'
      BY <1>1, <1>2, <1>3, <2>1, EvidenceStays
    <2>5. PassedStepsLeftEvidence'
      BY <1>1, <1>2, <2>1, <2>4 DEF PassedStepsLeftEvidence, Passed
    <2> QED
      BY <1>1, <1>2, <2>1, <2>2, <2>3, <2>5 DEF EvidenceInv
  <1>6. CASE PassesUnrecorded
    <2>1. \A n \in Nat : n = at => Evidence(n)'
      BY <1>2, <1>6 DEF PassesUnrecorded, Evidence
    <2> QED
      BY <1>1, <1>6, <2>1, DoneInv DEF PassesUnrecorded
  <1>7. ASSUME NEW hit \in BOOLEAN, Passes(hit)
        PROVE  EvidenceInv'
    <2> DEFINE mine == EventsOf(at) \cup {Len(store) + 1}
    <2>1. /\ at \in Nat /\ \A n \in Nat : n = at => EventsOf(n)' = mine
          /\ Cardinality(mine) = sub + 1
          /\ store'[Len(store) + 1].hit = hit
          /\ \A i \in EventsOf(at) : store'[i] = store[i]
      BY <1>1, <1>2, <1>7, RecordedNow DEF Passes, StepInProgress
    <2> DEFINE hits == {i \in mine : store'[i].hit}
    <2>2. Step.kind = "consume" => Cardinality(hits) = 1
      <3>1. Step.kind = "consume" => hits = {Len(store) + 1}
        BY <1>2, <1>7, <2>1 DEF Passes, StepInProgress
      <3> QED
        BY <3>1, FS_Singleton
    <2>3. Step.kind \in {"websocket", "sse"} /\ Step.rules =>
              hits # {} \/ (Step.count > 0 /\ Cardinality(mine) = Step.count)
      <3>1. hit => Len(store) + 1 \in hits
        BY <2>1
      <3>2. Step.kind \in {"websocket", "sse"} /\ Step.count > 0 /\ sub + 1 >= Step.count =>
                sub + 1 = Step.count
        BY <1>2 DEF StepInProgress, StepType
      <3> QED
        BY <1>7, <2>1, <3>1, <3>2 DEF Passes
    <2>4. Step.kind = "produce" => Cardinality(mine) = Step.count
      BY <1>7, <2>1 DEF Passes
    <2>5. Step.kind \in {"http", "grpc"} => Cardinality(mine) = 1
      BY <1>2, <2>1 DEF StepInProgress
    <2>6. \A n \in Nat : n = at => EventsOf(n)' = mine /\ {i \in EventsOf(n)' : store'[i].hit} = hits
      BY <2>1
    <2> HIDE DEF mine, hits
    <2>7. \A n \in Nat : n = at => Evidence(n)'
      BY <1>2, <1>7, <2>2, <2>3, <2>4, <2>5, <2>6 DEF Evidence, Passes
    <2> QED
      BY <1>1, <1>7, <2>7, DoneInv DEF Passes
  <1>8. ASSUME NEW hit \in BOOLEAN, GoesOn(hit)
        PROVE  EvidenceInv'
    <2> DEFINE mine == EventsOf(at) \cup {Len(store) + 1}
    <2>1. UNCHANGED <<at, result>> /\ sub' = sub + 1 /\ Record(hit)
      BY <1>8 DEF GoesOn, StepGoesOn
    <2>2. WrittenInOrder'
      BY <1>1, <1>2, <2>1, WrittenStays DEF EvidenceInv
    <2>3. \A n \in 1..Len(steps) : n < at => Evidence(n)'
      BY <1>1, <1>2, <1>3, <2>1, EvidenceStays
    <2>4. PassedStepsLeftEvidence'
      BY <1>1, <1>2, <2>1, <2>3 DEF PassedStepsLeftEvidence, Passed
    <2>5. /\ at \in Nat /\ \A n \in Nat : n = at => EventsOf(n)' = mine
          /\ Cardinality(mine) = sub + 1
          /\ store'[Len(store) + 1].hit = hit
          /\ \A i \in EventsOf(at) : store'[i] = store[i]
      BY <1>1, <1>2, <2>1, RecordedNow DEF StepInProgress
    <2>6. {i \in 1..Len(store') : store'[i].iter = iter' /\ store'[i].step = at'} = mine
      BY <2>1, <2>5 DEF EventsOf
    <2>7. Step.kind = "consume" => \A i \in mine : ~store'[i].hit
      BY <1>2, <1>8, <2>5 DEF GoesOn, StepInProgress
    <2>8. Step.kind \in {"produce", "websocket", "sse"} /\ Step.count > 0 => sub + 1 < Step.count
      BY <1>2, <1>8 DEF GoesOn, StepInProgress, StepType
    <2>9. Step.kind \notin {"http", "grpc", "sleep"}
      BY <1>8 DEF GoesOn, Streams
    <2> HIDE DEF mine
    <2>10. StepInProgress'
      BY <1>2, <2>1, <2>5, <2>6, <2>7, <2>8, <2>9 DEF StepInProgress, EventsOf, Step
    <2> QED
      BY <1>1, <1>2, <2>1, <2>2, <2>4, <2>10 DEF EvidenceInv
  <1> QED
    BY <1>4, <1>5, <1>6, <1>7, <1>8, StepOutcomes

\* Run is called: nobody has written in the new iteration.
LEMMA BeginRunEvidence ==
    ASSUME TypeOK, EvidenceInv, result # "running", BeginRun
    PROVE  EvidenceInv'
  <1>1. /\ iter' = iter + 1 /\ at' = 1 /\ result' = "running" /\ UNCHANGED <<steps, sub, store>>
        /\ sub = 0 /\ Len(steps) \in Nat /\ Len(steps) > 0
    BY StepListType DEF BeginRun, EvidenceInv
  <1>2. \A i \in 1..Len(store) : store[i].iter < iter'
    BY <1>1, StoreType DEF EvidenceInv, WrittenInOrder
  <1>3. WrittenInOrder'
    BY <1>1, <1>2, StoreType DEF WrittenInOrder
  <1>4. {i \in 1..Len(store') : store'[i].iter = iter' /\ store'[i].step = at'} = {}
    BY <1>1, <1>2, StoreType
  <1>5. StepInProgress'
    BY <1>1, <1>4, FS_EmptySet DEF StepInProgress, EventsOf
  <1>6. PassedStepsLeftEvidence'
    BY <1>1 DEF PassedStepsLeftEvidence, Passed
  <1> QED
    BY <1>1, <1>3, <1>5, <1>6, StoreType DEF EvidenceInv

\* The rest of Watch and its loop only look at the runner.
LEMMA EvidenceSame ==
    ASSUME TypeOK, EvidenceInv, UNCHANGED <<steps, iter, at, result, sub, store>>
    PROVE  EvidenceInv'
  <1>1. WrittenInOrder'
    BY DEF EvidenceInv, WrittenInOrder
  <1>2. StepInProgress <=> StepInProgress'
    BY DEF StepInProgress, EventsOf, Step
  <1>3. PassedStepsLeftEvidence'
    <2>1. ASSUME NEW n \in Nat, Evidence(n)
          PROVE  Evidence(n)'
      <3>1. EventsOf(n)' = EventsOf(n)
        BY DEF EventsOf
      <3> QED
        BY <2>1, <3>1 DEF Evidence
    <2>2. Len(steps) \in Nat
      BY StepListType
    <2> QED
      BY <2>1, <2>2 DEF EvidenceInv, PassedStepsLeftEvidence, Passed
  <1> QED
    BY <1>1, <1>2, <1>3 DEF EvidenceInv

\* What Watch and its loop do to the runner besides steps.
LEMMA RunnerSteps ==
    ASSUME IInv, [Next]_vars
    PROVE  \/ StepAction
           \/ BeginRun /\ result # "running"
           \/ UNCHANGED <<steps, iter, at, result, sub, store, previous>>
  <1>1. CASE StepLoop
    BY <1>1 DEF StepLoop, LoopIterate, LoopStep, LoopRunReturns, LoopGapEnds, LoopExit, runVars,
                IInv, LoopInv
  <1>2. CASE Watcher
    BY <1>2 DEF Watcher, SelectDone, Drain, SelectLoopEnded, SelectTick, SnapshotRead,
                SnapshotReport, PushEnds, runVars
  <1>3. CASE CancelWatch \/ UNCHANGED vars
    BY <1>3 DEF CancelWatch, vars, runVars
  <1> QED
    BY <1>1, <1>2, <1>3 DEF Next

LEMMA EvidenceInit == Init => EvidenceInv
  <1> SUFFICES ASSUME Init PROVE EvidenceInv
    OBVIOUS
  <1>1. store = <<>> /\ iter = 0 /\ result = "idle" /\ sub = 0
    BY DEF Init, RunInit
  <1> QED
    BY <1>1 DEF EvidenceInv, WrittenInOrder, PassedStepsLeftEvidence, Passed

\* Whatever a step does, it does between recording and the end of Run: steps
\* that Run went past have left their events, matches, responses or records.
THEOREM EvidenceInvariance == Spec => []EvidenceInv
  <1>1. IInv /\ EvidenceInv /\ [Next]_vars => EvidenceInv'
    BY RunnerSteps, StepActionEvidence, BeginRunEvidence, EvidenceSame DEF IInv
  <1> QED
    BY <1>1, EvidenceInit, Invariance, PTL DEF Spec

\* What checks can rely on: a passed step left its evidence in the store
\* (runner.go: a consume never passes on a timeout, a produce leaves one event
\* per record, http and grpc one per call).
THEOREM PassedStepsLeftEvidenceHolds == Spec => []PassedStepsLeftEvidence
  <1>1. EvidenceInv => PassedStepsLeftEvidence
    BY DEF EvidenceInv
  <1> QED
    BY <1>1, EvidenceInvariance, PTL
-----------------------------------------------------------------------------
(* ${previous.*}                                                           *)

\* An action that records an answer fills the namespace, and no other does.
LEMMA StepAnswers ==
    ASSUME StepAction
    PROVE  \/ UNCHANGED <<store, previous>>
           \/ Record(FALSE) /\ UNCHANGED previous
           \/ Record(TRUE) /\ RecordPrevious
  <1>1. CASE Refused \/ ProduceAborted \/ ProduceBadPayload \/ StreamOpen \/ StreamOpenErr
             \/ StreamBroken \/ ConsumeTimeout \/ FrameTimeout \/ GRPCInvokeErr
             \/ SleepDone \/ SleepAborted
    BY <1>1 DEF Refused, ProduceAborted, ProduceBadPayload, StreamOpen, StreamOpenErr,
                StreamBroken, ConsumeTimeout, FrameTimeout, GRPCInvokeErr, SleepDone, SleepAborted
  <1>2. CASE ProduceInjected \/ ProduceSent
    BY <1>2 DEF ProduceInjected, ProduceSent
  <1>3. CASE RuleError \/ ConsumeMatch \/ ConsumeNoMatch \/ FrameMatch \/ FrameNoMatch
    BY <1>3 DEF RuleError, ConsumeMatch, ConsumeNoMatch, FrameMatch, FrameNoMatch, Arrives
  <1>4. CASE HTTPInjected \/ HTTPTransportErr \/ HTTPOk \/ HTTPUnexpected
             \/ \E meets \in BOOLEAN : GRPCResponse(meets)
    BY <1>4 DEF HTTPInjected, HTTPTransportErr, HTTPOk, HTTPUnexpected, GRPCResponse
  <1> QED
    BY <1>1, <1>2, <1>3, <1>4 DEF StepAction

LEMMA PreviousNext ==
    ASSUME IInv, PreviousIsLatestAnswer, [Next]_vars
    PROVE  PreviousIsLatestAnswer'
  <1>1. TypeOK
    BY DEF IInv
  <1>2. CASE UNCHANGED <<store, previous>>
    BY <1>2 DEF PreviousIsLatestAnswer
  <1>3. ASSUME NEW hit \in BOOLEAN, Frame, Record(hit)
        PROVE  /\ Len(store) \in Nat /\ Len(store') = Len(store) + 1
               /\ store'[Len(store) + 1] = [iter |-> iter, step |-> at, hit |-> hit]
               /\ \A i \in 1..Len(store) : store'[i] = store[i]
    BY <1>1, <1>3, StoreType, RecordEvents
  <1> DEFINE answers == {i \in 1..Len(store) : store[i].hit}
             later   == {i \in 1..Len(store') : store'[i].hit}
             k       == Len(store)
  <1>4. CASE Frame /\ Record(FALSE) /\ UNCHANGED previous
    <2>0. /\ k \in Nat /\ Len(store') = k + 1 /\ ~store'[k + 1].hit
          /\ \A i \in 1..k : store'[i] = store[i]
      <3>1. PICK hit \in BOOLEAN : hit = FALSE
        OBVIOUS
      <3>2. Record(hit) /\ Frame
        BY <1>4, <3>1, Zenon
      <3>3. /\ k \in Nat /\ Len(store') = k + 1 /\ \A i \in 1..k : store'[i] = store[i]
            /\ store'[k + 1] = [iter |-> iter, step |-> at, hit |-> hit]
        BY <1>3, <3>2, Zenon
      <3>4. store'[k + 1].hit = hit
        BY <3>3
      <3> QED
        BY <3>1, <3>3, <3>4, Zenon
    <2>1. later = answers /\ \A i \in answers : store'[i] = store[i]
      BY <2>0
    <2> QED
      BY <1>4, <2>1 DEF PreviousIsLatestAnswer
  <1>5. CASE Frame /\ Record(TRUE) /\ RecordPrevious
    <2>0. /\ k \in Nat /\ Len(store') = k + 1 /\ store'[k + 1].hit
          /\ store'[k + 1].iter = iter /\ store'[k + 1].step = at
      <3>1. PICK hit \in BOOLEAN : hit = TRUE
        OBVIOUS
      <3>2. Record(hit) /\ Frame
        BY <1>5, <3>1, Zenon
      <3>3. /\ k \in Nat /\ Len(store') = k + 1
            /\ store'[k + 1] = [iter |-> iter, step |-> at, hit |-> hit]
        BY <1>3, <3>2, Zenon
      <3>4. store'[k + 1].hit = hit /\ store'[k + 1].iter = iter /\ store'[k + 1].step = at
        BY <3>3
      <3> QED
        BY <3>1, <3>3, <3>4, Zenon
    <2>1. k \in Nat /\ k + 1 \in later /\ \A j \in later : j <= k + 1
      BY <2>0
    <2>2. previous' = <<store'[k + 1].iter, store'[k + 1].step>>
      BY <1>5, <2>0 DEF RecordPrevious
    <2> HIDE DEF k
    <2> QED
      BY <2>1, <2>2 DEF PreviousIsLatestAnswer
  <1>6. CASE StepAction
    BY <1>2, <1>4, <1>5, <1>6, StepOutcomes, StepAnswers
  <1>7. CASE BeginRun
    BY <1>2, <1>7 DEF BeginRun
  <1> QED
    BY <1>2, <1>6, <1>7, RunnerSteps

\* ${previous.*} is what the latest answer in the store said: no failure, no
\* frame without a match and no missed expectation ever replaces it.
THEOREM PreviousIsLatestAnswerHolds == Spec => []PreviousIsLatestAnswer
  <1>1. Init => PreviousIsLatestAnswer
    <2> SUFFICES ASSUME Init PROVE PreviousIsLatestAnswer
      OBVIOUS
    <2>1. {i \in 1..Len(store) : store[i].hit} = {}
      BY DEF Init, RunInit
    <2> QED
      BY <2>1 DEF Init, RunInit, PreviousIsLatestAnswer
  <1>2. IInv /\ PreviousIsLatestAnswer /\ [Next]_vars => PreviousIsLatestAnswer'
    BY PreviousNext
  <1> QED
    BY <1>1, <1>2, Invariance, PTL DEF Spec
=============================================================================
