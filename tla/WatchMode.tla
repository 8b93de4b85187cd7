----------------------------- MODULE WatchMode ------------------------------
(***************************************************************************)
(* Runner.Watch (pkg/orchestrator/watch.go) around Runner.Run: two         *)
(* goroutines over one events store.                                       *)
(*                                                                         *)
(*   loopPc  runScenarioLoop: runs the step list again and again, swallows *)
(*           its errors, sends once on stepLoopErrCh when the context ends *)
(*   pc      Watch: selects between the context, that channel and a ticker,*)
(*           and emits snapshot reports, which the worker pushes inside    *)
(*           the OnReport callback                                         *)
(*                                                                         *)
(* A snapshot reads the store once per check (again for a check with a     *)
(* window of its own) and last for the event count.  Each read sees the    *)
(* events that are there at that moment; windows only hide old events, so  *)
(* the number of events is all that is kept of a read.  NewEvaluator's     *)
(* error depends on fixed options only and never occurs.                   *)
(***************************************************************************)
EXTENDS StepRunner

CONSTANTS
    MaxTicks,   \* bound: snapshots taken because the ticker fired
    MaxReads    \* bound: reads of the store by the checks of one snapshot

ASSUME WatchAssumption == MaxTicks \in Nat /\ MaxReads \in Nat

VARIABLES
    loopPc,   \* runScenarioLoop: "check", "run", "gap", "exited"
    errCh,    \* stepLoopErrCh (capacity 1): "empty", "full", "taken"
    pc,       \* Watch: where it is
    next,     \* what follows the snapshot being taken: "select" or "return"
    seen,     \* store length at each read of the snapshot being taken, or of
              \* the last one when Watch has returned
    ticks

watchVars == <<loopPc, errCh, pc, next, seen, ticks>>
vars      == <<runVars, watchVars>>

TypeOK ==
    /\ StepTypeOK
    /\ loopPc \in {"check", "run", "gap", "exited"}
    /\ errCh \in {"empty", "full", "taken"}
    /\ pc \in {"select", "drain", "reads", "push", "returned"}
    /\ next \in {"select", "return"}
    /\ seen \in Seq(Nat)
    /\ ticks \in 0..MaxTicks

Init ==
    /\ RunInit
    /\ loopPc = "check" /\ errCh = "empty"
    /\ pc = "select" /\ next = "select"
    /\ seen = <<>>
    /\ ticks = 0

-----------------------------------------------------------------------------
(* runScenarioLoop                                                         *)

UnchangedWatch == UNCHANGED <<pc, next, seen, ticks>>

\* ctx.Err() is nil: run the steps once more.
LoopIterate ==
    /\ loopPc = "check" /\ ~ctxDone
    /\ BeginRun
    /\ loopPc' = "run"
    /\ UnchangedWatch /\ UNCHANGED errCh

\* A step of the running iteration.
LoopStep ==
    /\ loopPc = "run"
    /\ StepAction
    /\ UnchangedWatch /\ UNCHANGED <<loopPc, errCh>>

LoopStepAborts ==
    /\ loopPc = "run"
    /\ AbortsOnCancel
    /\ UnchangedWatch /\ UNCHANGED <<loopPc, errCh>>

\* Run returned; its error is dropped.
LoopRunReturns ==
    /\ loopPc = "run" /\ result # "running"
    /\ loopPc' = "gap"
    /\ UnchangedWatch /\ UNCHANGED <<errCh, runVars>>

\* LoopInterval is over.
LoopGapEnds ==
    /\ loopPc = "gap"
    /\ loopPc' = "check"
    /\ UnchangedWatch /\ UNCHANGED <<errCh, runVars>>

\* A plausible bug: the goroutine returns without sending.
LoopExitSilently ==
    /\ loopPc \in {"check", "gap"} /\ ctxDone
    /\ loopPc' = "exited"
    /\ UnchangedWatch /\ UNCHANGED <<errCh, runVars>>

\* The context is done: return ctx.Err(), which goes into the channel.
LoopExit ==
    /\ loopPc \in {"check", "gap"} /\ ctxDone
    /\ loopPc' = "exited" /\ errCh' = "full"
    /\ UnchangedWatch /\ UNCHANGED runVars

-----------------------------------------------------------------------------
(* Watch                                                                   *)

\* The worker's loop cancels the assignment.
CancelWatch ==
    /\ ~ctxDone /\ pc # "returned"
    /\ ctxDone' = TRUE
    /\ UNCHANGED <<watchVars, steps, iter, at, result, sub, open, previous, store>>

BeginSnapshot(then) ==
    /\ pc' = "reads" /\ next' = then /\ seen' = <<>>

\* A plausible bug: the final snapshot is taken without waiting for the loop.
SelectDoneWithoutDrain ==
    /\ pc = "select" /\ ctxDone
    /\ BeginSnapshot("return")
    /\ UNCHANGED <<runVars, loopPc, errCh, ticks>>

\* case <-ctx.Done(): cancel the step loop, then wait for it.
SelectDone ==
    /\ pc = "select" /\ ctxDone
    /\ pc' = "drain"
    /\ UNCHANGED <<runVars, loopPc, errCh, next, seen, ticks>>

Drain ==
    /\ pc = "drain" /\ errCh = "full"
    /\ errCh' = "taken"
    /\ BeginSnapshot("return")
    /\ UNCHANGED <<runVars, loopPc, ticks>>

\* case err := <-stepLoopErrCh
SelectLoopEnded ==
    /\ pc = "select" /\ errCh = "full"
    /\ errCh' = "taken"
    /\ BeginSnapshot("return")
    /\ UNCHANGED <<runVars, loopPc, ticks>>

\* case <-tick.C (possible also when the context is done)
SelectTick ==
    /\ pc = "select" /\ ticks < MaxTicks
    /\ ticks' = ticks + 1
    /\ BeginSnapshot("select")
    /\ UNCHANGED <<runVars, loopPc, errCh>>

\* emitWatchSnapshot evaluates one more check, over the default window or again
\* over the check's own.
SnapshotRead ==
    /\ pc = "reads" /\ Len(seen) < MaxReads
    /\ seen' = Append(seen, Len(store))
    /\ UNCHANGED <<runVars, loopPc, errCh, pc, next, ticks>>

\* All checks are evaluated; EventCount is read, the report is finalized and
\* OnReport is entered.
SnapshotReport ==
    /\ pc = "reads"
    /\ seen' = Append(seen, Len(store))
    /\ pc' = "push"
    /\ UNCHANGED <<runVars, loopPc, errCh, next, ticks>>

\* OnReport returns: the push was answered, failed, or timed out.
PushEnds ==
    /\ pc = "push"
    /\ \/ next = "return" /\ pc' = "returned" /\ UNCHANGED seen
       \/ next = "select" /\ pc' = "select" /\ seen' = <<>>
    /\ UNCHANGED <<runVars, loopPc, errCh, next, ticks>>

-----------------------------------------------------------------------------
StepLoop == LoopIterate \/ LoopStep \/ LoopRunReturns \/ LoopGapEnds \/ LoopExit

Watcher ==
    \/ SelectDone \/ Drain \/ SelectLoopEnded \/ SelectTick
    \/ SnapshotRead \/ SnapshotReport \/ PushEnds

Next == StepLoop \/ Watcher \/ CancelWatch

Spec == Init /\ [][Next]_vars

\* Fairness: both goroutines keep running; a step whose context is done comes
\* back; the push inside OnReport ends within its 10s; select does not pass over
\* a ready case forever. Nobody has to cancel, no step has to end by itself.
Fairness ==
    /\ WF_vars(LoopStepAborts)
    /\ WF_vars(LoopRunReturns) /\ WF_vars(LoopExit)
    /\ SF_vars(SelectDone) /\ SF_vars(SelectLoopEnded)
    /\ WF_vars(Drain) /\ WF_vars(SnapshotRead) /\ WF_vars(SnapshotReport) /\ WF_vars(PushEnds)

FairSpec == Spec /\ Fairness

-----------------------------------------------------------------------------
(* Properties                                                              *)

\* When Watch has returned the step loop is over: no step runs on, and none can
\* use the Kafka client that the worker closes next.
NoStepAfterReturn == pc = "returned" => loopPc = "exited" /\ result # "running"

\* A Watch that returned has handed over a last report, and it is about all that
\* happened: every one of its reads, the checks' and the count's, saw the whole
\* store, whatever the steps were doing when the cancellation came.
FinalSnapshotComplete ==
    pc = "returned" =>
        /\ seen # <<>>
        /\ \A i \in 1..Len(seen) : seen[i] = Len(store)

\* Why they hold: the loop has ended before the last snapshot begins, and with it
\* every writer of the store.
LoopInv ==
    /\ loopPc # "run" => result # "running"
    /\ errCh # "empty" => loopPc = "exited"

LastInv ==
    /\ pc \in {"select", "drain"} => next = "select"
    /\ pc = "returned" => next = "return"
    /\ pc \in {"push", "returned"} => seen # <<>>
    /\ next = "return" =>
          /\ loopPc = "exited"
          /\ \A i \in 1..Len(seen) : seen[i] = Len(store)

IInv == TypeOK /\ LoopInv /\ LastInv

\* Cancelling an assignment ends its Watch.
CancelReturns == ctxDone ~> pc = "returned"

\* The comment on runScenarioLoop: swallowed errors "are visible to checks
\* because the orchestrator records a ProducedFailed/HTTP error event".
SwallowedErrorsAreVisible ==
    result = "error" /\ ~ctxDone => EventsOf(at) # {}
=============================================================================
