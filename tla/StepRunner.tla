----------------------------- MODULE StepRunner -----------------------------
(***************************************************************************)
(* Runner.Run of pkg/orchestrator: the steps of one scenario, executed in  *)
(* declaration order, each writing what it observed into the events store. *)
(*                                                                         *)
(* A step is a record:                                                     *)
(*   kind    what it does                                                  *)
(*   wired   its port, connector and static fields are usable              *)
(*   rules   it has match rules                (consume, websocket, sse)   *)
(*   count   records to produce / frames that end the step (0 = no bound)  *)
(*   expect  it has an expect block            (http, grpc)                *)
(*   inject  the draws that hit fail_rate: the generator is seeded from    *)
(*           the step's name in every run of the step, so the n-th record  *)
(*           of a produce step is injected in all iterations or in none,   *)
(*           and an http step only ever uses draw 1    (produce, http)     *)
(* An event keeps the iteration and step that wrote it and whether it is   *)
(* an answer (hit): a record that went to the broker, a record or frame    *)
(* that matched, a response that met expect.  Payloads, topics, rates and  *)
(* slow_mode pauses are left out: they change no control decision below.   *)
(* A timeout is one way for a waiting step to end, at any moment.          *)
(***************************************************************************)
EXTENDS Naturals, Sequences, FiniteSets

CONSTANTS
    StepLists,      \* the scenarios: non-empty sequences of steps
    MaxIterations,  \* bound: how often the step list is run
    MaxRecords      \* bound: records a consume/websocket/sse step looks at

Kinds   == {"produce", "consume", "http", "websocket", "sse", "grpc", "sleep"}
Streams == {"consume", "websocket", "sse"}

StepType == [kind : Kinds, wired : BOOLEAN, rules : BOOLEAN, count : Nat,
             expect : BOOLEAN, inject : SUBSET Nat]

ASSUME StepAssumption ==
    /\ \A list \in StepLists : list \in Seq(StepType) /\ list # <<>>
    /\ \A list \in StepLists : \A n \in 1..Len(list) :
          list[n].kind = "produce" => list[n].count > 0   \* count <= 0 means 1
    /\ MaxIterations \in Nat
    /\ MaxRecords \in Nat

VARIABLES
    steps,     \* the scenario's step list
    iter,      \* iterations begun
    at,        \* the step being executed, or that failed
    result,    \* outcome of the current or last iteration
    sub,       \* records produced / received by the current step
    open,      \* the step's subscriber or session is open
    previous,  \* who filled the ${previous.*} namespace: <<iteration, step>>
    store,     \* the events store
    ctxDone    \* the run's context is cancelled

runVars == <<steps, iter, at, result, sub, open, previous, store, ctxDone>>

EventType == [iter : Nat, step : Nat, hit : BOOLEAN]

Nobody == <<0, 0>>
Step   == steps[at]

InStep(kinds) == result = "running" /\ Step.kind \in kinds

StepTypeOK ==
    /\ steps \in StepLists
    /\ iter \in 0..MaxIterations
    /\ at \in 0..Len(steps)
    /\ result \in {"idle", "running", "ok", "error"}
    /\ sub \in Nat
    /\ open \in BOOLEAN /\ ctxDone \in BOOLEAN
    /\ previous \in Nat \X Nat
    /\ store \in Seq(EventType)

RunInit ==
    /\ steps \in StepLists
    /\ iter = 0 /\ at = 0 /\ result = "idle"
    /\ sub = 0 /\ open = FALSE
    /\ previous = Nobody
    /\ store = <<>>
    /\ ctxDone = FALSE

-----------------------------------------------------------------------------
(* Building blocks                                                         *)

Record(hit) == store' = Append(store, [iter |-> iter, step |-> at, hit |-> hit])

RecordPrevious == previous' = <<iter, at>>

\* A plausible bug: the loop over the steps runs one too far.
StepDoneOffByOne ==
    /\ IF at <= Len(steps)
         THEN at' = at + 1 /\ UNCHANGED result
         ELSE at' = at /\ result' = "ok"
    /\ sub' = 0 /\ open' = FALSE

\* runStep returned nil: on to the next step, or Run returns nil.
StepDone ==
    /\ IF at < Len(steps)
         THEN at' = at + 1 /\ UNCHANGED result
         ELSE at' = at /\ result' = "ok"
    /\ sub' = 0 /\ open' = FALSE

\* runStep returned an error: Run returns it, the rest is not run.
StepFails ==
    /\ result' = "error"
    /\ sub' = 0 /\ open' = FALSE
    /\ UNCHANGED at

StepGoesOn == UNCHANGED <<at, result, open>>

Frame == UNCHANGED <<steps, iter, ctxDone>>

\* Run is called.
BeginRun ==
    /\ iter < MaxIterations
    /\ iter' = iter + 1 /\ at' = 1 /\ result' = "running"
    /\ UNCHANGED <<steps, sub, open, previous, store, ctxDone>>

\* A step that cannot start: no client for its port, no connector, a fail_mode,
\* rate, duration, path or rule that is not accepted.
Refused ==
    /\ InStep(Kinds) /\ sub = 0 /\ ~open /\ ~Step.wired
    /\ StepFails
    /\ Frame /\ UNCHANGED <<previous, store>>

-----------------------------------------------------------------------------
(* produce                                                                 *)

\* One more record is handled; the step ends with the last.
ProducedOne ==
    IF sub + 1 = Step.count
      THEN StepDone
      ELSE sub' = sub + 1 /\ StepGoesOn

\* The loop's ctx check, or the wait between two records.
ProduceAborted ==
    /\ InStep({"produce"}) /\ Step.wired /\ ctxDone
    /\ StepFails
    /\ Frame /\ UNCHANGED <<previous, store>>

\* The payload cannot be resolved or encoded.
ProduceBadPayload ==
    /\ InStep({"produce"}) /\ Step.wired
    /\ StepFails
    /\ Frame /\ UNCHANGED <<previous, store>>

\* fail_rate hits: ProducedFailed is recorded, ${previous.*} is left alone.
ProduceInjected ==
    /\ InStep({"produce"}) /\ Step.wired /\ sub + 1 \in Step.inject
    /\ Record(FALSE)
    /\ ProducedOne
    /\ Frame /\ UNCHANGED previous

\* Kafka.Produce, whether it failed or not, is recorded and fills ${previous.*}.
ProduceSent ==
    /\ InStep({"produce"}) /\ Step.wired /\ sub + 1 \notin Step.inject
    /\ Record(TRUE)
    /\ RecordPrevious
    /\ ProducedOne
    /\ Frame

-----------------------------------------------------------------------------
(* consume, websocket, sse                                                 *)

\* Subscribe, or open the session (and send the first frame, compile rules).
StreamOpen ==
    /\ InStep(Streams) /\ Step.wired /\ ~open
    /\ open' = TRUE
    /\ Frame /\ UNCHANGED <<at, result, sub, previous, store>>

StreamOpenErr ==
    /\ InStep(Streams) /\ Step.wired /\ ~open
    /\ StepFails
    /\ Frame /\ UNCHANGED <<previous, store>>

\* A record arrives and is recorded, before any rule looks at it.
Arrives(hit) ==
    /\ InStep(Streams) /\ open
    /\ sub < MaxRecords
    /\ Record(hit)
    /\ Frame

\* consume: no rules, the first record ends the step; with rules, the first match.
ConsumeMatch ==
    /\ InStep({"consume"})
    /\ Arrives(TRUE)
    /\ RecordPrevious
    /\ StepDone

ConsumeNoMatch ==
    /\ InStep({"consume"}) /\ Step.rules
    /\ Arrives(FALSE)
    /\ sub' = sub + 1 /\ StepGoesOn
    /\ UNCHANGED previous

\* A rule cannot be evaluated on the record, which is already recorded.
RuleError ==
    /\ InStep(Streams) /\ Step.rules
    /\ Arrives(FALSE)
    /\ StepFails
    /\ UNCHANGED previous

\* A plausible bug: running out of time without rules counts as done.
ConsumeTimeoutPasses ==
    /\ InStep({"consume"}) /\ open
    /\ StepDone
    /\ Frame /\ UNCHANGED <<previous, store>>

\* DeadlineExceeded is an error, with or without rules.
ConsumeTimeout ==
    /\ InStep({"consume"}) /\ open
    /\ StepFails
    /\ Frame /\ UNCHANGED <<previous, store>>

\* websocket and sse: with rules, the first match ends the step.
FrameMatch ==
    /\ InStep({"websocket", "sse"}) /\ Step.rules
    /\ Arrives(TRUE)
    /\ RecordPrevious
    /\ StepDone

\* Any other frame: the step ends if it was the count-th, match or no match;
\* ${previous.*} is not filled.
FrameNoMatch ==
    /\ InStep({"websocket", "sse"})
    /\ Arrives(FALSE)
    /\ IF Step.count > 0 /\ sub + 1 >= Step.count
         THEN StepDone
         ELSE sub' = sub + 1 /\ StepGoesOn
    /\ UNCHANGED previous

\* Timeout: an error with rules, success without.
FrameTimeout ==
    /\ InStep({"websocket", "sse"}) /\ open
    /\ IF Step.rules THEN StepFails ELSE StepDone
    /\ Frame /\ UNCHANGED <<previous, store>>

\* A broken connection or broker, or the context is cancelled.
StreamBroken ==
    /\ InStep(Streams) /\ open
    /\ StepFails
    /\ Frame /\ UNCHANGED <<previous, store>>

-----------------------------------------------------------------------------
(* http, grpc, sleep                                                       *)

\* fail_rate hits: a synthetic status is recorded and the step passes.
HTTPInjected ==
    /\ InStep({"http"}) /\ Step.wired /\ 1 \in Step.inject
    /\ Record(FALSE)
    /\ StepDone
    /\ Frame /\ UNCHANGED previous

CallsHTTP == InStep({"http"}) /\ Step.wired /\ 1 \notin Step.inject

\* No response (a cancelled context included): recorded, and the step passes.
HTTPTransportErr ==
    /\ CallsHTTP
    /\ Record(FALSE)
    /\ StepDone
    /\ Frame /\ UNCHANGED previous

\* A plausible bug: ${previous.*} is filled before expect is checked.
HTTPBeforeExpect ==
    /\ CallsHTTP /\ Step.expect
    /\ Record(FALSE)
    /\ RecordPrevious
    /\ StepFails
    /\ Frame

\* A response that meets expect, or there is none.
HTTPOk ==
    /\ CallsHTTP
    /\ Record(TRUE)
    /\ RecordPrevious
    /\ StepDone
    /\ Frame

\* A response that does not meet expect: recorded, ${previous.*} left alone.
HTTPUnexpected ==
    /\ CallsHTTP /\ Step.expect
    /\ Record(FALSE)
    /\ StepFails
    /\ Frame /\ UNCHANGED previous

\* The call itself failed: nothing is recorded.
GRPCInvokeErr ==
    /\ InStep({"grpc"}) /\ Step.wired
    /\ StepFails
    /\ Frame /\ UNCHANGED <<previous, store>>

\* A response with any code is recorded, fills ${previous.*}, then meets expect
\* or does not.
GRPCResponse(meets) ==
    /\ InStep({"grpc"}) /\ Step.wired
    /\ Record(TRUE)
    /\ RecordPrevious
    /\ IF Step.expect /\ ~meets THEN StepFails ELSE StepDone
    /\ Frame

SleepDone ==
    /\ InStep({"sleep"}) /\ Step.wired
    /\ StepDone
    /\ Frame /\ UNCHANGED <<previous, store>>

SleepAborted ==
    /\ InStep({"sleep"}) /\ Step.wired /\ ctxDone
    /\ StepFails
    /\ Frame /\ UNCHANGED <<previous, store>>

-----------------------------------------------------------------------------
StepAction ==
    \/ Refused
    \/ ProduceAborted \/ ProduceBadPayload \/ ProduceInjected \/ ProduceSent
    \/ StreamOpen \/ StreamOpenErr \/ RuleError \/ StreamBroken
    \/ ConsumeMatch \/ ConsumeNoMatch \/ ConsumeTimeout
    \/ FrameMatch \/ FrameNoMatch \/ FrameTimeout
    \/ HTTPInjected \/ HTTPTransportErr \/ HTTPOk \/ HTTPUnexpected
    \/ GRPCInvokeErr \/ \E meets \in BOOLEAN : GRPCResponse(meets)
    \/ SleepDone \/ SleepAborted

\* How a step reacts to a cancelled context: every blocking call takes the
\* context, so each kind of step comes back.
AbortsOnCancel ==
    /\ ctxDone
    /\ \/ Refused \/ ProduceAborted
       \/ StreamOpenErr \/ StreamBroken
       \/ HTTPInjected \/ HTTPTransportErr \/ GRPCInvokeErr \/ SleepAborted

-----------------------------------------------------------------------------
(* Properties of an iteration                                              *)

\* The events of step n in the current iteration.
EventsOf(n) ==
    {i \in 1..Len(store) : store[i].iter = iter /\ store[i].step = n}

\* The evidence a step that passed has left behind.
Evidence(n) ==
    LET s    == steps[n]
        mine == EventsOf(n)
        hits == {i \in mine : store[i].hit}
    IN  CASE s.kind = "produce"                -> Cardinality(mine) = s.count
          [] s.kind = "consume"                -> Cardinality(hits) = 1
          [] s.kind \in {"websocket", "sse"}   ->
                 s.rules => hits # {} \/ (s.count > 0 /\ Cardinality(mine) = s.count)
          [] s.kind \in {"http", "grpc"}       -> Cardinality(mine) = 1
          [] OTHER                             -> TRUE

Passed(n) == iter > 0 /\ (n < at \/ (n = at /\ result = "ok"))

\* What checks can rely on: a step that Run went past left its evidence in the
\* store. A consume step passes on exactly one matching record (any record if it
\* has no rules), never on a timeout; a websocket or sse step with rules passes
\* only on a match or on count frames; produce leaves one event per record, sent,
\* failed or injected; http and grpc leave one event for their call.
PassedStepsLeftEvidence == \A n \in 1..Len(steps) : Passed(n) => Evidence(n)

\* ${previous.*} is what the latest answer in the store said: an injected
\* failure, a call without response, a response that missed expect and a frame
\* that did not match never replace it, a matching record, a produced record and
\* a grpc response always do.
PreviousIsLatestAnswer ==
    LET answers == {i \in 1..Len(store) : store[i].hit}
    IN  IF answers = {} THEN previous = Nobody
        ELSE \E i \in answers :
                /\ \A j \in answers : j <= i
                /\ previous = <<store[i].iter, store[i].step>>

\* Why steps leave their evidence: events are written by the current step of the
\* current iteration only, and sub counts what that step has written so far.
WrittenInOrder == \A i \in 1..Len(store) :
    store[i].iter <= iter /\ (store[i].iter = iter => store[i].step <= at)

StepInProgress ==
    /\ Cardinality(EventsOf(at)) = sub
    /\ Step.kind \in {"http", "grpc", "sleep"} => sub = 0
    /\ Step.kind \in {"produce", "websocket", "sse"} /\ Step.count > 0 => sub < Step.count
    /\ Step.kind = "consume" => \A i \in EventsOf(at) : ~store[i].hit

EvidenceInv ==
    /\ WrittenInOrder
    /\ iter > 0 => at \in 1..Len(steps)
    /\ IF result = "running" THEN iter > 0 /\ StepInProgress ELSE sub = 0
    /\ PassedStepsLeftEvidence
=============================================================================
