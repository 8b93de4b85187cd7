---------------------------- MODULE EvalExecutor ----------------------------
(***************************************************************************)
(* eval.Executor (pkg/eval/executor.go): seed inputs, wait for the agent's *)
(* answer to each, let the judge score the pair, aggregate.                *)
(*                                                                         *)
(* Four actors share the events store: the executor goroutine, the produce *)
(* steps it runs to seed inputs (reseed), the agent under test, which      *)
(* answers on its own topic whenever it likes, and whoever copies that     *)
(* topic into the store (Observed; cmd/edt/eval.go has nobody do it: it    *)
(* runs the produce steps only).                                           *)
(*                                                                         *)
(* Events are identified by a number: inputs are numbered in the order in  *)
(* which they are seeded, and an output has the number of the input it     *)
(* answers.  Number 0 is an output that was there before.  Payloads and    *)
(* the values of scores are left out: a verdict is a score or an error,    *)
(* and whether the aggregate of the scores meets the threshold is a choice.*)
(***************************************************************************)
EXTENDS EventStore

CONSTANTS
    InTopic, OutTopic,  \* agent_under_test: consumes, produces
    Keys,               \* correlation keys
    Missing,            \* "_missing": no output within MatchTimeout
    Evals,              \* evals with a judge block (their names are distinct)
    RequiredOver,       \* eval -> minimum of samples ("<N> runs"), 0 for none
    Iterations,         \* --iterations
    MaxInputs,          \* bound: inputs seeded in all iterations
    Observed            \* somebody copies the agent's topic into the store

ASSUME EvalAssumption ==
    /\ Streams = {InTopic, OutTopic} /\ InTopic # OutTopic
    /\ Missing \notin Nat
    /\ RequiredOver \in [Evals -> Nat]
    /\ Iterations \in Nat \ {0} /\ MaxInputs \in Nat
    /\ Keys # {} /\ Observed \in BOOLEAN

VARIABLES
    pc,        \* where RunIterations is
    iter,      \* iterations begun
    start,     \* inCursors: length of the input stream before the reseed
    lower,     \* outCursors: length of the output stream before the reseed
    fresh,     \* inputs of this iteration still to be scored
    cur,       \* the input whose output is awaited
    looked,    \* waitForOutput has looked and found nothing, and sleeps
    used,      \* indexes of the output stream that were matched
    agg,       \* eval -> number of scores
    errs,      \* eval -> number of judge errors
    status,    \* eval -> status of its result, "" before Finalize
    ctxDone,
    inputs,    \* all inputs so far: [key, iter]
    answered,  \* inputs the agent has answered on its topic
    bound,     \* history: outputs ever stored before the iteration began
    early,     \* history: cur was answered before the executor waited for it
    pairs      \* history: what was scored, [in, out, new, early]

sutVars   == <<inputs, answered>>
waitVars  == <<fresh, cur, looked, used, early>>
startVars == <<iter, start, lower, bound>>
scoreVars == <<agg, errs, status, pairs>>
vars      == <<storeVars, pc, ctxDone, sutVars, waitVars, startVars, scoreVars>>

In  == Query(InTopic)
Out == Query(OutTopic)

\* Events ever appended to a stream.
Appended(s) == evicted[s] + Len(byStream[s])

Event == [key : Keys, no : Nat]
Input == [key : Keys, iter : Nat]
Pair  == [in : Nat, out : Nat \cup {Missing}, new : BOOLEAN, early : BOOLEAN]

Verdicts == {"", "pass", "fail", "insufficient_samples", "judge_errors"}

Over == pc \in {"failed", "done"}

TypeOK ==
    /\ StoreTypeOK(Event)
    /\ pc \in {"begin", "seed", "pair", "wait", "finalize", "failed", "done"}
    /\ iter \in 0..Iterations
    /\ start \in Nat /\ lower \in Nat /\ bound \in Nat
    /\ fresh \in Seq(Event)
    /\ cur \in Event
    /\ looked \in BOOLEAN /\ early \in BOOLEAN /\ ctxDone \in BOOLEAN
    /\ used \subseteq Nat
    /\ agg \in [Evals -> Nat] /\ errs \in [Evals -> Nat]
    /\ status \in [Evals -> Verdicts]
    /\ inputs \in Seq(Input)
    /\ answered \subseteq 1..Len(inputs)
    /\ pairs \in Seq(Pair)

\* The store is empty, or holds an output that was there before the run.
Init ==
    /\ \E old \in {<<>>} \cup {<<[key |-> k, no |-> 0]>> : k \in Keys} :
         /\ byStream = [s \in Streams |-> IF s = OutTopic THEN old ELSE <<>>]
         /\ total = Len(old)
    /\ evicted = [s \in Streams |-> 0]
    /\ pc = "begin" /\ ctxDone = FALSE
    /\ iter = 0 /\ start = 0 /\ lower = 0 /\ bound = 0
    /\ fresh = <<>> /\ looked = FALSE /\ used = {} /\ early = FALSE
    /\ cur = [key |-> CHOOSE k \in Keys : TRUE, no |-> 0]
    /\ agg = [e \in Evals |-> 0] /\ errs = [e \in Evals |-> 0]
    /\ status = [e \in Evals |-> ""]
    /\ inputs = <<>> /\ answered = {} /\ pairs = <<>>

-----------------------------------------------------------------------------
(* RunIterations                                                           *)

\* Cursors of both streams are taken, then the reseed begins.
StartIteration(inCursor, outCursor) ==
    /\ pc = "begin" /\ ~ctxDone
    /\ iter' = iter + 1
    /\ start' = inCursor /\ lower' = outCursor
    /\ bound' = Appended(OutTopic)
    /\ pc' = "seed"
    /\ UNCHANGED <<storeVars, ctxDone, inputs, answered, waitVars, scoreVars>>

\* Plausible bugs: one iteration too many, a cursor that is not taken.
BeginOneMore          == iter <= Iterations /\ StartIteration(Len(In), Len(Out))
BeginWithoutInCursor  == iter < Iterations /\ StartIteration(0, Len(Out))
BeginWithoutOutCursor == iter < Iterations /\ StartIteration(Len(In), 0)

Begin == iter < Iterations /\ StartIteration(Len(In), Len(Out))

LoopEnds ==
    /\ pc = "begin" /\ iter = Iterations
    /\ pc' = "finalize"
    /\ UNCHANGED <<storeVars, ctxDone, sutVars, waitVars, startVars, scoreVars>>

\* The context is done, or the reseed returned an error: no result at all.
Fail ==
    /\ \/ pc = "begin" /\ iter < Iterations /\ ctxDone
       \/ pc = "seed"
    /\ pc' = "failed"
    /\ UNCHANGED <<storeVars, ctxDone, sutVars, waitVars, startVars, scoreVars>>

\* A produce step records an input, also when the broker did not take it or
\* fail_rate hit (ProducedFailed): such an input is one the agent never answers.
Seed(k) ==
    /\ pc = "seed" /\ Len(inputs) < MaxInputs
    /\ AppendEvent(InTopic, [key |-> k, no |-> Len(inputs) + 1])
    /\ inputs' = Append(inputs, [key |-> k, iter |-> iter])
    /\ UNCHANGED <<pc, ctxDone, answered, waitVars, startVars, scoreVars>>

Collect(from) ==
    /\ pc = "seed"
    /\ fresh' = SubSeq(In, from, Len(In))
    /\ pc' = "pair"
    /\ UNCHANGED <<storeVars, ctxDone, sutVars, cur, looked, used, early, startVars, scoreVars>>

\* A plausible bug: the cursor is taken for the last index seen.
SeededSkippingOne == Collect(start + 2)

\* freshInputsAfter: what the input stream holds from the cursor on.
Seeded == Collect(start + 1)

\* scorePair enters waitForOutput, which first looks at the context.
NextInput ==
    /\ pc = "pair" /\ fresh # <<>> /\ ~ctxDone
    /\ cur' = Head(fresh) /\ fresh' = Tail(fresh)
    /\ looked' = FALSE
    /\ early' = (cur'.no \in answered)
    /\ pc' = "wait"
    /\ UNCHANGED <<storeVars, ctxDone, sutVars, used, startVars, scoreVars>>

IterationEnds ==
    /\ pc = "pair" /\ fresh = <<>>
    /\ pc' = "begin"
    /\ UNCHANGED <<storeVars, ctxDone, sutVars, waitVars, startVars, scoreVars>>

-----------------------------------------------------------------------------
(* scorePair: waitForOutput, then Observe                                  *)

Scored(out, new) ==
    /\ pairs' = Append(pairs, [in |-> cur.no, out |-> out, new |-> new, early |-> early])
    /\ pc' = "pair"
    /\ UNCHANGED status

\* A plausible bug: a judge error counts as a sample too.
ObserveCountingErrors(out, new) ==
    /\ \E erred \in SUBSET Evals :
         /\ agg'  = [e \in Evals |-> agg[e] + 1]
         /\ errs' = [e \in Evals |-> IF e \in erred THEN errs[e] + 1 ELSE errs[e]]
    /\ Scored(out, new)

\* Every eval has its own judge call; an error is no sample.
Observe(out, new) ==
    /\ \E erred \in SUBSET Evals :
         /\ agg'  = [e \in Evals |-> IF e \in erred THEN agg[e] ELSE agg[e] + 1]
         /\ errs' = [e \in Evals |-> IF e \in erred THEN errs[e] + 1 ELSE errs[e]]
    /\ Scored(out, new)

\* Unmatched outputs of the key, from the iteration's lower bound on.
Matches == {i \in (lower + 1)..Len(Out) : i \notin used /\ Out[i].key = cur.key}

\* The first of them is the answer.
TakeFirst(marked) ==
    /\ pc = "wait" /\ ~looked
    /\ \E i \in Matches :
         /\ \A j \in Matches : i <= j
         /\ used' = IF marked THEN used \cup {i} ELSE used
         /\ Observe(Out[i].no, evicted[OutTopic] + i > bound)
    /\ UNCHANGED <<storeVars, ctxDone, sutVars, fresh, cur, looked, early, startVars>>

\* A plausible bug: a matched output stays available.
MatchWithoutMarking == TakeFirst(FALSE)

Match == TakeFirst(TRUE)

NoMatch ==
    /\ pc = "wait" /\ ~looked /\ Matches = {}
    /\ looked' = TRUE
    /\ UNCHANGED <<storeVars, pc, ctxDone, sutVars, fresh, cur, used, early,
                   startVars, scoreVars>>

\* 50 ms later, unless the context is done.
LookAgain ==
    /\ pc = "wait" /\ looked /\ ~ctxDone
    /\ looked' = FALSE
    /\ UNCHANGED <<storeVars, pc, ctxDone, sutVars, fresh, cur, used, early,
                   startVars, scoreVars>>

\* The input is scored with a missing output.
GiveUpOn ==
    /\ pc = "wait" /\ looked
    /\ Observe(Missing, TRUE)
    /\ UNCHANGED <<storeVars, ctxDone, sutVars, waitVars, startVars>>

\* A plausible bug: the deadline moves with every look.
TimeoutNever == ctxDone /\ GiveUpOn

\* MatchTimeout is over.
Timeout == GiveUpOn

\* A done context aborts the run before a look or in the sleep after it, and
\* nothing is scored; one that comes during a look is not noticed.
WaitCancelled ==
    /\ ctxDone
    /\ \/ pc = "pair" /\ fresh # <<>>
       \/ pc = "wait" /\ looked
    /\ pc' = "failed"
    /\ UNCHANGED <<storeVars, ctxDone, sutVars, waitVars, startVars, scoreVars>>

-----------------------------------------------------------------------------
(* Finalize                                                                *)

\* finalizeStatus; met: there is no threshold, or the aggregate meets it.
StatusOf(e, met) ==
    IF agg[e] = 0 /\ errs[e] > 0 THEN "judge_errors"
    ELSE IF agg[e] = 0 \/ agg[e] < RequiredOver[e] THEN "insufficient_samples"
    ELSE IF met THEN "pass" ELSE "fail"

Finalize ==
    /\ pc = "finalize"
    /\ \E met \in SUBSET Evals : status' = [e \in Evals |-> StatusOf(e, e \in met)]
    /\ pc' = "done"
    /\ UNCHANGED <<storeVars, ctxDone, sutVars, waitVars, startVars, agg, errs, pairs>>

-----------------------------------------------------------------------------
(* The agent, and whoever cancels the run                                  *)

\* The agent answers an input it has read, on its topic; the answer reaches the
\* store if somebody copies that topic.
AgentAnswers(n) ==
    /\ ~Over
    /\ n \in DOMAIN inputs \ answered
    /\ answered' = answered \cup {n}
    /\ IF Observed THEN AppendEvent(OutTopic, [key |-> inputs[n].key, no |-> n])
                   ELSE UNCHANGED storeVars
    /\ UNCHANGED <<pc, ctxDone, inputs, waitVars, startVars, scoreVars>>

Cancel ==
    /\ ~ctxDone /\ ~Over
    /\ ctxDone' = TRUE
    /\ UNCHANGED <<storeVars, pc, sutVars, waitVars, startVars, scoreVars>>

-----------------------------------------------------------------------------
Executor ==
    \/ Begin \/ LoopEnds \/ Fail \/ Seeded \/ NextInput \/ IterationEnds
    \/ Match \/ NoMatch \/ LookAgain \/ Timeout \/ WaitCancelled
    \/ Finalize

Next ==
    \/ Executor
    \/ \E k \in Keys : Seed(k)
    \/ \E n \in 1..MaxInputs : AgentAnswers(n)
    \/ Cancel

Spec == Init /\ [][Next]_vars

\* Fairness: the executor goroutine runs (a reseed returns, the judge answers or
\* errs), and MatchTimeout passes.  Nobody owes an answer or a cancellation.
FairSpec == Spec /\ WF_vars(Executor) /\ SF_vars(Timeout)

-----------------------------------------------------------------------------
(* Properties                                                              *)

\* "previously-judged inputs are not re-scored" (executor.go:174-175), also when
\* eviction shifts the streams under the cursors: inputs are scored in the order
\* in which they were seeded, each at most once.
InputsScoredOnce ==
    \A i, j \in DOMAIN pairs : i < j => pairs[i].in < pairs[j].in

\* As long as the input stream has not reached its cap, every input of the
\* finished iterations was scored ("N distinct samples per eval").
EveryInputScored ==
    pc \in {"begin", "finalize", "done"} /\ evicted[InTopic] = 0 =>
        \A n \in DOMAIN inputs : \E i \in DOMAIN pairs : pairs[i].in = n

\* As long as the output stream has not reached its cap, no output is scored
\* twice, for repeated keys, over iterations, whatever timed out before.
OutputsScoredOnce ==
    evicted[OutTopic] = 0 =>
        \A i, j \in DOMAIN pairs :
            pairs[i].out = pairs[j].out /\ pairs[i].out # Missing => i = j

\* "waitForOutput then ignores any pre-iteration events": what is scored was
\* stored after the iteration began, also when eviction shifts the stream.
NoOldOutput == \A i \in DOMAIN pairs : pairs[i].new

\* Every scored pair is a sample or an error of every eval, and an eval passes
\* only on its minimum of samples, each from a different input.
PassRestsOnSamples ==
    \A e \in Evals :
        /\ agg[e] + errs[e] = Len(pairs)
        /\ status[e] = "pass" =>
              /\ agg[e] > 0
              /\ Cardinality({pairs[i].in : i \in DOMAIN pairs}) >= RequiredOver[e]

\* The run ends, whether the agent answers or not.
RunEnds == <>Over

\* "a stale output from a previous iteration can never spuriously satisfy a newly
\* seeded input that happens to share a key" (executor.go:195-197).
NoStaleOutput ==
    \A i \in DOMAIN pairs :
        pairs[i].out # Missing =>
            pairs[i].out # 0 /\ inputs[pairs[i].out].iter = inputs[pairs[i].in].iter

\* "edt eval ... Seeds inputs, waits for your AI agent's outputs, scores pairs"
\* (src/README.md:124): an input whose answer was on the agent's topic before the
\* executor began to wait is not scored as unanswered.
AnswersAreScored ==
    \A i \in DOMAIN pairs : pairs[i].early => pairs[i].out # Missing
=============================================================================
