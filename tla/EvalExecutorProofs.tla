------------------------- MODULE EvalExecutorProofs -------------------------
(* Proofs about EvalExecutor, for every store, key, eval and bound.         *)
EXTENDS EvalExecutor, FiniteSetTheorems, TLAPS

\* How many inputs come before those that still wait to be scored.
FreshFrom == Len(inputs) - Len(fresh)

\* How many inputs, from the first one, RunIterations is through with.
DealtWith ==
    IF pc = "seed" THEN evicted[InTopic] + start
    ELSE IF pc = "pair" THEN FreshFrom
    ELSE IF pc = "wait" THEN FreshFrom - 1
    ELSE Len(inputs)

\* The input stream holds the newest inputs in order, the cursor is an index of
\* it, and the fresh inputs are the newest of all.
NumberInv ==
    /\ Appended(InTopic) = Len(inputs)
    /\ \A i \in DOMAIN In : In[i].no = evicted[InTopic] + i
    /\ pc = "seed" => start <= Len(In)
    /\ pc \in {"pair", "wait"} =>
          /\ Len(fresh) <= Len(inputs)
          /\ \A i \in DOMAIN fresh : fresh[i].no = FreshFrom + i
    /\ pc = "wait" => cur.no = FreshFrom

\* What was scored is what RunIterations is through with.
ScoredInv ==
    /\ \A i \in DOMAIN pairs : pairs[i].in <= DealtWith
    /\ evicted[InTopic] = 0 /\ pc # "failed" =>
          \A n \in 1..DealtWith : \E i \in DOMAIN pairs : pairs[i].in = n

\* Stored outputs are answers, each stored once, and until the stream evicts the
\* scored ones are those marked as used.
OutputInv ==
    /\ used \subseteq DOMAIN Out
    /\ \A i \in DOMAIN Out : Out[i].no \in answered \cup {0}
    /\ \A i, j \in DOMAIN Out : Out[i].no = Out[j].no => i = j
    /\ evicted[OutTopic] = 0 =>
          \A j \in DOMAIN pairs :
             pairs[j].out # Missing => \E i \in used : Out[i].no = pairs[j].out

\* The cursor never points before what was stored when the iteration began.
BoundInv == pc \in {"seed", "pair", "wait"} => bound <= evicted[OutTopic] + lower

ScoredInputs == {pairs[i].in : i \in DOMAIN pairs}

\* Every pair has an input of its own and counts once for every eval, and there is
\* no status before Finalize.
SampleInv ==
    /\ IsFiniteSet(ScoredInputs) /\ Cardinality(ScoredInputs) = Len(pairs)
    /\ pc # "done" => \A e \in Evals : status[e] = ""
    /\ PassRestsOnSamples

IInv ==
    /\ TypeOK
    /\ IsFiniteSet(Retained) /\ CountsRetained
    /\ NumberInv /\ ScoredInv /\ InputsScoredOnce
    /\ OutputInv /\ OutputsScoredOnce
    /\ BoundInv /\ NoOldOutput
    /\ SampleInv

-----------------------------------------------------------------------------
(* The store                                                               *)

\* What Append does to the sequence of a stream, full or not.
LEMMA NewestElements ==
    ASSUME StoreTypeOK(Event), NEW s \in Streams, NEW x \in Event,
           Len(byStream[s]) <= Cap
    PROVE  /\ Newest(s, x) \in Seq(Event)
           /\ IsFull(s) =>
                /\ Len(byStream[s]) > 0
                /\ Len(Newest(s, x)) = Len(byStream[s])
                /\ \A i \in 1..Len(byStream[s]) :
                     Newest(s, x)[i] = IF i < Len(byStream[s]) THEN byStream[s][i + 1] ELSE x
           /\ ~IsFull(s) =>
                /\ Len(Newest(s, x)) = Len(byStream[s]) + 1
                /\ Len(byStream[s]) + 1 <= Cap
                /\ \A i \in 1..Len(byStream[s]) + 1 :
                     Newest(s, x)[i] = IF i <= Len(byStream[s]) THEN byStream[s][i] ELSE x
  <1> DEFINE q == byStream[s]
  <1>1. q \in Seq(Event) /\ Len(q) \in Nat
    BY DEF StoreTypeOK
  <1>2. CASE IsFull(s)
    <2>1. q # <<>> /\ Len(q) > 0
      BY <1>1, <1>2, StoreAssumption DEF IsFull
    <2>2. /\ Tail(q) \in Seq(Event) /\ Len(Tail(q)) = Len(q) - 1
          /\ \A i \in 1..Len(q) - 1 : Tail(q)[i] = q[i + 1]
      BY <1>1, <2>1
    <2>3. Newest(s, x) = Append(Tail(q), x)
      BY <1>2 DEF Newest
    <2> QED
      BY <1>1, <1>2, <2>1, <2>2, <2>3
  <1>3. CASE ~IsFull(s)
    <2>1. Newest(s, x) = Append(q, x)
      BY <1>3 DEF Newest
    <2>2. Len(q) + 1 <= Cap
      BY <1>1, <1>3, StoreAssumption DEF IsFull
    <2> QED
      BY <1>1, <1>3, <2>1, <2>2
  <1> QED
    BY <1>2, <1>3

\* Append moves every event that stays by as much as the stream lost, and puts the
\* new one last; the other streams are left alone.
LEMMA AppendMoves ==
    ASSUME StoreTypeOK(Event), NEW s \in Streams, NEW x \in Event,
           Len(byStream[s]) <= Cap, AppendEvent(s, x)
    PROVE  /\ \A t \in Streams \ {s} : byStream'[t] = byStream[t] /\ evicted'[t] = evicted[t]
           /\ evicted'[s] \in Nat /\ evicted'[s] >= evicted[s]
           /\ byStream'[s] \in Seq(Event)
           /\ Len(byStream'[s]) >= Len(byStream[s]) /\ Len(byStream'[s]) <= Cap
           /\ evicted'[s] + Len(byStream'[s]) = evicted[s] + Len(byStream[s]) + 1
           /\ \A i \in DOMAIN byStream'[s] :
                IF i < Len(byStream'[s])
                THEN /\ i + (evicted'[s] - evicted[s]) \in DOMAIN byStream[s]
                     /\ byStream'[s][i] = byStream[s][i + (evicted'[s] - evicted[s])]
                ELSE byStream'[s][i] = x
  <1>1. byStream'[s] = Newest(s, x)
    BY DEF AppendEvent, StoreTypeOK
  <1>2. \A t \in Streams \ {s} : byStream'[t] = byStream[t] /\ evicted'[t] = evicted[t]
    BY DEF AppendEvent, StoreTypeOK
  <1>3. /\ byStream[s] \in Seq(Event) /\ Len(byStream[s]) \in Nat /\ evicted[s] \in Nat
        /\ DOMAIN byStream[s] = 1..Len(byStream[s])
    BY DEF StoreTypeOK
  <1>4. Cap \in Nat
    BY StoreAssumption
  <1>5. CASE IsFull(s)
    <2>1. evicted'[s] = evicted[s] + 1
      BY <1>5 DEF AppendEvent, StoreTypeOK
    <2>2. /\ byStream'[s] \in Seq(Event)
          /\ Len(byStream[s]) > 0
          /\ Len(byStream'[s]) = Len(byStream[s])
          /\ \A i \in 1..Len(byStream[s]) :
               byStream'[s][i] = IF i < Len(byStream[s]) THEN byStream[s][i + 1] ELSE x
      BY <1>1, <1>5, NewestElements
    <2>3. ASSUME NEW i \in DOMAIN byStream'[s]
          PROVE  IF i < Len(byStream'[s])
                 THEN /\ i + (evicted'[s] - evicted[s]) \in DOMAIN byStream[s]
                      /\ byStream'[s][i] = byStream[s][i + (evicted'[s] - evicted[s])]
                 ELSE byStream'[s][i] = x
      <3>1. i \in 1..Len(byStream[s]) /\ evicted'[s] - evicted[s] = 1
        BY <1>3, <2>1, <2>2
      <3>2. i < Len(byStream'[s]) => i + 1 \in DOMAIN byStream[s]
        BY <1>3, <2>2, <3>1
      <3> QED
        BY <2>2, <3>1, <3>2
    <2>4. /\ evicted'[s] \in Nat /\ evicted'[s] >= evicted[s]
          /\ Len(byStream'[s]) >= Len(byStream[s]) /\ Len(byStream'[s]) <= Cap
          /\ evicted'[s] + Len(byStream'[s]) = evicted[s] + Len(byStream[s]) + 1
      <3>1. Len(byStream'[s]) = Len(byStream[s])
        BY <2>2, Zenon
      <3>2. Len(byStream[s]) \in Nat /\ evicted[s] \in Nat
        BY <1>3, Zenon
      <3>3. evicted'[s] \in Nat /\ evicted'[s] >= evicted[s]
        BY <2>1, <3>2
      <3>4. Len(byStream'[s]) >= Len(byStream[s]) /\ Len(byStream'[s]) <= Cap
        BY <1>4, <3>1, <3>2
      <3>5. evicted'[s] + Len(byStream'[s]) = evicted[s] + Len(byStream[s]) + 1
        BY <2>1, <3>1, <3>2
      <3> QED
        BY <3>3, <3>4, <3>5, Zenon
    <2> QED
      BY <1>2, <2>2, <2>3, <2>4, Zenon
  <1>6. CASE ~IsFull(s)
    <2>1. evicted'[s] = evicted[s]
      BY <1>6 DEF AppendEvent
    <2>2. /\ byStream'[s] \in Seq(Event)
          /\ Len(byStream'[s]) = Len(byStream[s]) + 1
          /\ Len(byStream[s]) + 1 <= Cap
          /\ \A i \in 1..Len(byStream[s]) + 1 :
               byStream'[s][i] = IF i <= Len(byStream[s]) THEN byStream[s][i] ELSE x
      BY <1>1, <1>6, NewestElements
    <2>3. ASSUME NEW i \in DOMAIN byStream'[s]
          PROVE  IF i < Len(byStream'[s])
                 THEN /\ i + (evicted'[s] - evicted[s]) \in DOMAIN byStream[s]
                      /\ byStream'[s][i] = byStream[s][i + (evicted'[s] - evicted[s])]
                 ELSE byStream'[s][i] = x
      <3>1. i \in 1..Len(byStream[s]) + 1 /\ evicted'[s] - evicted[s] = 0
        BY <1>3, <2>1, <2>2
      <3>2. i + 0 = i
        BY <3>1, <1>3
      <3>3. (i < Len(byStream'[s])) <=> (i \in DOMAIN byStream[s])
        BY <1>3, <2>2, <3>1
      <3>4. i \in DOMAIN byStream[s] <=> i <= Len(byStream[s])
        BY <1>3, <3>1
      <3> QED
        BY <2>2, <3>1, <3>2, <3>3, <3>4
    <2>4. /\ evicted'[s] \in Nat /\ evicted'[s] >= evicted[s]
          /\ Len(byStream'[s]) >= Len(byStream[s]) /\ Len(byStream'[s]) <= Cap
          /\ evicted'[s] + Len(byStream'[s]) = evicted[s] + Len(byStream[s]) + 1
      <3>1. Len(byStream'[s]) = Len(byStream[s]) + 1 /\ Len(byStream[s]) + 1 <= Cap
        BY <2>2, Zenon
      <3>2. Len(byStream[s]) \in Nat /\ evicted[s] \in Nat
        BY <1>3, Zenon
      <3>3. evicted'[s] \in Nat /\ evicted'[s] >= evicted[s]
        BY <2>1, <3>2
      <3>4. Len(byStream'[s]) >= Len(byStream[s]) /\ Len(byStream'[s]) <= Cap
        BY <1>4, <3>1, <3>2
      <3>5. evicted'[s] + Len(byStream'[s]) = evicted[s] + Len(byStream[s]) + 1
        BY <2>1, <3>1, <3>2
      <3> QED
        BY <3>3, <3>4, <3>5, Zenon
    <2> QED
      BY <1>2, <2>2, <2>3, <2>4, Zenon
  <1> QED
    BY <1>5, <1>6

LEMMA AppendType ==
    ASSUME StoreTypeOK(Event), NEW s \in Streams, NEW x \in Event,
           Len(byStream[s]) <= Cap, AppendEvent(s, x)
    PROVE  /\ byStream' \in [Streams -> Seq(Event)]
           /\ total' \in Nat
           /\ evicted' \in [Streams -> Nat]
  <1>1. byStream' \in [Streams -> Seq(Event)]
    BY NewestElements DEF AppendEvent, StoreTypeOK
  <1> QED
    BY <1>1 DEF AppendEvent, StoreTypeOK

\* A stream that is not full gains one retained event, a full one none.
LEMMA AppendCounts ==
    ASSUME StoreTypeOK(Event), NEW s \in Streams, NEW x \in Event,
           IsFiniteSet(Retained), CountsRetained, AppendEvent(s, x)
    PROVE  (IsFiniteSet(Retained) /\ CountsRetained)'
  <1>1. \A t \in Streams : Len(byStream[t]) <= Cap
    BY DEF CountsRetained
  <1>2. \A t \in Streams : DOMAIN byStream[t] = 1..Len(byStream[t]) /\ Len(byStream[t]) \in Nat
    BY DEF StoreTypeOK
  <1>3. \A t \in Streams : DOMAIN byStream'[t] = 1..Len(byStream'[t]) /\ Len(byStream'[t]) <= Cap
    BY <1>1, AppendMoves, AppendType
  <1>4. CASE IsFull(s)
    <2>1. Len(byStream'[s]) = Len(byStream[s])
      BY <1>1, <1>4, NewestElements DEF AppendEvent, StoreTypeOK
    <2>2. \A t \in Streams : DOMAIN byStream'[t] = DOMAIN byStream[t]
      BY <1>1, <1>2, <1>3, <2>1, AppendMoves
    <2>3. Retained' = Retained
      BY <2>2 DEF Retained
    <2>4. total' = total
      BY <1>4 DEF AppendEvent
    <2> QED
      BY <1>3, <2>3, <2>4 DEF CountsRetained
  <1>5. CASE ~IsFull(s)
    <2> DEFINE k == Len(byStream[s]) + 1
    <2>1. Len(byStream'[s]) = k
      BY <1>1, <1>5, NewestElements DEF AppendEvent, StoreTypeOK
    <2>2. /\ \A t \in Streams \ {s} : DOMAIN byStream'[t] = DOMAIN byStream[t]
          /\ DOMAIN byStream'[s] = DOMAIN byStream[s] \cup {k}
          /\ k \notin DOMAIN byStream[s]
      BY <1>1, <1>2, <1>3, <2>1, AppendMoves
    <2> HIDE DEF k
    <2>3. Retained' = Retained \cup {<<s, k>>} /\ <<s, k>> \notin Retained
      BY <2>2 DEF Retained
    <2>4. total' = total + 1
      BY <1>5 DEF AppendEvent
    <2>5. IsFiniteSet(Retained') /\ Cardinality(Retained') = Cardinality(Retained) + 1
      BY <2>3, FS_AddElement
    <2> QED
      BY <1>3, <2>4, <2>5 DEF CountsRetained
  <1> QED
    BY <1>4, <1>5

-----------------------------------------------------------------------------
(* Types                                                                   *)

LEMMA StreamTypes ==
    ASSUME TypeOK, NEW s \in Streams
    PROVE  /\ byStream[s] \in Seq(Event) /\ Len(byStream[s]) \in Nat
           /\ DOMAIN byStream[s] = 1..Len(byStream[s])
           /\ evicted[s] \in Nat /\ Appended(s) \in Nat
  <1>1. byStream[s] \in Seq(Event) /\ evicted[s] \in Nat
    BY DEF TypeOK, StoreTypeOK
  <1> QED
    BY <1>1 DEF Appended

LEMMA Topics == InTopic \in Streams /\ OutTopic \in Streams /\ InTopic # OutTopic
  BY EvalAssumption

\* A pair that is scored is a pair, and counts once for every eval.
LEMMA ObserveType ==
    ASSUME TypeOK, NEW out \in Nat \cup {Missing}, NEW new \in BOOLEAN, Observe(out, new)
    PROVE  /\ agg' \in [Evals -> Nat] /\ errs' \in [Evals -> Nat]
           /\ \A e \in Evals : agg'[e] + errs'[e] = agg[e] + errs[e] + 1
           /\ pairs' \in Seq(Pair)
           /\ pairs' = Append(pairs, [in |-> cur.no, out |-> out, new |-> new, early |-> early])
           /\ pc' = "pair" /\ status' = status
  <1>1. PICK erred \in SUBSET Evals :
          /\ agg'  = [e \in Evals |-> IF e \in erred THEN agg[e] ELSE agg[e] + 1]
          /\ errs' = [e \in Evals |-> IF e \in erred THEN errs[e] + 1 ELSE errs[e]]
    BY DEF Observe
  <1>2. agg \in [Evals -> Nat] /\ errs \in [Evals -> Nat]
    BY DEF TypeOK
  <1>3. agg' \in [Evals -> Nat] /\ errs' \in [Evals -> Nat]
    BY <1>1, <1>2
  <1>4. \A e \in Evals : agg'[e] + errs'[e] = agg[e] + errs[e] + 1
    BY <1>1, <1>2
  <1>5. [in |-> cur.no, out |-> out, new |-> new, early |-> early] \in Pair
    BY DEF TypeOK, Event, Pair
  <1>6. pairs' = Append(pairs, [in |-> cur.no, out |-> out, new |-> new, early |-> early])
    BY DEF Observe, Scored
  <1>7. pairs' \in Seq(Pair)
    BY <1>5, <1>6 DEF TypeOK
  <1>8. pc' = "pair" /\ status' = status
    BY DEF Observe, Scored
  <1> QED
    BY <1>3, <1>4, <1>6, <1>7, <1>8

\* What a match takes: the first output from the cursor on that is not used.
LEMMA MatchTakes ==
    ASSUME TypeOK, Match
    PROVE  \E i \in DOMAIN Out :
             /\ i > lower /\ i \notin used /\ used' = used \cup {i}
             /\ Out[i].no \in Nat
             /\ (evicted[OutTopic] + i > bound) \in BOOLEAN
             /\ Observe(Out[i].no, evicted[OutTopic] + i > bound)
  <1>1. PICK i \in Matches :
          used' = used \cup {i} /\ Observe(Out[i].no, evicted[OutTopic] + i > bound)
    BY DEF Match, TakeFirst
  <1>2. Out \in Seq(Event) /\ DOMAIN Out = 1..Len(Out) /\ Len(Out) \in Nat /\ lower \in Nat
    BY StreamTypes, Topics DEF Query, Out, TypeOK
  <1>3. i \in DOMAIN Out /\ i > lower /\ i \notin used
    BY <1>2 DEF Matches
  <1>4. Out[i].no \in Nat
    <2>1. Out[i] \in Event
      BY <1>2, <1>3
    <2> QED
      BY <2>1 DEF Event
  <1> QED
    BY <1>1, <1>3, <1>4

LEMMA InitType == Init => TypeOK
  <1> SUFFICES ASSUME Init PROVE TypeOK
    OBVIOUS
  <1>1. PICK old \in {<<>>} \cup {<<[key |-> k, no |-> 0]>> : k \in Keys} :
          /\ byStream = [s \in Streams |-> IF s = OutTopic THEN old ELSE <<>>]
          /\ total = Len(old)
    BY DEF Init
  <1>2. old \in Seq(Event)
    <2>1. ASSUME NEW k \in Keys PROVE <<[key |-> k, no |-> 0]>> \in Seq(Event)
      <3>1. [key |-> k, no |-> 0] \in Event
        BY DEF Event
      <3> QED
        BY <3>1
    <2>2. <<>> \in Seq(Event)
      OBVIOUS
    <2>3. old = <<>> \/ \E k \in Keys : old = <<[key |-> k, no |-> 0]>>
      BY Zenon
    <2> QED
      BY <2>1, <2>2, <2>3, Zenon
  <1>3. StoreTypeOK(Event)
    <2>1. byStream \in [Streams -> Seq(Event)]
      BY <1>1, <1>2
    <2>2. total \in Nat
      BY <1>1, <1>2
    <2>3. evicted \in [Streams -> Nat]
      BY DEF Init
    <2> QED
      BY <2>1, <2>2, <2>3 DEF StoreTypeOK
  <1>4. cur \in Event
    BY EvalAssumption DEF Init, Event
  <1>5. iter \in 0..Iterations
    <2>1. iter = 0
      BY DEF Init
    <2> QED
      BY <2>1, EvalAssumption
  <1>6. /\ pc = "begin" /\ ctxDone = FALSE
        /\ start = 0 /\ lower = 0 /\ bound = 0
        /\ fresh = <<>> /\ looked = FALSE /\ used = {} /\ early = FALSE
        /\ agg = [e \in Evals |-> 0] /\ errs = [e \in Evals |-> 0]
        /\ status = [e \in Evals |-> ""]
        /\ inputs = <<>> /\ answered = {} /\ pairs = <<>>
    BY DEF Init
  <1>7. fresh \in Seq(Event) /\ inputs \in Seq(Input) /\ pairs \in Seq(Pair)
    <2>1. <<>> \in Seq(Event) /\ <<>> \in Seq(Input) /\ <<>> \in Seq(Pair)
      OBVIOUS
    <2> QED
      BY <1>6, <2>1, Zenon
  <1>8. /\ agg \in [Evals -> Nat] /\ errs \in [Evals -> Nat]
        /\ status \in [Evals -> Verdicts]
    BY <1>6 DEF Verdicts
  <1>9. /\ pc \in {"begin", "seed", "pair", "wait", "finalize", "failed", "done"}
        /\ start \in Nat /\ lower \in Nat /\ bound \in Nat
        /\ looked \in BOOLEAN /\ early \in BOOLEAN /\ ctxDone \in BOOLEAN
        /\ used \subseteq Nat /\ answered \subseteq 1..Len(inputs)
    BY <1>6
  <1> QED
    BY <1>3, <1>4, <1>5, <1>7, <1>8, <1>9, Zenon DEF TypeOK

LEMMA TypeStep ==
    ASSUME TypeOK, CountsRetained, [Next]_vars
    PROVE  TypeOK'
  <1> USE DEF sutVars, waitVars, startVars, scoreVars, storeVars
  <1>1. CASE Begin
    <2>1. Len(In) \in Nat /\ Len(Out) \in Nat /\ Appended(OutTopic) \in Nat
      BY StreamTypes, Topics DEF In, Out, Query
    <2>2. iter' \in 0..Iterations
      BY <1>1, EvalAssumption DEF Begin, StartIteration, TypeOK
    <2> QED
      BY <1>1, <2>1, <2>2 DEF Begin, StartIteration, TypeOK, StoreTypeOK
  <1>2. CASE LoopEnds
    BY <1>2 DEF LoopEnds, TypeOK, StoreTypeOK
  <1>3. CASE Fail
    BY <1>3 DEF Fail, TypeOK, StoreTypeOK
  <1>4. CASE Seeded
    <2>1. In \in Seq(Event) /\ start \in Nat
      BY StreamTypes, Topics DEF In, Query, TypeOK
    <2>2. fresh' \in Seq(Event)
      BY <1>4, <2>1 DEF Seeded, Collect
    <2> QED
      BY <1>4, <2>2 DEF Seeded, Collect, TypeOK, StoreTypeOK
  <1>5. CASE NextInput
    <2>1. cur' \in Event /\ fresh' \in Seq(Event)
      BY <1>5 DEF NextInput, TypeOK
    <2>2. early' \in BOOLEAN
      BY <1>5 DEF NextInput
    <2>3. /\ pc' = "wait" /\ looked' = FALSE
          /\ UNCHANGED <<storeVars, ctxDone, sutVars, used, startVars, scoreVars>>
      BY <1>5 DEF NextInput
    <2> QED
      BY <2>1, <2>2, <2>3 DEF TypeOK, StoreTypeOK
  <1>6. CASE IterationEnds
    BY <1>6 DEF IterationEnds, TypeOK, StoreTypeOK
  <1>7. CASE Match
    <2>1. PICK i \in DOMAIN Out :
            /\ used' = used \cup {i} /\ Out[i].no \in Nat
            /\ (evicted[OutTopic] + i > bound) \in BOOLEAN
            /\ Observe(Out[i].no, evicted[OutTopic] + i > bound)
      BY <1>7, MatchTakes
    <2>2. i \in Nat
      BY StreamTypes, Topics DEF Out, Query
    <2>3. /\ agg' \in [Evals -> Nat] /\ errs' \in [Evals -> Nat]
          /\ pairs' \in Seq(Pair) /\ pc' = "pair" /\ status' = status
      BY <2>1, ObserveType
    <2> QED
      BY <1>7, <2>1, <2>2, <2>3 DEF Match, TakeFirst, TypeOK, StoreTypeOK
  <1>8. CASE NoMatch
    BY <1>8 DEF NoMatch, TypeOK, StoreTypeOK
  <1>9. CASE LookAgain
    BY <1>9 DEF LookAgain, TypeOK, StoreTypeOK
  <1>10. CASE Timeout
    <2>1. /\ agg' \in [Evals -> Nat] /\ errs' \in [Evals -> Nat]
          /\ pairs' \in Seq(Pair) /\ pc' = "pair" /\ status' = status
      BY <1>10, ObserveType DEF Timeout, GiveUpOn
    <2> QED
      BY <1>10, <2>1 DEF Timeout, GiveUpOn, TypeOK, StoreTypeOK
  <1>11. CASE WaitCancelled
    BY <1>11 DEF WaitCancelled, TypeOK, StoreTypeOK
  <1>12. CASE Finalize
    <2>1. PICK met \in SUBSET Evals : status' = [e \in Evals |-> StatusOf(e, e \in met)]
      BY <1>12 DEF Finalize
    <2>2. status' \in [Evals -> Verdicts]
      BY <2>1 DEF StatusOf, Verdicts
    <2> QED
      BY <1>12, <2>2 DEF Finalize, TypeOK, StoreTypeOK
  <1>13. ASSUME NEW k \in Keys, Seed(k)
         PROVE  TypeOK'
    <2>1. Len(inputs) \in Nat /\ inputs \in Seq(Input) /\ iter \in Nat
      BY EvalAssumption DEF TypeOK
    <2>2. inputs' \in Seq(Input) /\ Len(inputs') = Len(inputs) + 1
      BY <1>13, <2>1 DEF Seed, Input
    <2>3. answered' \subseteq 1..Len(inputs')
      BY <1>13, <2>1, <2>2 DEF Seed, TypeOK
    <2>4. [key |-> k, no |-> Len(inputs) + 1] \in Event
      BY <2>1 DEF Event
    <2>5. StoreTypeOK(Event)'
      BY <1>13, <2>4, AppendType, Topics DEF Seed, TypeOK, CountsRetained, StoreTypeOK, Event
    <2> QED
      BY <1>13, <2>2, <2>3, <2>5 DEF Seed, TypeOK
  <1>14. ASSUME NEW n \in 1..MaxInputs, AgentAnswers(n)
         PROVE  TypeOK'
    <2>1. n \in 1..Len(inputs) /\ n \in Nat /\ inputs[n].key \in Keys
      <3>1. inputs \in Seq(Input) /\ n \in DOMAIN inputs
        BY <1>14 DEF AgentAnswers, TypeOK
      <3>2. n \in 1..Len(inputs) /\ inputs[n] \in Input
        BY <3>1
      <3> QED
        BY <3>2 DEF Input
    <2>2. StoreTypeOK(Event)'
      <3>1. CASE Observed
        <4>1. [key |-> inputs[n].key, no |-> n] \in Event
          BY <2>1 DEF Event
        <4> QED
          BY <1>14, <3>1, <4>1, AppendType, Topics
             DEF AgentAnswers, TypeOK, CountsRetained, StoreTypeOK, Event
      <3>2. CASE ~Observed
        BY <1>14, <3>2 DEF AgentAnswers, TypeOK, StoreTypeOK, Event
      <3> QED
        BY <3>1, <3>2
    <2>3. answered' \subseteq 1..Len(inputs')
      BY <1>14, <2>1 DEF AgentAnswers, TypeOK
    <2> QED
      BY <1>14, <2>2, <2>3 DEF AgentAnswers, TypeOK
  <1>15. CASE Cancel
    BY <1>15 DEF Cancel, TypeOK, StoreTypeOK
  <1>16. CASE UNCHANGED vars
    BY <1>16 DEF vars, TypeOK, StoreTypeOK
  <1> QED
    BY <1>1, <1>2, <1>3, <1>4, <1>5, <1>6, <1>7, <1>8, <1>9, <1>10, <1>11, <1>12,
       <1>13, <1>14, <1>15, <1>16 DEF Next, Executor

LEMMA CountsStep ==
    ASSUME TypeOK, IsFiniteSet(Retained), CountsRetained, [Next]_vars
    PROVE  (IsFiniteSet(Retained) /\ CountsRetained)'
  <1>1. CASE UNCHANGED storeVars
    BY <1>1 DEF storeVars, Retained, CountsRetained
  <1>2. ASSUME NEW k \in Keys, Seed(k)
        PROVE  (IsFiniteSet(Retained) /\ CountsRetained)'
    <2>1. [key |-> k, no |-> Len(inputs) + 1] \in Event
      BY DEF Event, TypeOK
    <2> QED
      BY <1>2, <2>1, AppendCounts, Topics DEF Seed, TypeOK
  <1>3. ASSUME NEW n \in 1..MaxInputs, AgentAnswers(n)
        PROVE  (IsFiniteSet(Retained) /\ CountsRetained)'
    <2>1. CASE Observed
      <3>1. inputs \in Seq(Input) /\ n \in DOMAIN inputs /\ n \in Nat
        BY <1>3 DEF AgentAnswers, TypeOK
      <3>2. inputs[n] \in Input
        BY <3>1
      <3>3. [key |-> inputs[n].key, no |-> n] \in Event
        BY <3>1, <3>2 DEF Event, Input
      <3> QED
        BY <1>3, <2>1, <3>3, AppendCounts, Topics DEF AgentAnswers, TypeOK
    <2>2. CASE ~Observed
      BY <1>1, <1>3, <2>2 DEF AgentAnswers
    <2> QED
      BY <2>1, <2>2
  <1>4. \/ UNCHANGED storeVars
        \/ \E k \in Keys : Seed(k)
        \/ \E n \in 1..MaxInputs : AgentAnswers(n)
    BY DEF Next, Executor, vars, Begin, StartIteration, LoopEnds, Fail, Seeded, Collect,
           NextInput, IterationEnds, Match, TakeFirst, NoMatch, LookAgain, Timeout, GiveUpOn,
           WaitCancelled, Finalize, Cancel
  <1> QED
    BY <1>1, <1>2, <1>3, <1>4

-----------------------------------------------------------------------------
(* Inputs                                                                  *)

\* The sizes that the cursors are about are numbers.
LEMMA InputSizes ==
    ASSUME TypeOK
    PROVE  /\ Len(inputs) \in Nat /\ Len(fresh) \in Nat /\ Len(In) \in Nat
           /\ start \in Nat /\ evicted[InTopic] \in Nat
           /\ DOMAIN In = 1..Len(In) /\ DOMAIN fresh = 1..Len(fresh)
           /\ Appended(InTopic) = evicted[InTopic] + Len(In)
  <1>1. Len(inputs) \in Nat /\ Len(fresh) \in Nat /\ start \in Nat /\ DOMAIN fresh = 1..Len(fresh)
    BY DEF TypeOK
  <1> QED
    BY <1>1, StreamTypes, Topics DEF In, Query, Appended

LEMMA DealtWithBound ==
    ASSUME TypeOK, NumberInv
    PROVE  DealtWith \in Int /\ DealtWith <= Len(inputs)
  <1>1. CASE pc = "seed"
    BY <1>1, InputSizes DEF DealtWith, NumberInv
  <1>2. CASE pc = "pair"
    BY <1>2, InputSizes DEF DealtWith, FreshFrom
  <1>3. CASE pc = "wait"
    BY <1>3, InputSizes DEF DealtWith, FreshFrom
  <1>4. CASE pc \notin {"seed", "pair", "wait"}
    BY <1>4, InputSizes DEF DealtWith
  <1> QED
    BY <1>1, <1>2, <1>3, <1>4

\* A step that neither appends nor scores leaves what is dealt with as it is.
LEMMA QuietStep ==
    ASSUME TypeOK, NumberInv,
           \/ Begin \/ LoopEnds \/ Fail \/ Seeded \/ NextInput \/ IterationEnds
           \/ NoMatch \/ LookAgain \/ WaitCancelled \/ Finalize \/ Cancel
           \/ UNCHANGED vars
    PROVE  /\ NumberInv'
           /\ UNCHANGED <<storeVars, inputs, pairs>>
           /\ DealtWith' = DealtWith \/ (pc' = "failed" /\ DealtWith' >= DealtWith)
  <1> USE DEF sutVars, waitVars, startVars, scoreVars, storeVars
  <1>1. CASE Begin
    <2>1. /\ pc = "begin" /\ pc' = "seed" /\ start' = Len(In)
          /\ UNCHANGED <<storeVars, inputs, fresh, cur, pairs>>
      BY <1>1 DEF Begin, StartIteration
    <2>2. NumberInv'
      BY <2>1, InputSizes DEF NumberInv, In, Query, Appended
    <2>3. DealtWith' = DealtWith
      BY <2>1, InputSizes DEF NumberInv, DealtWith
    <2> QED
      BY <2>1, <2>2, <2>3
  <1>2. CASE LoopEnds \/ Finalize
    <2>1. /\ pc \notin {"seed", "pair", "wait"} /\ pc' \notin {"seed", "pair", "wait"}
          /\ UNCHANGED <<storeVars, inputs, fresh, cur, start, pairs>>
      BY <1>2 DEF LoopEnds, Finalize
    <2> QED
      BY <2>1 DEF NumberInv, DealtWith, In, Query, Appended
  <1>3. CASE Fail \/ WaitCancelled
    <2>1. /\ pc' = "failed"
          /\ UNCHANGED <<storeVars, inputs, fresh, cur, start, pairs>>
      BY <1>3 DEF Fail, WaitCancelled
    <2>2. NumberInv'
      BY <2>1 DEF NumberInv, In, Query, Appended
    <2>3. DealtWith' = Len(inputs)
      BY <2>1 DEF DealtWith
    <2> QED
      BY <2>1, <2>2, <2>3, DealtWithBound, InputSizes
  <1>4. CASE Seeded
    <2>1. /\ pc = "seed" /\ pc' = "pair" /\ fresh' = SubSeq(In, start + 1, Len(In))
          /\ UNCHANGED <<storeVars, inputs, start, pairs>>
      BY <1>4 DEF Seeded, Collect
    <2>2. In \in Seq(Event) /\ start <= Len(In)
      BY <2>1, StreamTypes, Topics DEF In, Query, NumberInv
    <2>3. /\ Len(fresh') = Len(In) - start
          /\ DOMAIN fresh' = 1..Len(In) - start
          /\ \A i \in 1..Len(In) - start : fresh'[i] = In[start + i]
      BY <2>1, <2>2, InputSizes
    <2>4. FreshFrom' = evicted[InTopic] + start
      <3>1. Len(inputs) = evicted[InTopic] + Len(In)
        BY InputSizes DEF NumberInv
      <3>2. FreshFrom' = Len(inputs) - (Len(In) - start)
        BY <2>1, <2>3 DEF FreshFrom
      <3> QED
        BY <3>1, <3>2, InputSizes
    <2>5. ASSUME NEW i \in DOMAIN fresh' PROVE fresh'[i].no = FreshFrom' + i
      <3>1. i \in Nat /\ start + i \in DOMAIN In /\ fresh'[i] = In[start + i]
        BY <2>3, InputSizes
      <3>2. In[start + i].no = evicted[InTopic] + (start + i)
        BY <3>1 DEF NumberInv
      <3> QED
        BY <2>4, <3>1, <3>2, InputSizes
    <2>6. Len(fresh') <= Len(inputs')
      BY <2>1, <2>3, InputSizes DEF NumberInv
    <2>7. NumberInv'
      BY <2>1, <2>5, <2>6 DEF NumberInv, In, Query, Appended
    <2>8. DealtWith' = DealtWith
      BY <2>1, <2>4 DEF DealtWith
    <2> QED
      BY <2>1, <2>7, <2>8
  <1>5. CASE NextInput
    <2>1. /\ pc = "pair" /\ pc' = "wait" /\ fresh # <<>> /\ cur' = Head(fresh) /\ fresh' = Tail(fresh)
          /\ UNCHANGED <<storeVars, inputs, start, pairs>>
      BY <1>5 DEF NextInput
    <2>2. /\ fresh \in Seq(Event) /\ Len(fresh) > 0 /\ Len(fresh') = Len(fresh) - 1
          /\ cur' = fresh[1] /\ DOMAIN fresh' = 1..Len(fresh) - 1
          /\ \A i \in 1..Len(fresh) - 1 : fresh'[i] = fresh[i + 1]
      BY <2>1 DEF TypeOK
    <2>3. FreshFrom' = FreshFrom + 1 /\ FreshFrom \in Int
      BY <2>1, <2>2, InputSizes DEF FreshFrom
    <2>4. \A i \in DOMAIN fresh : fresh[i].no = FreshFrom + i
      BY <2>1 DEF NumberInv
    <2>5. cur'.no = FreshFrom'
      BY <2>2, <2>3, <2>4, InputSizes
    <2>6. ASSUME NEW i \in DOMAIN fresh' PROVE fresh'[i].no = FreshFrom' + i
      <3>1. i \in Nat /\ i + 1 \in DOMAIN fresh /\ fresh'[i] = fresh[i + 1]
        BY <2>2, InputSizes
      <3>2. fresh[i + 1].no = FreshFrom + (i + 1)
        BY <2>4, <3>1
      <3> QED
        BY <2>3, <3>1, <3>2
    <2>7. Len(fresh') <= Len(inputs')
      BY <2>1, <2>2, InputSizes DEF NumberInv
    <2>8. NumberInv'
      BY <2>1, <2>5, <2>6, <2>7 DEF NumberInv, In, Query, Appended
    <2>9. DealtWith' = DealtWith
      BY <2>1, <2>3 DEF DealtWith
    <2> QED
      BY <2>1, <2>8, <2>9
  <1>6. CASE IterationEnds
    <2>1. /\ pc = "pair" /\ pc' = "begin" /\ fresh = <<>>
          /\ UNCHANGED <<storeVars, inputs, fresh, cur, start, pairs>>
      BY <1>6 DEF IterationEnds
    <2>2. NumberInv'
      BY <2>1 DEF NumberInv, In, Query, Appended
    <2>3. DealtWith' = DealtWith
      BY <2>1, InputSizes DEF DealtWith, FreshFrom
    <2> QED
      BY <2>1, <2>2, <2>3
  <1>7. CASE NoMatch \/ LookAgain \/ Cancel \/ UNCHANGED vars
    <2>1. UNCHANGED <<pc, storeVars, inputs, fresh, cur, start, pairs>>
      BY <1>7 DEF NoMatch, LookAgain, Cancel, vars
    <2>2. NumberInv'
      BY <2>1 DEF NumberInv, FreshFrom, In, Query, Appended
    <2>3. DealtWith' = DealtWith
      BY <2>1 DEF DealtWith, FreshFrom
    <2> QED
      BY <2>1, <2>2, <2>3
  <1> QED
    BY <1>1, <1>2, <1>3, <1>4, <1>5, <1>6, <1>7

\* A pair that is scored brings RunIterations one input further, and it is the next.
LEMMA ScoreStep ==
    ASSUME TypeOK, NumberInv, Match \/ Timeout
    PROVE  /\ NumberInv'
           /\ cur.no = DealtWith + 1 /\ DealtWith' = DealtWith + 1
           /\ UNCHANGED <<evicted, inputs, answered>> /\ pc' # "failed"
           /\ \E out, new : pairs' = Append(pairs, [in |-> cur.no, out |-> out,
                                                   new |-> new, early |-> early])
  <1>1. /\ pc = "wait" /\ pc' = "pair"
        /\ UNCHANGED <<storeVars, inputs, answered, fresh, cur, start>>
    BY DEF Match, TakeFirst, Timeout, GiveUpOn, Observe, Scored, sutVars, waitVars, startVars
  <1>2. \E out, new : pairs' = Append(pairs, [in |-> cur.no, out |-> out,
                                              new |-> new, early |-> early])
    BY DEF Match, TakeFirst, Timeout, GiveUpOn, Observe, Scored
  <1>3. NumberInv'
    BY <1>1 DEF NumberInv, FreshFrom, In, Query, Appended, storeVars
  <1>4. cur.no = DealtWith + 1 /\ DealtWith' = DealtWith + 1
    BY <1>1, InputSizes DEF NumberInv, DealtWith, FreshFrom
  <1> QED
    BY <1>1, <1>2, <1>3, <1>4 DEF storeVars

\* A seeded input has the next number, and eviction only moves the numbers along.
LEMMA SeedStep ==
    ASSUME TypeOK, CountsRetained, NumberInv, NEW k \in Keys, Seed(k)
    PROVE  /\ NumberInv' /\ pc' = pc /\ pairs' = pairs
           /\ DealtWith' >= DealtWith
           /\ evicted'[InTopic] = 0 => evicted[InTopic] = 0 /\ DealtWith' = DealtWith
  <1> DEFINE x == [key |-> k, no |-> Len(inputs) + 1]
             d == evicted'[InTopic] - evicted[InTopic]
  <1>1. x \in Event
    BY InputSizes DEF Event
  <1>2. /\ pc = "seed" /\ AppendEvent(InTopic, x)
        /\ inputs' = Append(inputs, [key |-> k, iter |-> iter])
        /\ UNCHANGED <<pc, start, pairs>>
    BY DEF Seed, startVars, scoreVars
  <1>3. inputs \in Seq(Input) /\ [key |-> k, iter |-> iter] \in Input
    BY EvalAssumption DEF TypeOK, Input
  <1>4. Len(inputs') = Len(inputs) + 1
    BY <1>2, <1>3
  <1>5. StoreTypeOK(Event) /\ Len(byStream[InTopic]) <= Cap /\ InTopic \in Streams
    BY Topics DEF TypeOK, CountsRetained
  <1> HIDE DEF x
  <1>6. /\ evicted'[InTopic] \in Nat /\ evicted'[InTopic] >= evicted[InTopic]
        /\ byStream'[InTopic] \in Seq(Event)
        /\ Len(byStream'[InTopic]) >= Len(byStream[InTopic])
        /\ evicted'[InTopic] + Len(byStream'[InTopic])
             = evicted[InTopic] + Len(byStream[InTopic]) + 1
        /\ \A i \in DOMAIN byStream'[InTopic] :
             IF i < Len(byStream'[InTopic])
             THEN /\ i + d \in DOMAIN byStream[InTopic]
                  /\ byStream'[InTopic][i] = byStream[InTopic][i + d]
             ELSE byStream'[InTopic][i] = x
    BY <1>1, <1>2, <1>5, AppendMoves
  <1>7. /\ In = byStream[InTopic] /\ In' = byStream'[InTopic]
        /\ Appended(InTopic)' = evicted'[InTopic] + Len(byStream'[InTopic])
    BY DEF In, Query, Appended
  <1>8. Len(In') \in Nat /\ DOMAIN In' = 1..Len(In')
    BY <1>6, <1>7
  <1>9. evicted[InTopic] + Len(In) = Len(inputs)
    BY InputSizes DEF NumberInv
  <1>10. Appended(InTopic)' = Len(inputs')
    BY <1>4, <1>6, <1>7, <1>9, InputSizes
  <1>11. ASSUME NEW i \in DOMAIN In' PROVE In'[i].no = evicted'[InTopic] + i
    <2>1. i \in Nat /\ i <= Len(In')
      BY <1>8
    <2>2. CASE i < Len(In')
      <3>1. i + d \in DOMAIN In /\ In'[i] = In[i + d]
        BY <1>6, <1>7, <2>2
      <3>2. In[i + d].no = evicted[InTopic] + (i + d)
        BY <3>1 DEF NumberInv
      <3>3. evicted[InTopic] + (i + d) = evicted'[InTopic] + i
        BY <1>6, <2>1, InputSizes
      <3> QED
        BY <3>1, <3>2, <3>3, Zenon
    <2>3. CASE i = Len(In')
      <3>1. In'[i] = x
        BY <1>6, <1>7, <1>8, <2>3
      <3>2. x.no = Len(inputs) + 1
        BY DEF x
      <3> QED
        BY <1>6, <1>7, <1>8, <1>9, <2>3, <3>1, <3>2, InputSizes
    <2> QED
      BY <1>8, <2>1, <2>2, <2>3
  <1>12. start' <= Len(In')
    BY <1>2, <1>6, <1>7, InputSizes DEF NumberInv
  <1>13. NumberInv'
    BY <1>2, <1>10, <1>11, <1>12 DEF NumberInv
  <1>14. DealtWith = evicted[InTopic] + start /\ DealtWith' = evicted'[InTopic] + start
    BY <1>2 DEF DealtWith
  <1>15. /\ DealtWith' >= DealtWith
         /\ evicted'[InTopic] = 0 => evicted[InTopic] = 0 /\ DealtWith' = DealtWith
    BY <1>6, <1>14, InputSizes
  <1> QED
    BY <1>2, <1>13, <1>15

\* An answer of the agent goes to its own topic.
LEMMA AnswerStep ==
    ASSUME TypeOK, CountsRetained, NumberInv, NEW n \in 1..MaxInputs, AgentAnswers(n)
    PROVE  /\ NumberInv' /\ pc' = pc /\ pairs' = pairs
           /\ evicted'[InTopic] = evicted[InTopic] /\ DealtWith' = DealtWith
  <1>1. UNCHANGED <<pc, inputs, fresh, cur, start, pairs>>
    BY DEF AgentAnswers, waitVars, startVars, scoreVars
  <1>2. evicted'[InTopic] = evicted[InTopic] /\ byStream'[InTopic] = byStream[InTopic]
    <2>1. CASE Observed
      BY <2>1, Topics DEF AgentAnswers, AppendEvent, TypeOK, StoreTypeOK
    <2>2. CASE ~Observed
      BY <2>2 DEF AgentAnswers, storeVars
    <2> QED
      BY <2>1, <2>2
  <1>3. NumberInv'
    BY <1>1, <1>2 DEF NumberInv, FreshFrom, In, Query, Appended
  <1>4. DealtWith' = DealtWith
    BY <1>1, <1>2 DEF DealtWith, FreshFrom
  <1> QED
    BY <1>1, <1>2, <1>3, <1>4

LEMMA DealtWithNext ==
    ASSUME TypeOK'
    PROVE  DealtWith' \in Int
  <1>1. /\ Len(inputs') \in Nat /\ Len(fresh') \in Nat
        /\ start' \in Nat /\ evicted'[InTopic] \in Nat
    BY Topics DEF TypeOK, StoreTypeOK
  <1> QED
    BY <1>1 DEF DealtWith, FreshFrom

LEMMA FailedIsFinal ==
    ASSUME [Next]_vars, pc = "failed"
    PROVE  pc' = "failed"
  BY DEF Next, Executor, vars, Begin, StartIteration, LoopEnds, Fail, Seeded, Collect,
         NextInput, IterationEnds, Match, TakeFirst, NoMatch, LookAgain, Timeout, GiveUpOn,
         WaitCancelled, Finalize, Cancel, Seed, AgentAnswers, Over

LEMMA InputStep ==
    ASSUME TypeOK, CountsRetained, NumberInv, ScoredInv, InputsScoredOnce, [Next]_vars
    PROVE  (NumberInv /\ ScoredInv /\ InputsScoredOnce)'
  <1>1. DealtWith \in Int
    BY DealtWithBound
  <1>2. pairs \in Seq(Pair) /\ \A i \in DOMAIN pairs : pairs[i].in \in Nat
    <2>1. pairs \in Seq(Pair)
      BY DEF TypeOK
    <2>2. \A i \in DOMAIN pairs : pairs[i] \in Pair
      BY <2>1
    <2> QED
      BY <2>1, <2>2 DEF Pair
  <1>3. CASE Match \/ Timeout
    <2>1. /\ NumberInv' /\ cur.no = DealtWith + 1 /\ DealtWith' = DealtWith + 1
          /\ UNCHANGED <<evicted, inputs, answered>> /\ pc' # "failed"
      BY <1>3, ScoreStep
    <2>2. PICK out, new : pairs' = Append(pairs, [in |-> cur.no, out |-> out,
                                                 new |-> new, early |-> early])
      BY <1>3, ScoreStep
    <2> DEFINE y == [in |-> cur.no, out |-> out, new |-> new, early |-> early]
               k == Len(pairs) + 1
    <2>3. y.in = DealtWith + 1
      BY <2>1
    <2> HIDE DEF y
    <2>4. /\ k \in Nat /\ DOMAIN pairs = 1..Len(pairs) /\ DOMAIN pairs' = 1..k
          /\ k \in DOMAIN pairs'
          /\ pairs'[k] = y /\ \A i \in DOMAIN pairs : pairs'[i] = pairs[i]
      BY <1>2, <2>2 DEF y
    <2>5. \A i \in DOMAIN pairs' : i \in DOMAIN pairs \/ i = k
      BY <1>2, <2>4
    <2>6. \A i \in DOMAIN pairs : pairs[i].in <= DealtWith /\ i < k
      BY <1>2, <2>4 DEF ScoredInv
    <2> HIDE DEF k
    <2>7. \A i \in DOMAIN pairs' : pairs'[i].in <= DealtWith'
      BY <1>1, <1>2, <2>1, <2>3, <2>4, <2>5, <2>6
    <2>8. ASSUME evicted'[InTopic] = 0, NEW n \in 1..DealtWith'
          PROVE  \E i \in DOMAIN pairs' : pairs'[i].in = n
      <3>1. CASE n = DealtWith + 1
        BY <2>3, <2>4, <3>1
      <3>2. CASE n # DealtWith + 1
        <4>1. n \in 1..DealtWith
          BY <1>1, <2>1, <3>2
        <4>2. pc # "failed" /\ evicted[InTopic] = 0
          BY <1>3, <2>1, <2>8 DEF Match, TakeFirst, Timeout, GiveUpOn
        <4>3. PICK i \in DOMAIN pairs : pairs[i].in = n
          BY <4>1, <4>2 DEF ScoredInv
        <4>4. i \in DOMAIN pairs'
          BY <2>4, <2>6, <4>3
        <4> QED
          BY <2>4, <4>3, <4>4
      <3> QED
        BY <3>1, <3>2
    <2>9. ScoredInv'
      BY <2>7, <2>8 DEF ScoredInv
    <2>10. ASSUME NEW i \in DOMAIN pairs', NEW j \in DOMAIN pairs', i < j
           PROVE  pairs'[i].in < pairs'[j].in
      <3>1. i \in DOMAIN pairs
        BY <2>4, <2>5, <2>6, <2>10
      <3>2. CASE j = k
        BY <1>1, <1>2, <2>3, <2>4, <2>6, <3>1, <3>2
      <3>3. CASE j \in DOMAIN pairs
        BY <2>4, <2>10, <3>1, <3>3 DEF InputsScoredOnce
      <3> QED
        BY <2>5, <3>2, <3>3
    <2>11. InputsScoredOnce'
      BY <2>10 DEF InputsScoredOnce
    <2> QED
      BY <2>1, <2>9, <2>11
  <1>4. CASE ~(Match \/ Timeout)
    <2> DEFINE Onward == /\ NumberInv' /\ pairs' = pairs
                         /\ DealtWith' >= DealtWith
                         /\ evicted'[InTopic] = 0 /\ pc' # "failed" =>
                               evicted[InTopic] = 0 /\ DealtWith' = DealtWith
    <2>1. Onward
      <3>1. ASSUME NEW k \in Keys, Seed(k) PROVE Onward
        BY <3>1, SeedStep
      <3>2. ASSUME NEW n \in 1..MaxInputs, AgentAnswers(n) PROVE Onward
        BY <1>1, <3>2, AnswerStep
      <3>3. CASE \/ Begin \/ LoopEnds \/ Fail \/ Seeded \/ NextInput \/ IterationEnds
                 \/ NoMatch \/ LookAgain \/ WaitCancelled \/ Finalize \/ Cancel
                 \/ UNCHANGED vars
        BY <1>1, <3>3, QuietStep DEF storeVars
      <3> QED
        BY <1>4, <3>1, <3>2, <3>3 DEF Next, Executor
    <2>2. DealtWith' \in Int
      BY TypeStep, DealtWithNext
    <2>3. ScoredInv'
      BY <1>1, <1>2, <2>1, <2>2, FailedIsFinal DEF ScoredInv
    <2>4. InputsScoredOnce'
      BY <2>1 DEF InputsScoredOnce
    <2> QED
      BY <2>1, <2>3, <2>4
  <1> QED
    BY <1>3, <1>4

-----------------------------------------------------------------------------
(* Outputs                                                                 *)

\* A new answer has a number no stored output has.
LEMMA AnswerStored ==
    ASSUME TypeOK, CountsRetained, OutputInv, NEW n \in 1..MaxInputs, AgentAnswers(n)
    PROVE  OutputInv' /\ evicted'[OutTopic] \in Nat /\ evicted'[OutTopic] >= evicted[OutTopic]
  <1>1. /\ n \in Nat /\ n # 0 /\ n \notin answered /\ answered' = answered \cup {n}
        /\ UNCHANGED <<used, pairs>>
    BY DEF AgentAnswers, waitVars, scoreVars
  <1>2. evicted[OutTopic] \in Nat
    BY Topics, StreamTypes
  <1>3. CASE ~Observed
    <2>1. UNCHANGED <<byStream, evicted>>
      BY <1>3 DEF AgentAnswers, storeVars
    <2> QED
      BY <1>1, <1>2, <2>1 DEF OutputInv, Out, Query
  <1>4. CASE Observed
    <2> DEFINE x == [key |-> inputs[n].key, no |-> n]
               d == evicted'[OutTopic] - evicted[OutTopic]
    <2>1. AppendEvent(OutTopic, x) /\ x.no = n
      BY <1>4 DEF AgentAnswers
    <2>2. x \in Event
      <3>1. inputs \in Seq(Input) /\ n \in DOMAIN inputs
        BY DEF AgentAnswers, TypeOK
      <3>2. inputs[n] \in Input
        BY <3>1
      <3> QED
        BY <1>1, <3>2 DEF Event, Input
    <2>3. StoreTypeOK(Event) /\ Len(byStream[OutTopic]) <= Cap /\ OutTopic \in Streams
      BY Topics DEF TypeOK, CountsRetained
    <2> HIDE DEF x
    <2>4. /\ evicted'[OutTopic] \in Nat /\ evicted'[OutTopic] >= evicted[OutTopic]
          /\ byStream'[OutTopic] \in Seq(Event)
          /\ Len(byStream'[OutTopic]) >= Len(byStream[OutTopic])
          /\ evicted'[OutTopic] + Len(byStream'[OutTopic])
               = evicted[OutTopic] + Len(byStream[OutTopic]) + 1
          /\ \A i \in DOMAIN byStream'[OutTopic] :
               IF i < Len(byStream'[OutTopic])
               THEN /\ i + d \in DOMAIN byStream[OutTopic]
                    /\ byStream'[OutTopic][i] = byStream[OutTopic][i + d]
               ELSE byStream'[OutTopic][i] = x
      BY <2>1, <2>2, <2>3, AppendMoves
    <2>5. Out = byStream[OutTopic] /\ Out' = byStream'[OutTopic]
      BY DEF Out, Query
    <2>6. /\ DOMAIN Out = 1..Len(Out) /\ DOMAIN Out' = 1..Len(Out')
          /\ Len(Out) \in Nat /\ Len(Out') \in Nat /\ Len(Out') >= Len(Out)
      BY <2>4, <2>5, StreamTypes, Topics
    <2>7. \A i \in DOMAIN Out' : i < Len(Out') => i + d \in DOMAIN Out /\ Out'[i] = Out[i + d]
      BY <2>4, <2>5
    <2>8. \A i \in DOMAIN Out' : i = Len(Out') => Out'[i].no = n
      <3>1. \A i \in DOMAIN Out' : ~(i < Len(Out')) => Out'[i] = x
        BY <2>4, <2>5
      <3> QED
        BY <2>1, <2>6, <3>1
    <2>9. d \in Nat
      BY <1>2, <2>4
    <2>10. \A i \in DOMAIN Out' : i \in Nat /\ (i < Len(Out') \/ i = Len(Out'))
      BY <2>6
    <2>11. used' \subseteq DOMAIN Out'
      BY <1>1, <2>6 DEF OutputInv
    <2>12. ASSUME NEW i \in DOMAIN Out' PROVE Out'[i].no \in answered' \cup {0}
      BY <1>1, <2>7, <2>8, <2>10 DEF OutputInv
    <2>13. ASSUME NEW i \in DOMAIN Out', NEW j \in DOMAIN Out', Out'[i].no = Out'[j].no
           PROVE  i = j
      <3>1. ASSUME NEW h \in DOMAIN Out', h < Len(Out') PROVE Out'[h].no # n
        BY <1>1, <2>7, <3>1 DEF OutputInv
      <3>2. CASE i < Len(Out') /\ j < Len(Out')
        <4>1. /\ i + d \in DOMAIN Out /\ Out'[i] = Out[i + d]
              /\ j + d \in DOMAIN Out /\ Out'[j] = Out[j + d]
          BY <2>7, <3>2
        <4>2. i + d = j + d
          BY <2>13, <4>1 DEF OutputInv
        <4> QED
          BY <2>9, <2>10, <4>2
      <3>3. CASE i = Len(Out') \/ j = Len(Out')
        BY <2>8, <2>10, <2>13, <3>1, <3>3
      <3> QED
        BY <2>10, <3>2, <3>3
    <2>14. ASSUME evicted'[OutTopic] = 0, NEW j \in DOMAIN pairs', pairs'[j].out # Missing
           PROVE  \E i \in used' : Out'[i].no = pairs'[j].out
      <3>1. evicted[OutTopic] = 0 /\ d = 0 /\ Len(Out') = Len(Out) + 1
        BY <1>2, <2>4, <2>5, <2>6, <2>14
      <3>2. PICK i \in used : Out[i].no = pairs[j].out
        BY <1>1, <2>14, <3>1 DEF OutputInv
      <3>3. i \in DOMAIN Out' /\ i < Len(Out') /\ i + d = i
        BY <2>6, <3>1 DEF OutputInv
      <3>4. Out'[i] = Out[i]
        BY <2>7, <3>3
      <3> QED
        BY <1>1, <3>2, <3>4
    <2> HIDE DEF d
    <2> QED
      BY <2>4, <2>11, <2>12, <2>13, <2>14 DEF OutputInv
  <1> QED
    BY <1>3, <1>4

\* The pair that a match scores: an output stored since the iteration began, which
\* no earlier pair has as long as nothing was evicted.
LEMMA MatchStep ==
    ASSUME TypeOK, OutputInv, OutputsScoredOnce, BoundInv, NoOldOutput, Match
    PROVE  (OutputInv /\ OutputsScoredOnce /\ NoOldOutput)'
  <1>1. PICK i \in DOMAIN Out :
          /\ i > lower /\ i \notin used /\ used' = used \cup {i}
          /\ Out[i].no \in Nat
          /\ (evicted[OutTopic] + i > bound) \in BOOLEAN
          /\ Observe(Out[i].no, evicted[OutTopic] + i > bound)
    BY MatchTakes
  <1> DEFINE new == evicted[OutTopic] + i > bound
             y == [in |-> cur.no, out |-> Out[i].no, new |-> new, early |-> early]
             k == Len(pairs) + 1
  <1>2. pc = "wait" /\ UNCHANGED <<byStream, evicted, answered>>
    BY DEF Match, TakeFirst, storeVars, sutVars
  <1>3. new
    <2>1. bound <= evicted[OutTopic] + lower
      BY <1>2 DEF BoundInv
    <2>2. bound \in Nat /\ lower \in Nat /\ evicted[OutTopic] \in Nat /\ i \in Nat
      BY StreamTypes, Topics DEF TypeOK, Out, Query
    <2> QED
      BY <1>1, <2>1, <2>2
  <1>4. pairs' = Append(pairs, y)
    BY <1>1, ObserveType
  <1>5. y.out = Out[i].no /\ y.new
    BY <1>3
  <1> HIDE DEF y, new
  <1>6. /\ DOMAIN pairs' = DOMAIN pairs \cup {k} /\ k \notin DOMAIN pairs
        /\ pairs'[k] = y /\ \A j \in DOMAIN pairs : pairs'[j] = pairs[j]
    <2>1. pairs \in Seq(Pair)
      BY DEF TypeOK
    <2> QED
      BY <1>4, <2>1
  <1> HIDE DEF k
  <1>7. Out' = Out
    BY <1>2 DEF Out, Query
  <1>8. OutputInv'
    <2>1. ASSUME evicted'[OutTopic] = 0, NEW j \in DOMAIN pairs', pairs'[j].out # Missing
          PROVE  \E h \in used' : Out'[h].no = pairs'[j].out
      <3>1. CASE j = k
        BY <1>1, <1>5, <1>6, <1>7, <3>1
      <3>2. CASE j \in DOMAIN pairs
        <4>1. PICK h \in used : Out[h].no = pairs[j].out
          BY <1>2, <1>6, <2>1, <3>2 DEF OutputInv
        <4> QED
          BY <1>1, <1>6, <1>7, <3>2, <4>1
      <3> QED
        BY <1>6, <3>1, <3>2
    <2>2. used' \subseteq DOMAIN Out'
      BY <1>1, <1>7 DEF OutputInv
    <2> QED
      BY <1>2, <1>7, <2>1, <2>2 DEF OutputInv
  <1>9. OutputsScoredOnce'
    <2>1. ASSUME evicted[OutTopic] = 0, NEW j \in DOMAIN pairs, pairs[j].out # Missing
          PROVE  pairs[j].out # Out[i].no
      <3>1. PICK h \in used : Out[h].no = pairs[j].out
        BY <2>1 DEF OutputInv
      <3> QED
        BY <1>1, <3>1 DEF OutputInv
    <2> QED
      BY <1>2, <1>5, <1>6, <2>1 DEF OutputsScoredOnce
  <1>10. NoOldOutput'
    BY <1>5, <1>6 DEF NoOldOutput
  <1> QED
    BY <1>8, <1>9, <1>10

\* An input that is given up on has no output.
LEMMA TimeoutStep ==
    ASSUME TypeOK, OutputInv, OutputsScoredOnce, NoOldOutput, Timeout
    PROVE  (OutputInv /\ OutputsScoredOnce /\ NoOldOutput)'
  <1> DEFINE y == [in |-> cur.no, out |-> Missing, new |-> TRUE, early |-> early]
             k == Len(pairs) + 1
  <1>1. pairs' = Append(pairs, y) /\ UNCHANGED <<byStream, evicted, answered, used>>
    BY ObserveType DEF Timeout, GiveUpOn, storeVars, sutVars, waitVars
  <1>2. y.out = Missing /\ y.new
    OBVIOUS
  <1> HIDE DEF y
  <1>3. /\ DOMAIN pairs' = DOMAIN pairs \cup {k} /\ k \notin DOMAIN pairs
        /\ pairs'[k] = y /\ \A j \in DOMAIN pairs : pairs'[j] = pairs[j]
    <2>1. pairs \in Seq(Pair)
      BY DEF TypeOK
    <2> QED
      BY <1>1, <2>1
  <1> HIDE DEF k
  <1>4. Out' = Out
    BY <1>1 DEF Out, Query
  <1>5. OutputInv'
    BY <1>1, <1>2, <1>3, <1>4 DEF OutputInv
  <1>6. OutputsScoredOnce'
    BY <1>1, <1>2, <1>3 DEF OutputsScoredOnce
  <1>7. NoOldOutput'
    BY <1>2, <1>3 DEF NoOldOutput
  <1> QED
    BY <1>5, <1>6, <1>7

LEMMA OutputStep ==
    ASSUME TypeOK, CountsRetained, OutputInv, OutputsScoredOnce, BoundInv, NoOldOutput,
           [Next]_vars
    PROVE  (OutputInv /\ OutputsScoredOnce /\ BoundInv /\ NoOldOutput)'
  <1> DEFINE Grown == evicted'[OutTopic] \in Nat /\ evicted'[OutTopic] >= evicted[OutTopic]
  <1>1. evicted[OutTopic] \in Nat /\ Len(Out) \in Nat /\ Appended(OutTopic) = evicted[OutTopic] + Len(Out)
    BY StreamTypes, Topics DEF Appended, Out, Query
  <1>2. ASSUME UNCHANGED <<used, answered, pairs>>,
               evicted'[OutTopic] = evicted[OutTopic], byStream'[OutTopic] = byStream[OutTopic]
        PROVE  (OutputInv /\ OutputsScoredOnce /\ NoOldOutput)'
    BY <1>2 DEF OutputInv, OutputsScoredOnce, NoOldOutput, Out, Query
  <1>3. (OutputInv /\ OutputsScoredOnce /\ NoOldOutput)' /\ Grown
    <2>1. CASE Match
      BY <1>1, <2>1, MatchStep DEF Match, TakeFirst, storeVars
    <2>2. CASE Timeout
      BY <1>1, <2>2, TimeoutStep DEF Timeout, GiveUpOn, storeVars
    <2>3. ASSUME NEW n \in 1..MaxInputs, AgentAnswers(n)
          PROVE  (OutputInv /\ OutputsScoredOnce /\ NoOldOutput)' /\ Grown
      <3>1. OutputInv' /\ Grown
        BY <2>3, AnswerStored
      <3>2. pairs' = pairs
        BY <2>3 DEF AgentAnswers, scoreVars
      <3>3. evicted'[OutTopic] = 0 => evicted[OutTopic] = 0
        BY <1>1, <3>1
      <3> QED
        BY <3>1, <3>2, <3>3 DEF OutputsScoredOnce, NoOldOutput
    <2>4. ASSUME NEW k \in Keys, Seed(k)
          PROVE  (OutputInv /\ OutputsScoredOnce /\ NoOldOutput)' /\ Grown
      <3>1. UNCHANGED <<used, answered, pairs>>
        BY <2>4 DEF Seed, waitVars, scoreVars
      <3>2. evicted'[OutTopic] = evicted[OutTopic] /\ byStream'[OutTopic] = byStream[OutTopic]
        BY <2>4, Topics DEF Seed, AppendEvent, TypeOK, StoreTypeOK
      <3> QED
        BY <1>1, <1>2, <3>1, <3>2
    <2>5. CASE \/ Begin \/ LoopEnds \/ Fail \/ Seeded \/ NextInput \/ IterationEnds
               \/ NoMatch \/ LookAgain \/ WaitCancelled \/ Finalize \/ Cancel
               \/ UNCHANGED vars
      <3>1. UNCHANGED <<used, answered, pairs, evicted, byStream>>
        BY <2>5 DEF Begin, StartIteration, LoopEnds, Fail, Seeded, Collect, NextInput,
                    IterationEnds, NoMatch, LookAgain, WaitCancelled, Finalize, Cancel,
                    vars, storeVars, sutVars, waitVars, scoreVars
      <3> QED
        BY <1>1, <1>2, <3>1
    <2> QED
      BY <2>1, <2>2, <2>3, <2>4, <2>5 DEF Next, Executor
  <1>4. BoundInv'
    <2>1. bound \in Nat /\ lower \in Nat
      BY DEF TypeOK
    <2>2. CASE Begin
      BY <1>1, <2>2 DEF Begin, StartIteration, BoundInv, storeVars
    <2>3. CASE ~Begin
      <3>1. /\ UNCHANGED <<bound, lower>>
            /\ pc' \in {"seed", "pair", "wait"} => pc \in {"seed", "pair", "wait"}
        BY <2>3 DEF Next, Executor, vars, LoopEnds, Fail, Seeded, Collect,
           NextInput, IterationEnds, Match, TakeFirst, NoMatch, LookAgain, Timeout, GiveUpOn,
           Observe, Scored, WaitCancelled, Finalize, Cancel, Seed, AgentAnswers, startVars
      <3> QED
        BY <1>1, <1>3, <2>1, <3>1 DEF BoundInv
    <2> QED
      BY <2>2, <2>3
  <1> QED
    BY <1>3, <1>4

-----------------------------------------------------------------------------
(* Samples                                                                 *)

\* A scored pair is one more sample or error of every eval, of a new input.
LEMMA SampleScored ==
    ASSUME TypeOK, NumberInv, ScoredInv, SampleInv, Match \/ Timeout
    PROVE  SampleInv'
  <1>1. pc = "wait"
    BY DEF Match, TakeFirst, Timeout, GiveUpOn
  <1>2. PICK out \in Nat \cup {Missing}, new \in BOOLEAN : Observe(out, new)
    <2>1. CASE Match
      BY <2>1, MatchTakes
    <2>2. CASE Timeout
      BY <2>2 DEF Timeout, GiveUpOn
    <2> QED
      BY <2>1, <2>2
  <1> DEFINE y == [in |-> cur.no, out |-> out, new |-> new, early |-> early]
  <1>3. /\ agg' \in [Evals -> Nat] /\ errs' \in [Evals -> Nat]
        /\ \A e \in Evals : agg'[e] + errs'[e] = agg[e] + errs[e] + 1
        /\ pairs' = Append(pairs, y)
        /\ pc' = "pair" /\ status' = status
    BY <1>2, ObserveType
  <1>4. y.in = cur.no
    OBVIOUS
  <1> HIDE DEF y
  <1>5. pairs \in Seq(Pair)
    BY DEF TypeOK
  <1>6. /\ Len(pairs) \in Nat /\ Len(pairs') = Len(pairs) + 1
        /\ DOMAIN pairs' = DOMAIN pairs \cup {Len(pairs) + 1}
        /\ pairs'[Len(pairs) + 1] = y /\ \A i \in DOMAIN pairs : pairs'[i] = pairs[i]
    BY <1>3, <1>5
  <1>7. ScoredInputs' = ScoredInputs \cup {cur.no}
    BY <1>4, <1>6 DEF ScoredInputs
  <1>8. cur.no \notin ScoredInputs
    <2>1. cur.no = DealtWith + 1 /\ DealtWith \in Int
      BY ScoreStep, DealtWithBound
    <2>2. \A i \in DOMAIN pairs : pairs[i].in <= DealtWith
      BY DEF ScoredInv
    <2>3. \A i \in DOMAIN pairs : pairs[i].in # cur.no
      BY <2>1, <2>2
    <2> QED
      BY <2>3 DEF ScoredInputs
  <1>9. IsFiniteSet(ScoredInputs') /\ Cardinality(ScoredInputs') = Len(pairs')
    BY <1>6, <1>7, <1>8, FS_AddElement DEF SampleInv
  <1>10. \A e \in Evals : status'[e] = ""
    BY <1>1, <1>3 DEF SampleInv
  <1>11. \A e \in Evals : agg'[e] + errs'[e] = Len(pairs')
    BY <1>3, <1>6 DEF SampleInv, PassRestsOnSamples
  <1>12. PassRestsOnSamples'
    BY <1>10, <1>11 DEF PassRestsOnSamples
  <1> QED
    BY <1>9, <1>10, <1>12 DEF SampleInv

\* finalizeStatus passes an eval only on its samples, which are not more than the
\* scored inputs.
LEMMA FinalizeStep ==
    ASSUME TypeOK, SampleInv, Finalize
    PROVE  SampleInv'
  <1>1. /\ UNCHANGED <<agg, errs, pairs>> /\ pc' = "done"
    BY DEF Finalize
  <1>2. PICK met \in SUBSET Evals : status' = [e \in Evals |-> StatusOf(e, e \in met)]
    BY DEF Finalize
  <1>3. Cardinality(ScoredInputs) = Len(pairs) /\ ScoredInputs' = ScoredInputs
    BY <1>1 DEF SampleInv, ScoredInputs
  <1>4. ASSUME NEW e \in Evals, status'[e] = "pass"
        PROVE  agg[e] > 0 /\ Cardinality(ScoredInputs) >= RequiredOver[e]
    <2>1. agg[e] \in Nat /\ errs[e] \in Nat /\ RequiredOver[e] \in Nat
      BY EvalAssumption DEF TypeOK
    <2>2. agg[e] # 0 /\ ~(agg[e] < RequiredOver[e])
      BY <1>2, <1>4 DEF StatusOf
    <2>3. agg[e] + errs[e] = Len(pairs)
      BY DEF SampleInv, PassRestsOnSamples
    <2> QED
      BY <1>3, <2>1, <2>2, <2>3
  <1>5. \A e \in Evals : agg'[e] + errs'[e] = Len(pairs')
    BY <1>1 DEF SampleInv, PassRestsOnSamples
  <1>6. PassRestsOnSamples'
    BY <1>1, <1>3, <1>4, <1>5 DEF PassRestsOnSamples, ScoredInputs
  <1> QED
    BY <1>1, <1>3, <1>6 DEF SampleInv

LEMMA SampleStep ==
    ASSUME TypeOK, NumberInv, ScoredInv, SampleInv, [Next]_vars
    PROVE  SampleInv'
  <1>1. CASE Match \/ Timeout
    BY <1>1, SampleScored
  <1>2. CASE Finalize
    BY <1>2, FinalizeStep
  <1>3. CASE ~(Match \/ Timeout \/ Finalize)
    <2>1. UNCHANGED scoreVars /\ (pc' # "done" => pc # "done")
      BY <1>3 DEF Next, Executor, vars, Begin, StartIteration, LoopEnds, Fail, Seeded, Collect,
         NextInput, IterationEnds, NoMatch, LookAgain, WaitCancelled, Cancel, Seed,
         AgentAnswers, Over
    <2>2. UNCHANGED <<agg, errs, status, pairs>>
      BY <2>1 DEF scoreVars
    <2> QED
      BY <2>1, <2>2 DEF SampleInv, ScoredInputs, PassRestsOnSamples
  <1> QED
    BY <1>1, <1>2, <1>3

-----------------------------------------------------------------------------
(* Theorems                                                                *)

LEMMA InitInv == Init => IInv
  <1> SUFFICES ASSUME Init PROVE IInv
    OBVIOUS
  <1>1. TypeOK
    BY InitType
  <1>2. PICK old \in {<<>>} \cup {<<[key |-> k, no |-> 0]>> : k \in Keys} :
          /\ byStream = [s \in Streams |-> IF s = OutTopic THEN old ELSE <<>>]
          /\ total = Len(old)
    BY DEF Init
  <1>3. In = <<>> /\ Out = old /\ evicted[InTopic] = 0 /\ evicted[OutTopic] = 0
    BY <1>2, Topics DEF Init, In, Out, Query
  <1>4. pc = "begin" /\ inputs = <<>> /\ pairs = <<>> /\ used = {}
    BY DEF Init
  <1>5. \/ old = <<>> /\ Len(old) = 0 /\ DOMAIN old = {}
        \/ Len(old) = 1 /\ DOMAIN old = {1} /\ old[1].no = 0
    <2>1. old = <<>> \/ \E k \in Keys : old = <<[key |-> k, no |-> 0]>>
      BY Zenon
    <2>2. ASSUME NEW k \in Keys, old = <<[key |-> k, no |-> 0]>>
          PROVE  Len(old) = 1 /\ DOMAIN old = {1} /\ old[1].no = 0
      BY <2>2
    <2> QED
      BY <2>1, <2>2
  <1>6. IsFiniteSet(Retained) /\ CountsRetained
    <2>1. Retained = {OutTopic} \X DOMAIN old
      BY <1>2, Topics DEF Retained
    <2>2. \A s \in Streams : Len(byStream[s]) <= Cap
      BY <1>2, <1>5, StoreAssumption
    <2>3. CASE DOMAIN old = {} /\ Len(old) = 0
      <3>1. Retained = {}
        BY <2>1, <2>3
      <3> QED
        BY <1>2, <2>2, <2>3, <3>1, FS_EmptySet DEF CountsRetained
    <2>4. CASE DOMAIN old = {1} /\ Len(old) = 1
      <3>1. Retained = {} \cup {<<OutTopic, 1>>}
        BY <2>1, <2>4
      <3>2. IsFiniteSet(Retained) /\ Cardinality(Retained) = 1
        <4>1. IsFiniteSet({}) /\ Cardinality({}) = 0 /\ <<OutTopic, 1>> \notin {}
          BY FS_EmptySet
        <4>2. /\ IsFiniteSet({} \cup {<<OutTopic, 1>>})
              /\ Cardinality({} \cup {<<OutTopic, 1>>}) = 0 + 1
          BY <4>1, FS_AddElement
        <4> QED
          BY <3>1, <4>2
      <3> QED
        BY <1>2, <2>2, <2>4, <3>2 DEF CountsRetained
    <2> QED
      BY <1>5, <2>3, <2>4
  <1>7. NumberInv /\ ScoredInv /\ InputsScoredOnce
    BY <1>3, <1>4 DEF NumberInv, ScoredInv, DealtWith, InputsScoredOnce, Appended, In, Query
  <1>8. OutputInv /\ OutputsScoredOnce /\ BoundInv /\ NoOldOutput
    BY <1>3, <1>4, <1>5 DEF OutputInv, OutputsScoredOnce, BoundInv, NoOldOutput
  <1>9. SampleInv
    <2>1. ScoredInputs = {}
      BY <1>4 DEF ScoredInputs
    <2>2. /\ agg = [e \in Evals |-> 0] /\ errs = [e \in Evals |-> 0]
          /\ status = [e \in Evals |-> ""]
      BY DEF Init
    <2>3. IsFiniteSet(ScoredInputs) /\ Cardinality(ScoredInputs) = Len(pairs)
      <3>1. Len(pairs) = 0
        BY <1>4
      <3> QED
        BY <2>1, <3>1, FS_EmptySet
    <2>4. \A e \in Evals : agg[e] + errs[e] = Len(pairs) /\ status[e] = ""
      <3>1. Len(pairs) = 0
        BY <1>4
      <3>2. \A e \in Evals : agg[e] = 0 /\ errs[e] = 0
        BY <2>2
      <3>3. \A e \in Evals : agg[e] + errs[e] = Len(pairs)
        BY <3>1, <3>2
      <3>4. \A e \in Evals : status[e] = ""
        BY <2>2
      <3> QED
        BY <3>3, <3>4, Zenon
    <2> QED
      BY <2>3, <2>4 DEF SampleInv, PassRestsOnSamples
  <1> QED
    BY <1>1, <1>6, <1>7, <1>8, <1>9 DEF IInv

LEMMA NextInv == IInv /\ [Next]_vars => IInv'
  <1> SUFFICES ASSUME IInv, [Next]_vars PROVE IInv'
    OBVIOUS
  <1>1. TypeOK'
    BY TypeStep DEF IInv
  <1>2. (IsFiniteSet(Retained) /\ CountsRetained)'
    BY CountsStep DEF IInv
  <1>3. (NumberInv /\ ScoredInv /\ InputsScoredOnce)'
    BY InputStep DEF IInv
  <1>4. (OutputInv /\ OutputsScoredOnce /\ BoundInv /\ NoOldOutput)'
    BY OutputStep DEF IInv
  <1>5. SampleInv'
    BY SampleStep DEF IInv
  <1> QED
    BY <1>1, <1>2, <1>3, <1>4, <1>5 DEF IInv

\* The inductive invariant of an eval: store and cursors, what was scored, what is
\* marked as used, how many samples there are.
THEOREM Invariance == Spec => []IInv
  BY InitInv, NextInv, PTL DEF Spec

\* RunIterations and its actors keep their types.
THEOREM TypeCorrect == Spec => []TypeOK
  <1>1. IInv => TypeOK
    BY DEF IInv
  <1> QED
    BY <1>1, Invariance, PTL

\* MemStore.Len() is the number of retained events and no stream outgrows its cap,
\* for every cap and whatever is appended to which stream.
THEOREM CountsHold == Spec => []CountsRetained
  <1>1. IInv => CountsRetained
    BY DEF IInv
  <1> QED
    BY <1>1, Invariance, PTL

\* freshInputsAfter and scorePair score inputs in order and each at most once, for
\* any cap, number of iterations and seeds.
THEOREM InputsScoredOnceHolds == Spec => []InputsScoredOnce
  <1>1. IInv => InputsScoredOnce
    BY DEF IInv
  <1> QED
    BY <1>1, Invariance, PTL

\* After each iteration every input was scored, unless the input stream evicts.
THEOREM EveryInputScoredHolds == Spec => []EveryInputScored
  <1>1. IInv => EveryInputScored
    <2> SUFFICES ASSUME IInv, pc \in {"begin", "finalize", "done"}, evicted[InTopic] = 0,
                        NEW n \in DOMAIN inputs
                 PROVE  \E i \in DOMAIN pairs : pairs[i].in = n
      BY DEF EveryInputScored
    <2>1. DealtWith = Len(inputs) /\ n \in 1..Len(inputs)
      BY DEF DealtWith, IInv, TypeOK
    <2> QED
      BY <2>1 DEF IInv, ScoredInv
  <1> QED
    BY <1>1, Invariance, PTL

\* waitForOutput gives no output to two inputs, unless the output stream evicts.
THEOREM OutputsScoredOnceHolds == Spec => []OutputsScoredOnce
  <1>1. IInv => OutputsScoredOnce
    BY DEF IInv
  <1> QED
    BY <1>1, Invariance, PTL

\* No output that was stored before an iteration began is scored in it, also when
\* the stream evicts.
THEOREM NoOldOutputHolds == Spec => []NoOldOutput
  <1>1. IInv => NoOldOutput
    BY DEF IInv
  <1> QED
    BY <1>1, Invariance, PTL

\* An eval passes only on its minimum of samples, each from an input of its own.
THEOREM PassRestsOnSamplesHolds == Spec => []PassRestsOnSamples
  <1>1. IInv => PassRestsOnSamples
    BY DEF IInv, SampleInv
  <1> QED
    BY <1>1, Invariance, PTL
=============================================================================
