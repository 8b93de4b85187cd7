----------------------------- MODULE EventStore -----------------------------
(***************************************************************************)
(* events.MemStore (pkg/events/store.go): one slice of events per stream,  *)
(* capped, the oldest event evicted first.  Every method holds the mutex,  *)
(* so each is one step.  Readers keep copies and lengths of slices, which  *)
(* eviction makes stale: evicted[s] counts what stream s has lost, so the  *)
(* event at index i of a slice is the (evicted[s] + i)-th ever appended.   *)
(***************************************************************************)
EXTENDS Naturals, Sequences, FiniteSets

CONSTANTS
    Streams,   \* names of streams
    Cap        \* capPerStream

ASSUME StoreAssumption == Cap \in Nat \ {0} /\ IsFiniteSet(Streams)

VARIABLES
    byStream,  \* stream -> its events, oldest first
    total,     \* MemStore.total, what Len() returns
    evicted    \* history: stream -> events dropped so far

storeVars == <<byStream, total, evicted>>

StoreTypeOK(Event) ==
    /\ byStream \in [Streams -> Seq(Event)]
    /\ total \in Nat
    /\ evicted \in [Streams -> Nat]

Query(s) == byStream[s]

IsFull(s) == Len(byStream[s]) >= Cap

Newest(s, e) == Append(IF IsFull(s) THEN Tail(byStream[s]) ELSE byStream[s], e)

\* A plausible bug: eviction does not take the dropped event off the total.
AppendMiscounted(s, e) ==
    /\ byStream' = [byStream EXCEPT ![s] = Newest(s, e)]
    /\ evicted' = IF IsFull(s) THEN [evicted EXCEPT ![s] = @ + 1] ELSE evicted
    /\ total' = total + 1

\* MemStore.Append
AppendEvent(s, e) ==
    /\ byStream' = [byStream EXCEPT ![s] = Newest(s, e)]
    /\ evicted' = IF IsFull(s) THEN [evicted EXCEPT ![s] = @ + 1] ELSE evicted
    /\ total' = IF IsFull(s) THEN total ELSE total + 1

-----------------------------------------------------------------------------
\* What Len() tells the reports (EventCount) is what a reader of all streams
\* would count, and no stream outgrows its cap.
Retained == UNION {{s} \X DOMAIN byStream[s] : s \in Streams}

CountsRetained ==
    /\ total = Cardinality(Retained)
    /\ \A s \in Streams : Len(byStream[s]) <= Cap
=============================================================================
