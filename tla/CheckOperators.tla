--------------------------- MODULE CheckOperators ---------------------------
(***************************************************************************)
(* The streaming operators a check may call (pkg/checks/operators.go):     *)
(* latency, percentile, rate and http, applied to what was recorded.       *)
(*                                                                         *)
(* Input grows by one element a step until an operator is called; from     *)
(* then on a step is one turn of the operator's loop.  percentile is       *)
(* called on a list of numbers or on what latency returned.  A stream is a *)
(* sequence of [key, ts] in the order of recording, which is not the order *)
(* of ts.  A path or pattern is a sequence of characters.  An element of a *)
(* list is [num, v]: payloads are dynamically typed.  Percentiles are in   *)
(* hundredths; the rounding of float64 is left out.                        *)
(***************************************************************************)
EXTENDS Integers, Sequences, FiniteSets, Functions

CONSTANTS
    EventKeys, Times,       \* keys and timestamps of events
    Values, Percents,       \* elements and percentages percentile is given
    Alphabet, Star,         \* characters of a path; the wildcard
    MaxEvents, MaxValues, MaxPattern, MaxPath   \* bounds: lengths

Event   == [key : EventKeys, ts : Times]
Element == [num : BOOLEAN, v : Int]

ASSUME CheckOperatorsAssumption ==
    /\ Times \subseteq Nat /\ Percents \subseteq Int /\ Star \notin Alphabet
    /\ \A v \in Values : v \in Element

VARIABLES
    subject,    \* what is called: "latency", "list", "glob"
    from, to,   \* events of the two streams of latency
    list,       \* elements of a list
    pattern, path,
    doing,      \* "record", the loop that runs ("pair", "scan"), or what came of it
    order,      \* what sorting made of the list: positions in it
    turn,       \* source events done; where the next part of the pattern begins
    pairs,      \* positions of source events and their answers, as they are paired
    pos         \* where the scan of the path has got to

inputVars    == <<subject, from, to, list, pattern, path>>
operatorVars == <<inputVars, doing, order, turn, pairs, pos>>

OperatorsInit ==
    /\ subject \in {"latency", "list", "glob"}
    /\ from = <<>> /\ to = <<>> /\ list = <<>> /\ pattern = <<>> /\ path = <<>>
    /\ doing = "record" /\ order = <<>> /\ turn = 0 /\ pairs = <<>> /\ pos = 0

\* sort.Slice and sort.Float64s: keys do not fall; equal ones in any order.
Orders(keys) ==
    {o \in Bijection(DOMAIN keys, DOMAIN keys) :
        \A i, j \in DOMAIN keys : i < j => keys[o[i]] <= keys[o[j]]}
-----------------------------------------------------------------------------
(* What they are applied to                                                *)

Records(kind, max) == doing = "record" /\ subject = kind /\ max
                      /\ UNCHANGED <<subject, doing, order, turn, pairs, pos>>

RecordFrom ==
    /\ Records("latency", Len(from) + Len(to) < MaxEvents)
    /\ \E e \in Event : from' = Append(from, e)
    /\ UNCHANGED <<to, list, pattern, path>>

RecordTo ==
    /\ Records("latency", Len(from) + Len(to) < MaxEvents)
    /\ \E e \in Event : to' = Append(to, e)
    /\ UNCHANGED <<from, list, pattern, path>>

RecordValue ==
    /\ Records("list", Len(list) < MaxValues)
    /\ \E v \in Values : list' = Append(list, v)
    /\ UNCHANGED <<from, to, pattern, path>>

WritePattern ==
    /\ Records("glob", Len(pattern) < MaxPattern /\ path = <<>>)
    /\ \E ch \in Alphabet \cup {Star} : pattern' = Append(pattern, ch)
    /\ UNCHANGED <<from, to, list, path>>

WritePath ==
    /\ Records("glob", Len(path) < MaxPath)
    /\ \E ch \in Alphabet : path' = Append(path, ch)
    /\ UNCHANGED <<from, to, list, pattern>>
-----------------------------------------------------------------------------
(* latency                                                                 *)

\* Source events in the order of ts.
CallLatency ==
    /\ doing = "record" /\ subject = "latency"
    /\ order' \in Orders([i \in DOMAIN from |-> from[i].ts])
    /\ doing' = "pair"
    /\ UNCHANGED <<inputVars, turn, pairs, pos>>

Answered == {pairs[k][2] : k \in DOMAIN pairs}

\* Plausible bug: a destination event may answer several source events.
LaterReusing(i) == {j \in DOMAIN to : to[j].key = from[i].key /\ to[j].ts >= from[i].ts}

\* What the bucket of the source event's key has left that is not before it.
Later(i) == {j \in DOMAIN to \ Answered : to[j].key = from[i].key /\ to[j].ts >= from[i].ts}

\* The earliest of them is taken out of the bucket; without one the source
\* event is left out.
Pair ==
    /\ doing = "pair" /\ turn < Len(from)
    /\ LET i == order[turn + 1]
       IN  \/ Later(i) = {} /\ UNCHANGED pairs
           \/ \E j \in Later(i) :
                  /\ \A l \in Later(i) : to[j].ts <= to[l].ts
                  /\ pairs' = Append(pairs, <<i, j>>)
    /\ turn' = turn + 1
    /\ UNCHANGED <<inputVars, doing, order, pos>>

LatencyReturns ==
    /\ doing = "pair" /\ turn = Len(from)
    /\ doing' = "paired"
    /\ UNCHANGED <<inputVars, order, turn, pairs, pos>>

Duration(m) == to[m[2]].ts - from[m[1]].ts
Latencies   == [k \in DOMAIN pairs |-> Duration(pairs[k])]
-----------------------------------------------------------------------------
(* percentile and rate                                                     *)

Numbers == [i \in DOMAIN list |-> list[i].v]

\* What percentile is given; refValToFloats: one element that is no number fails it.
Sample  == IF subject = "latency" THEN Latencies ELSE Numbers
NotNum  == subject = "list" /\ \E i \in DOMAIN list : ~list[i].num

\* An empty list is refused, so that a check over nothing does not pass.
CallPercentile ==
    /\ \/ subject = "latency" /\ doing = "paired"
       \/ subject = "list" /\ doing = "record"
    /\ IF NotNum \/ Sample = <<>> THEN doing' = "refused" /\ UNCHANGED order
                                  ELSE doing' = "sorted" /\ order' \in Orders(Sample)
    /\ UNCHANGED <<inputVars, turn, pairs, pos>>

Clamp(p) == IF p < 0 THEN 0 ELSE IF p > 100 THEN 100 ELSE p

\* Rank, in hundredths, counted from 0.
Rank(p, size) == p * (size - 1)

\* Linear interpolation between the closest ranks; in hundredths.
Percentile(sorted, p) ==
    LET rank == Rank(Clamp(p), Len(sorted))
        low  == rank \div 100
        frac == rank % 100
    IN  IF frac = 0 THEN 100 * sorted[low + 1]
        ELSE sorted[low + 1] * (100 - frac) + sorted[low + 2] * frac

FnPercentileDouble(p) == Percentile([k \in DOMAIN Sample |-> Sample[order[k]]], p)

\* The value is cut to whole units.
FnPercentileDuration(p) == FnPercentileDouble(p) \div 100

\* The share of true elements as <<how many, of how many>>; <<0, 1>> of none,
\* which any upper bound on a failure rate accepts.
FnRate(bools) ==
    IF bools = <<>> THEN <<0, 1>>
    ELSE <<Cardinality({i \in DOMAIN bools : bools[i]}), Len(bools)>>
-----------------------------------------------------------------------------
(* http                                                                    *)

\* Events of streams whose name begins with "http:" are read, if the rest of
\* the name matches: "*" and equal texts do at once.
CallHTTP ==
    /\ doing = "record" /\ subject = "glob"
    /\ \/ doing' = "other" /\ UNCHANGED turn
       \/ (pattern = <<Star>> \/ pattern = path) /\ doing' = "read" /\ UNCHANGED turn
       \/ pattern # <<Star>> /\ pattern # path /\ doing' = "scan" /\ turn' = 1
    /\ UNCHANGED <<inputVars, order, pairs, pos>>

\* strings.Split(pattern, "*"): a part ends before the next star or at the end.
PartEnds(begin, stop) ==
    /\ stop = Len(pattern) + 1 \/ (stop <= Len(pattern) /\ pattern[stop] = Star)
    /\ \A i \in begin..stop - 1 : pattern[i] # Star

\* Places behind an occurrence of part in the path that begins behind p.
EndsOf(part, p) ==
    {q \in p + Len(part) .. Len(path) :
        \A i \in 1..Len(part) : path[q - Len(part) + i] = part[i]}

\* A part must occur, the first one at the start; the scan goes on behind its
\* first occurrence.
Scan ==
    /\ doing = "scan" /\ turn <= Len(pattern) + 1
    /\ \E stop \in turn..Len(pattern) + 1 :
         LET part == SubSeq(pattern, turn, stop - 1)
         IN  /\ PartEnds(turn, stop)
             /\ \/ part = <<>> /\ turn' = stop + 1 /\ UNCHANGED <<doing, pos>>
                \/ EndsOf(part, pos) = {} /\ doing' = "skipped" /\ UNCHANGED <<turn, pos>>
                \/ \E q \in EndsOf(part, pos) :
                     /\ part # <<>> /\ \A e \in EndsOf(part, pos) : q <= e
                     /\ IF turn = 1 /\ q # Len(part)
                        THEN doing' = "skipped" /\ UNCHANGED <<turn, pos>>
                        ELSE turn' = stop + 1 /\ pos' = q /\ UNCHANGED doing
    /\ UNCHANGED <<inputVars, order, pairs>>

\* The last part must be at the end.
ScanEnds ==
    /\ doing = "scan" /\ turn > Len(pattern) + 1
    /\ doing' = IF (pattern # <<>> /\ pattern[Len(pattern)] = Star) \/ pos = Len(path)
                THEN "read" ELSE "skipped"
    /\ UNCHANGED <<inputVars, order, turn, pairs, pos>>
-----------------------------------------------------------------------------
OperatorsNext ==
    \/ RecordFrom \/ RecordTo \/ RecordValue \/ WritePattern \/ WritePath
    \/ CallLatency \/ Pair \/ LatencyReturns \/ CallPercentile
    \/ CallHTTP \/ Scan \/ ScanEnds

OperatorsSpec == OperatorsInit /\ [][OperatorsNext]_operatorVars
-----------------------------------------------------------------------------
(* What the operators are for                                              *)

\* Ways to give source events destination events of their own that have the
\* same key and are not earlier.
Pairings ==
    {M \in SUBSET ((DOMAIN from) \X (DOMAIN to)) :
        /\ \A m \in M : from[m[1]].key = to[m[2]].key /\ from[m[1]].ts <= to[m[2]].ts
        /\ \A m, l \in M : m # l => m[1] # l[1] /\ m[2] # l[2]}

Spans == {t - u : t, u \in Times}

\* The durations are those of one pairing, and no pairing answers more source
\* events: greedy in order of time loses no answer.
LatencyIsPairing ==
    /\ \E M \in Pairings :
           /\ Cardinality(M) = Len(Latencies)
           /\ \A d \in Spans : Cardinality({k \in DOMAIN Latencies : Latencies[k] = d})
                               = Cardinality({m \in M : Duration(m) = d})
    /\ \A M \in Pairings : Cardinality(M) <= Len(Latencies)

\* p percent: enough elements at or below it, not too many strictly below, the
\* extremes at 0 and 100, beyond which p is cut off, and never less for more.
PercentileRanks ==
    LET places == DOMAIN Sample
        last   == Cardinality(places) - 1
    IN  \A p \in Percents :
           LET v == FnPercentileDouble(p)
           IN  /\ 100 * Cardinality({i \in places : 100 * Sample[i] <= v}) >= Clamp(p) * last
               /\ 100 * Cardinality({i \in places : 100 * Sample[i] < v}) < Clamp(p) * last + 100
               /\ \A q \in Percents : p <= q => v <= FnPercentileDouble(q)
               /\ p >= 100 => \A i \in places : v >= 100 * Sample[i]
               /\ p <= 0 => \A i \in places : v <= 100 * Sample[i]
               /\ subject = "latency" => 100 * FnPercentileDuration(p) \in v - 99 .. v

\* A pattern in the shell's sense: Star stands for any characters.  e says where
\* in the path each of the first m characters of the pattern ends.
Fits(e, m) ==
    /\ e \in [0..m -> 0..Len(path)] /\ e[0] = 0
    /\ \A i \in 1..m : IF pattern[i] = Star THEN e[i - 1] <= e[i]
                      ELSE e[i] = e[i - 1] + 1 /\ path[e[i]] = pattern[i]

ShellMatch ==
    \E e \in [0..Len(pattern) -> 0..Len(path)] : Fits(e, Len(pattern)) /\ e[Len(pattern)] = Len(path)

\* The pattern ends in a part of its own, which the path has more than once.
TailRecurs ==
    \E begin \in 1..Len(pattern) :
        /\ begin = 1 \/ pattern[begin - 1] = Star
        /\ PartEnds(begin, Len(pattern) + 1)
        /\ Cardinality(EndsOf(SubSeq(pattern, begin, Len(pattern)), 0)) > 1

OperatorsTypeOK ==
    /\ subject \in {"latency", "list", "glob"}
    /\ from \in Seq(Event) /\ to \in Seq(Event) /\ list \in Seq(Values)
    /\ pattern \in Seq(Alphabet \cup {Star}) /\ path \in Seq(Alphabet)
    /\ doing \in {"record", "pair", "paired", "refused", "sorted", "scan", "read", "skipped", "other"}
    /\ turn \in Nat /\ pos \in 0..Len(path)
    /\ pairs \in Seq((DOMAIN from) \X (DOMAIN to))

\* For all streams, lists, patterns and paths: latencies are those of a largest
\* pairing in which no answer counts twice; percentiles sit at their rank and
\* are refused on nothing; a rate is a share; http reads no path the pattern
\* does not match.  It may miss one that matches, when the pattern does not end
\* in a star and its last part occurs in the path before its end too ("*b" on
\* "bab"), for the first occurrence is taken.
OperatorsMatchReference ==
    LET share == FnRate([i \in DOMAIN list |-> list[i].num])
    IN  /\ subject = "latency" /\ doing \in {"paired", "refused", "sorted"} => LatencyIsPairing
        /\ doing = "refused" => NotNum \/ Sample = <<>>
        /\ doing = "sorted" => ~NotNum /\ Sample # <<>> /\ PercentileRanks
        /\ doing = "read" => ShellMatch
        /\ doing = "skipped" /\ ShellMatch => TailRecurs
        /\ 0 <= share[1] /\ share[1] <= share[2]

\* Why: a source event that has had its turn is answered, or nothing is left
\* that could answer it; who was answered was given the earliest.
HasHadTurn(i) == i \in {pairs[k][1] : k \in DOMAIN pairs} \/ Later(i) = {}

LatencyInv ==
    /\ doing = "record" => pairs = <<>> /\ turn = 0 /\ pos = 0
    /\ \A k \in DOMAIN pairs : from[pairs[k][1]].key = to[pairs[k][2]].key /\ Duration(pairs[k]) >= 0
    /\ \A k, l \in DOMAIN pairs : k # l => pairs[k][1] # pairs[l][1] /\ pairs[k][2] # pairs[l][2]
    /\ \A k \in DOMAIN pairs : \A j \in Later(pairs[k][1]) : to[pairs[k][2]].ts <= to[j].ts
    /\ doing = "pair" =>
           /\ order \in Bijection(DOMAIN from, DOMAIN from) /\ turn <= Len(from)
           /\ \A k \in DOMAIN pairs : \E t \in 1..turn : order[t] = pairs[k][1]
           /\ \A t \in 1..turn : HasHadTurn(order[t])
    /\ subject = "latency" /\ doing \in {"paired", "refused", "sorted"} => \A i \in DOMAIN from : HasHadTurn(i)

PercentileInv ==
    /\ doing = "refused" => NotNum \/ Sample = <<>>
    /\ doing = "sorted" => ~NotNum /\ Sample # <<>> /\ order \in Orders(Sample)

\* Why: what was scanned of the pattern fits what was scanned of the path, and
\* nothing that fits gets there earlier.
Scanned == IF turn <= Len(pattern) THEN turn - 1 ELSE Len(pattern)

GlobInv ==
    /\ doing = "scan" =>
           /\ turn \in 1..Len(pattern) + 2
           /\ \E e \in [0..Scanned -> 0..Len(path)] : Fits(e, Scanned) /\ e[Scanned] = pos
           /\ \A e \in [0..Len(pattern) -> 0..Len(path)] :
                  Fits(e, Len(pattern)) /\ e[Len(pattern)] = Len(path) => pos <= e[Scanned]
           /\ turn \in 2..Len(pattern) + 1 => pattern[turn - 1] = Star
           /\ turn = 1 => pos = 0
           /\ turn = Len(pattern) + 2 =>
                  \E begin \in 1..Len(pattern) + 1 :
                      /\ begin = 1 \/ pattern[begin - 1] = Star
                      /\ PartEnds(begin, Len(pattern) + 1)
                      /\ begin <= Len(pattern) => pos \in EndsOf(SubSeq(pattern, begin, Len(pattern)), 0)
    /\ doing = "read" => ShellMatch
    /\ doing = "skipped" /\ ShellMatch => TailRecurs

OperatorsInv == OperatorsTypeOK /\ LatencyInv /\ PercentileInv /\ GlobInv
=============================================================================
