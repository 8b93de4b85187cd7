------------------------------ MODULE SseStream ------------------------------
(***************************************************************************)
(* An sse step on a real connection: Runner.runSSE (orchestrator/sse.go)   *)
(* over SSEStream (httpc/sse.go), from the request to the end of the step, *)
(* line by line.                                                           *)
(*                                                                         *)
(* A line is a model value for what its field is: "data", "event", "id",   *)
(* "blank" or "other" (a comment, a heartbeat, an unknown field).  What an *)
(* event carries is named by the numbers of the lines it came from, 0 when *)
(* there was none.                                                         *)
(***************************************************************************)
EXTENDS Integers, Sequences, FiniteSets, SequencesExt

CONSTANTS
    SseSteps,       \* what the step may say: [rules, count]
    MaxLines,       \* bound: lines the server writes
    MaxAhead        \* bound: lines that wait to be read

ASSUME SseStreamAssumption ==
    MaxLines \in Nat /\ MaxAhead \in Nat \ {0} /\ \A x \in SseSteps : x.rules \in BOOLEAN /\ x.count \in Nat

Kinds == {"data", "event", "id", "blank", "other"}

VARIABLES
    sse,        \* the step
    lines,      \* lines that reached the client
    conn,       \* "none", "open", "ended" by the server, "torn" down by a context
    openCtx,    \* the context the request was made with: "live", "cancelled"
    stepCtx,    \* the run's context
    late,       \* the step's deadline has passed
    read,       \* lines read so far
    frame,      \* Next: [name, id, data], or what it returned
    next,       \* where runSSE stands: "open", "loop", "next", "returned", "done", "error"
    events      \* payloads appended to the store: [name, id, data, partial]

sseVars == <<sse, lines, conn, openCtx, stepCtx, late, read, frame, next, events>>

Nothing == [name |-> 0, id |-> 0, data |-> <<>>, partial |-> FALSE]

SseInit ==
    /\ sse \in SseSteps /\ lines = <<>> /\ conn = "none"
    /\ openCtx = "live" /\ stepCtx = "live" /\ late = FALSE
    /\ read = 0 /\ frame = Nothing /\ next = "open" /\ events = <<>>
-----------------------------------------------------------------------------
(* net/http and the server                                                 *)

\* A line arrives while the connection is up.
ServerWrites ==
    /\ conn = "open" /\ Len(lines) < MaxLines /\ Len(lines) - read < MaxAhead
    /\ \E k \in Kinds : lines' = Append(lines, k)
    /\ UNCHANGED <<sse, conn, openCtx, stepCtx, late, read, frame, next, events>>

ServerCloses ==
    /\ conn = "open" /\ conn' = "ended"
    /\ UNCHANGED <<sse, lines, openCtx, stepCtx, late, read, frame, next, events>>

\* A request's context rules the body of its response: the transport closes
\* the connection some time after the context has ended.  runSSE cancels it as
\* soon as the stream is open, so what a step can read is what arrives before
\* this action, whatever its timeout; then its read fails.
TearDown ==
    /\ conn = "open" /\ openCtx = "cancelled" /\ conn' = "torn"
    /\ UNCHANGED <<sse, lines, openCtx, stepCtx, late, read, frame, next, events>>

RunCancelled ==
    /\ stepCtx = "live" /\ next \notin {"done", "error"}
    /\ stepCtx' = "cancelled" /\ openCtx' = "cancelled"
    /\ UNCHANGED <<sse, lines, conn, late, read, frame, next, events>>

DeadlinePasses ==
    /\ ~late /\ next \notin {"done", "error"} /\ late' = TRUE
    /\ openCtx' = "cancelled"
    /\ UNCHANGED <<sse, lines, conn, stepCtx, read, frame, next, events>>
-----------------------------------------------------------------------------
(* SSEStream                                                               *)

\* StreamSSE answered with a status below 300 and an event stream, and then
\* `cancelOpen()`.
Open ==
    /\ next = "open" /\ openCtx = "live"
    /\ conn' = "open" /\ openCtx' = "cancelled" /\ next' = "loop"
    /\ UNCHANGED <<sse, lines, stepCtx, late, read, frame, events>>

\* No connection, a bad status or content type, a context that ended; or rules
\* that do not compile.
OpenFails ==
    /\ next = "open" /\ next' = "error"
    /\ UNCHANGED <<sse, lines, conn, openCtx, stepCtx, late, read, frame, events>>

NextLine == read < Len(lines)
Field(k) == next = "next" /\ NextLine /\ lines[read + 1] = k /\ read' = read + 1

FieldLine ==
    /\ \/ Field("event") /\ frame' = [frame EXCEPT !.name = read + 1]
       \/ Field("id")    /\ frame' = [frame EXCEPT !.id = read + 1]
       \/ Field("data")  /\ frame' = [frame EXCEPT !.data = Append(@, read + 1)]
       \/ Field("other") /\ UNCHANGED frame
    /\ UNCHANGED <<sse, lines, conn, openCtx, stepCtx, late, next, events>>

\* A frame without data is skipped; its name and id are kept.
BlankLine ==
    /\ Field("blank")
    /\ next' = IF frame.data = <<>> THEN "next" ELSE "returned"
    /\ UNCHANGED <<sse, lines, conn, openCtx, stepCtx, late, frame, events>>

\* The body is at its end and data of a frame has been read: the frame is
\* returned without its blank line; a line cut in two is dropped.
PartialFrame ==
    /\ next = "next" /\ ~NextLine /\ conn \in {"ended", "torn"} /\ frame.data # <<>>
    /\ frame' = [frame EXCEPT !.partial = TRUE] /\ next' = "returned"
    /\ UNCHANGED <<sse, lines, conn, openCtx, stepCtx, late, read, events>>

ReadFails == next = "next" /\ ~NextLine /\ conn \in {"ended", "torn"} /\ frame.data = <<>>
-----------------------------------------------------------------------------
(* runSSE                                                                  *)

\* The deadline is an error only if there are rules.
TimedOut == next' = IF sse.rules THEN "error" ELSE "done"

\* ctx.Err and the deadline, looked at once per event.
LoopEnds ==
    /\ next = "loop"
    /\ \/ stepCtx = "cancelled" /\ next' = "error"
       \/ stepCtx = "live" /\ late /\ TimedOut
    /\ UNCHANGED <<sse, lines, conn, openCtx, stepCtx, late, read, frame, events>>

\* Plausible bug: the data lines are kept in the stream, and not reset.
CallNextKeeping ==
    /\ next = "loop" /\ stepCtx = "live" /\ ~late
    /\ next' = "next" /\ frame' = [Nothing EXCEPT !.data = frame.data]
    /\ UNCHANGED <<sse, lines, conn, openCtx, stepCtx, late, read, events>>

CallNext ==
    /\ next = "loop" /\ stepCtx = "live" /\ ~late
    /\ next' = "next" /\ frame' = Nothing
    /\ UNCHANGED <<sse, lines, conn, openCtx, stepCtx, late, read, events>>

\* "sse: read: ...": any error of Next that neither the run's context nor the
\* deadline explains.
NextErr ==
    /\ ReadFails
    /\ IF stepCtx = "live" /\ late THEN TimedOut ELSE next' = "error"
    /\ UNCHANGED <<sse, lines, conn, openCtx, stepCtx, late, read, frame, events>>

\* The event is recorded before a rule looks at it.
Received(hit) ==
    /\ next = "returned"
    /\ events' = Append(events, frame)
    /\ next' = IF hit \/ (sse.count > 0 /\ Len(events) + 1 >= sse.count) THEN "done" ELSE "loop"
    /\ UNCHANGED <<sse, lines, conn, openCtx, stepCtx, late, read, frame>>

EventMatches == sse.rules /\ Received(TRUE)
EventPasses  == Received(FALSE)

\* The rule cannot be evaluated on the event.
EventErr ==
    /\ sse.rules /\ next = "returned"
    /\ events' = Append(events, frame) /\ next' = "error"
    /\ UNCHANGED <<sse, lines, conn, openCtx, stepCtx, late, read, frame>>

SseNext ==
    \/ ServerWrites \/ ServerCloses \/ TearDown \/ RunCancelled \/ DeadlinePasses
    \/ Open \/ OpenFails \/ FieldLine \/ BlankLine \/ PartialFrame
    \/ LoopEnds \/ CallNext \/ NextErr \/ EventMatches \/ EventPasses \/ EventErr

SseSpec == SseInit /\ [][SseNext]_sseVars
-----------------------------------------------------------------------------
(* Properties                                                              *)

Frames == [name : Nat, id : Nat, data : Seq(Nat), partial : BOOLEAN]

SseTypeOK ==
    /\ sse \in SseSteps /\ lines \in Seq(Kinds) /\ Len(lines) <= MaxLines
    /\ conn \in {"none", "open", "ended", "torn"}
    /\ openCtx \in {"live", "cancelled"} /\ stepCtx \in {"live", "cancelled"} /\ late \in BOOLEAN
    /\ read \in 0..Len(lines)
    /\ next \in {"open", "loop", "next", "returned", "done", "error"}
    /\ frame \in Frames /\ events \in Seq(Frames)

\* The frame line i belongs to is numbered by the blank lines before it.
FrameOf(i) == Cardinality({j \in 1..i-1 : lines[j] = "blank"})
LastOf(data) == data[Len(data)]

WholeFrame(i) ==
    LET ev     == events[i]
        before == IF i = 1 THEN 0 ELSE LastOf(events[i - 1].data)
        mine   == {j \in 1..Len(lines) : lines[j] = "data" /\ FrameOf(j) = FrameOf(Head(ev.data))}
    IN  /\ ev.data # <<>> /\ Range(ev.data) = mine
        /\ \A j \in 1..Len(ev.data) - 1 : ev.data[j] < ev.data[j + 1]
        /\ \A j \in before + 1 .. Head(ev.data) - 1 : lines[j] # "data"
        /\ ev.partial => i = Len(events) /\ conn \in {"ended", "torn"}
        /\ \A f \in {ev.name, ev.id} : f # 0 => f > before /\ FrameOf(f) <= FrameOf(Head(ev.data))
        /\ ev.name # 0 => lines[ev.name] = "event"
        /\ ev.id # 0 => lines[ev.id] = "id"

\* However lines, deadline, cancellation and the end of the connection fall:
\* every recorded event is one frame, with all its data lines and in order; no
\* frame with data is skipped or recorded twice; only the last event may be
\* cut short, and only by the end of the connection; its name and id come from
\* its own frame or from frames without data since the event before it.
FramesAreWhole == \A i \in DOMAIN events : WholeFrame(i)

\* Why: where the last recorded event ended, and that the stream is over once
\* an event was cut short.
LastData == IF events = <<>> THEN 0 ELSE LastOf(events[Len(events)].data)
Over     == conn \in {"ended", "torn"} /\ read = Len(lines)
Cut      == events # <<>> /\ events[Len(events)].partial

Ascending(data)  == \A j, k \in 1..Len(data) : j < k => data[j] < data[k]
BlankIn(lo, hi)  == \E b \in lo..hi : lines[b] = "blank"

EndInv(ev) ==
    /\ ev.data # <<>> /\ Ascending(ev.data) /\ LastOf(ev.data) <= read
    /\ ev.name <= read /\ ev.id <= read
    /\ ev.partial \/ BlankIn(LastOf(ev.data) + 1, read)

EventInv ==
    /\ \A i \in DOMAIN events : EndInv(events[i])
    /\ Cut => Over /\ next # "returned" /\ (next = "next" => frame.data = <<>>)
    /\ next = "open" => conn = "none" /\ events = <<>> /\ lines = <<>>
    /\ next = "loop" => \A j \in LastData + 1 .. read : lines[j] # "data"

\* Why: the frame Next works on holds every data line since then, and no blank
\* line but the one that ends it.
NameInv(f, k) ==
    f # 0 => /\ f > LastData /\ f <= read /\ lines[f] = k
             /\ frame.data # <<>> => FrameOf(f) <= FrameOf(Head(frame.data))

FrameInv ==
    /\ next \in {"next", "returned"} =>
           /\ Range(frame.data) = {j \in LastData + 1 .. read : lines[j] = "data"}
           /\ Ascending(frame.data)
           /\ NameInv(frame.name, "event") /\ NameInv(frame.id, "id")
           /\ frame.data # <<>> /\ events # <<>> => BlankIn(LastData + 1, Head(frame.data) - 1)
    /\ next = "next" => ~frame.partial /\ (frame.data # <<>> => ~BlankIn(Head(frame.data), read))
    /\ next = "returned" =>
           /\ frame.data # <<>>
           /\ IF frame.partial
              THEN Over /\ ~BlankIn(Head(frame.data), read)
              ELSE read > 0 /\ lines[read] = "blank" /\ ~BlankIn(Head(frame.data), read - 1)

SseInv == SseTypeOK /\ FramesAreWhole /\ EventInv /\ FrameInv
=============================================================================
