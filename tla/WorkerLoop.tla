----------------------------- MODULE WorkerLoop -----------------------------
(***************************************************************************)
(* The worker's control loop (pkg/worker/loop.go) against the part of the  *)
(* control plane it talks to: worker registration, heartbeats, assignments *)
(* and scenario bodies.                                                    *)
(*                                                                         *)
(* One worker process: the loop goroutine (pc) ticks, and every dispatched *)
(* assignment is a goroutine of its own (phase).  A goroutine is queued    *)
(* until it gets a slot, runs its handler, then executes its two deferred  *)
(* functions one after the other: remove the map entry ("ended" ->         *)
(* "leaving"), give the slot back ("leaving" -> "free").  The mutex l.mu   *)
(* makes each access to the dispatched map one step.                       *)
(*                                                                         *)
(* A worker that restarts registers again and gets a new id: assignments   *)
(* are stored under the id, so rows[w] for w < regs belong to dead ids.    *)
(***************************************************************************)
EXTENDS Naturals, FiniteSets

CONSTANTS
    Scenarios,          \* names of scenarios
    Goroutines,         \* ids of assignment goroutines (bounds how many exist at once)
    None,               \* "no goroutine" / "no scenario"
    MaxConcurrentRuns,  \* capacity of the slots channel
    MaxRegistrations,   \* bound: how often the worker process may start
    MaxRows,            \* bound: how often the in-memory store repeats an assignment
    Deletable           \* scenarios whose rows somebody deletes from the database

ASSUME WorkerAssumption ==
    /\ MaxConcurrentRuns \in Nat \ {0}
    /\ MaxRegistrations \in Nat
    /\ MaxRows \in Nat \ {0}
    /\ IsFiniteSet(Goroutines)
    /\ None \notin Goroutines
    /\ None \notin Scenarios
    /\ Deletable \subseteq Scenarios

VARIABLES
    \* --- control plane ---
    backend,     \* which Storage the server was started with
    workers,     \* registered worker ids
    stored,      \* scenarios that have a body
    rows,        \* rows[w][s]: how many assignment rows bind s to worker w
    \* --- worker process: the loop goroutine ---
    regs,        \* registrations so far; the id of the worker is the last one
    pc,          \* where Loop.Run / tickOnce is
    pending,     \* assignments of the heartbeat reply still to be looked at
    wanted,      \* scenarios of the reply looked at so far
    cur,         \* the scenario dispatch() is fetching
    ctxDone,     \* the context given to Run is cancelled
    \* --- shared: l.dispatched and l.slots ---
    dispatched,  \* scenario -> the goroutine whose cancel function the map holds
    slots,       \* how many entries the slots channel holds
    \* --- assignment goroutines ---
    phase, scn, cancelled

cpVars   == <<backend, workers, stored, rows>>
loopVars == <<regs, pc, pending, wanted, cur, ctxDone>>
goVars   == <<phase, scn, cancelled>>
vars     == <<cpVars, loopVars, dispatched, slots, goVars>>

WorkerIds == 1..MaxRegistrations
id        == regs
NoRows    == [s \in Scenarios |-> 0]

\* Phases in which a goroutine owns an entry of the slots channel.
HoldsSlot(g) == phase[g] \in {"running", "ended", "leaving"}

\* A goroutine that may still do the scenario's work and was not told to stop.
Live(g) == phase[g] \in {"queued", "running"} /\ ~cancelled[g]

TypeOK ==
    /\ backend \in {"memory", "postgres"}
    /\ workers \subseteq WorkerIds
    /\ stored \subseteq Scenarios
    /\ rows \in [WorkerIds -> [Scenarios -> 0..MaxRows]]
    /\ regs \in 0..MaxRegistrations
    /\ pc \in {"register", "select", "heartbeat", "scan", "fetch", "stopped", "exited"}
    /\ pending \in [Scenarios -> 0..MaxRows]
    /\ wanted \subseteq Scenarios
    /\ cur \in Scenarios \cup {None}
    /\ ctxDone \in BOOLEAN
    /\ dispatched \in [Scenarios -> Goroutines \cup {None}]
    /\ slots \in 0..MaxConcurrentRuns
    /\ phase \in [Goroutines -> {"free", "queued", "running", "ended", "leaving"}]
    /\ scn \in [Goroutines -> Scenarios \cup {None}]
    /\ cancelled \in [Goroutines -> BOOLEAN]

Init ==
    /\ backend \in {"memory", "postgres"}
    /\ workers = {}
    /\ stored = {}
    /\ rows = [w \in WorkerIds |-> NoRows]
    /\ regs = 0
    /\ pc = "register"
    /\ pending = NoRows
    /\ wanted = {}
    /\ cur = None
    /\ ctxDone = FALSE
    /\ dispatched = [s \in Scenarios |-> None]
    /\ slots = 0
    /\ phase = [g \in Goroutines |-> "free"]
    /\ scn = [g \in Goroutines |-> None]
    /\ cancelled = [g \in Goroutines |-> FALSE]

-----------------------------------------------------------------------------
(* Control plane                                                           *)

\* POST /scenarios: the body exists from now on (its version is in another module).
PutScenario(s) ==
    /\ s \notin stored
    /\ stored' = stored \cup {s}
    /\ UNCHANGED <<backend, workers, rows, loopVars, dispatched, slots, goVars>>

\* The in-memory store appends a row every time (MaxRows is the model's bound).
AppendsRow(w, s) == backend = "memory" /\ rows[w][s] < MaxRows

\* Postgres: ON CONFLICT DO NOTHING.
InsertsRow(w, s) == backend = "postgres" /\ rows[w][s] = 0

\* POST /workers/{id}/assignments.  404 unless worker and scenario exist.
AssignScenario(w, s) ==
    /\ w \in workers /\ s \in stored
    /\ AppendsRow(w, s) \/ InsertsRow(w, s)
    /\ rows' = [rows EXCEPT ![w][s] = @ + 1]
    /\ UNCHANGED <<backend, workers, stored, loopVars, dispatched, slots, goVars>>

\* No endpoint removes an assignment; deleting the scenario's row in Postgres
\* does (ON DELETE CASCADE).
DropScenario(s) ==
    /\ backend = "postgres" /\ s \in Deletable /\ s \in stored
    /\ stored' = stored \ {s}
    /\ rows' = [w \in WorkerIds |-> [rows[w] EXCEPT ![s] = 0]]
    /\ UNCHANGED <<backend, workers, loopVars, dispatched, slots, goVars>>

\* The server restarts: the in-memory store starts empty, Postgres keeps all.
ControlPlaneRestart ==
    /\ backend = "memory" /\ workers # {}
    /\ workers' = {} /\ stored' = {}
    /\ rows' = [w \in WorkerIds |-> NoRows]
    /\ UNCHANGED <<backend, loopVars, dispatched, slots, goVars>>

-----------------------------------------------------------------------------
(* The loop goroutine                                                      *)

\* A new worker id: ids are random and never repeat.
RegisterWorker == workers' = workers \cup {regs + 1}

\* Run: register, make the slots channel, and tick at once.
Register ==
    /\ pc = "register" /\ regs < MaxRegistrations
    /\ regs' = regs + 1
    /\ RegisterWorker
    /\ pc' = "heartbeat"
    /\ UNCHANGED <<backend, stored, rows, pending, wanted, cur, ctxDone,
                   dispatched, slots, goVars>>

\* Run returns the registration error and the process exits.
RegisterFails ==
    /\ pc = "register"
    /\ pc' = "exited"
    /\ UNCHANGED <<cpVars, regs, pending, wanted, cur, ctxDone, dispatched, slots, goVars>>

\* Run's select picks the ticker (also possible when ctx is done too).
Tick ==
    /\ pc = "select"
    /\ pc' = "heartbeat"
    /\ UNCHANGED <<cpVars, regs, pending, wanted, cur, ctxDone, dispatched, slots, goVars>>

\* ListAssignments: all rows of the worker, repeated ones too.
Assignments == rows[id]

\* tickOnce: the heartbeat of a worker that the store knows is answered with its
\* assignment rows.
HeartbeatOK ==
    /\ pc = "heartbeat" /\ ~ctxDone
    /\ id \in workers
    /\ pending' = Assignments
    /\ wanted' = {}
    /\ pc' = "scan"
    /\ UNCHANGED <<cpVars, regs, cur, ctxDone, dispatched, slots, goVars>>

\* A plausible bug: a failed heartbeat is taken for an empty reply.
HeartbeatErrAsEmpty ==
    /\ pc = "heartbeat"
    /\ pending' = NoRows
    /\ wanted' = {}
    /\ pc' = "scan"
    /\ UNCHANGED <<cpVars, regs, cur, ctxDone, dispatched, slots, goVars>>

\* tickOnce: any heartbeat error (unknown id, network, timeout, ctx done) is
\* reported and the tick ends with nothing touched.
HeartbeatErr ==
    /\ pc = "heartbeat"
    /\ pc' = "select"
    /\ UNCHANGED <<cpVars, regs, pending, wanted, cur, ctxDone, dispatched, slots, goVars>>

\* tickOnce's range loop, one row: wanted, then isDispatched, then maybe dispatch.
\* Rows come in the order of assignment; no property depends on the order.
Scan(s) ==
    /\ pc = "scan" /\ pending[s] > 0
    /\ wanted' = wanted \cup {s}
    /\ pending' = [pending EXCEPT ![s] = @ - 1]
    /\ \/ /\ dispatched[s] # None
          /\ UNCHANGED <<pc, cur>>
       \/ /\ dispatched[s] = None
          /\ pc' = "fetch" /\ cur' = s
    /\ UNCHANGED <<cpVars, regs, ctxDone, dispatched, slots, goVars>>

\* dispatch: FetchScenario failed (404, network, ctx done); the row is retried
\* on the next tick.
FetchErr ==
    /\ pc = "fetch"
    /\ pc' = "scan" /\ cur' = None
    /\ UNCHANGED <<cpVars, regs, pending, wanted, ctxDone, dispatched, slots, goVars>>

\* A plausible bug: the cancel function is not put into the map.
DispatchWithoutEntry(g) ==
    /\ pc = "fetch" /\ ~ctxDone
    /\ cur \in stored
    /\ phase[g] = "free"
    /\ phase' = [phase EXCEPT ![g] = "queued"]
    /\ scn' = [scn EXCEPT ![g] = cur]
    /\ pc' = "scan" /\ cur' = None
    /\ UNCHANGED <<cpVars, regs, pending, wanted, ctxDone, dispatched, slots, cancelled>>

\* dispatch: the body arrived; the cancel function goes into the map and the
\* goroutine starts.
Dispatch(g) ==
    /\ pc = "fetch" /\ ~ctxDone
    /\ cur \in stored
    /\ phase[g] = "free"
    /\ dispatched' = [dispatched EXCEPT ![cur] = g]
    /\ phase' = [phase EXCEPT ![g] = "queued"]
    /\ scn' = [scn EXCEPT ![g] = cur]
    /\ pc' = "scan" /\ cur' = None
    /\ UNCHANGED <<cpVars, regs, pending, wanted, ctxDone, slots, cancelled>>

\* cancelAssignmentsNotIn(keep): cancel and forget every entry outside keep.
\* cancelAllAssignments is the same with nothing kept.
CancelNotIn(keep) ==
    /\ cancelled' = [g \in Goroutines |->
                        \/ cancelled[g]
                        \/ \E s \in Scenarios \ keep : dispatched[s] = g]
    /\ dispatched' = [s \in Scenarios |-> IF s \in keep THEN dispatched[s] ELSE None]

\* The end of tickOnce, after the last row.
TickEnd ==
    /\ pc = "scan" /\ \A s \in Scenarios : pending[s] = 0
    /\ CancelNotIn(wanted)
    /\ pc' = "select"
    /\ UNCHANGED <<cpVars, regs, pending, wanted, cur, ctxDone, slots, phase, scn>>

\* Run's select picks ctx.Done: cancel everything and return.
Stop ==
    /\ pc = "select" /\ ctxDone
    /\ CancelNotIn({})
    /\ pc' = "stopped"
    /\ UNCHANGED <<cpVars, regs, pending, wanted, cur, ctxDone, slots, phase, scn>>

\* Whoever called Run cancels its context; contexts of the goroutines are
\* children of it.
CancelContext ==
    /\ ~ctxDone /\ pc # "exited"
    /\ ctxDone' = TRUE
    /\ UNCHANGED <<cpVars, regs, pc, pending, wanted, cur, dispatched, slots, goVars>>

\* The process dies (killed, or Run returned and main exits) and is started
\* again: nothing of it survives, its id is lost.
ProcessRestart ==
    /\ regs < MaxRegistrations
    /\ pc' = "register"
    /\ pending' = NoRows /\ wanted' = {} /\ cur' = None /\ ctxDone' = FALSE
    /\ dispatched' = [s \in Scenarios |-> None]
    /\ slots' = 0
    /\ phase' = [g \in Goroutines |-> "free"]
    /\ scn' = [g \in Goroutines |-> None]
    /\ cancelled' = [g \in Goroutines |-> FALSE]
    /\ UNCHANGED <<cpVars, regs>>

-----------------------------------------------------------------------------
(* Assignment goroutines                                                   *)

ContextDone(g) == ctxDone \/ cancelled[g]

\* A plausible bug: a full channel does not block.
AcquireOverCapacity(g) ==
    /\ phase[g] = "queued"
    /\ slots' = IF slots < MaxConcurrentRuns THEN slots + 1 ELSE slots
    /\ phase' = [phase EXCEPT ![g] = "running"]
    /\ UNCHANGED <<cpVars, loopVars, dispatched, scn, cancelled>>

\* The select of the goroutine takes a free slot (even if ctx is done as well)
\* and HandleAssignment begins.
AcquireSlot(g) ==
    /\ phase[g] = "queued"
    /\ slots < MaxConcurrentRuns
    /\ slots' = slots + 1
    /\ phase' = [phase EXCEPT ![g] = "running"]
    /\ UNCHANGED <<cpVars, loopVars, dispatched, scn, cancelled>>

\* delete(l.dispatched, scenario): whatever entry the name has, also when a
\* later dispatch put it there.
DeleteEntry(g) == dispatched' = [dispatched EXCEPT ![scn[g]] = None]

Retire(g, state) ==
    /\ phase' = [phase EXCEPT ![g] = state]
    /\ scn' = [scn EXCEPT ![g] = None]
    /\ cancelled' = [cancelled EXCEPT ![g] = FALSE]

\* A plausible bug: giving up also gives back a slot that was never taken.
GiveUpReleasingSlot(g) ==
    /\ phase[g] = "queued" /\ ContextDone(g)
    /\ DeleteEntry(g)
    /\ Retire(g, "free")
    /\ slots' = slots - 1
    /\ UNCHANGED <<cpVars, loopVars>>

\* The select takes ctx.Done: remove the entry, no slot was taken.
GiveUp(g) ==
    /\ phase[g] = "queued" /\ ContextDone(g)
    /\ DeleteEntry(g)
    /\ Retire(g, "free")
    /\ UNCHANGED <<cpVars, loopVars, slots>>

\* HandleAssignment returns: because ctx is done, or on its own (the scenario
\* does not parse, the Kafka client cannot be made).
HandlerReturns(g) ==
    /\ phase[g] = "running"
    /\ phase' = [phase EXCEPT ![g] = "ended"]
    /\ UNCHANGED <<cpVars, loopVars, dispatched, slots, scn, cancelled>>

\* A plausible bug: the entry of an ended goroutine stays.
KeepEntry(g) ==
    /\ phase[g] = "ended"
    /\ Retire(g, "leaving")
    /\ UNCHANGED <<cpVars, loopVars, dispatched, slots>>

\* First deferred function: remove the entry.
DeferredDelete(g) ==
    /\ phase[g] = "ended"
    /\ DeleteEntry(g)
    /\ Retire(g, "leaving")
    /\ UNCHANGED <<cpVars, loopVars, slots>>

\* A plausible bug: the slot of an ended goroutine is not given back.
KeepSlot(g) ==
    /\ phase[g] = "leaving"
    /\ phase' = [phase EXCEPT ![g] = "free"]
    /\ UNCHANGED <<cpVars, loopVars, dispatched, slots, scn, cancelled>>

\* Second deferred function: give the slot back.
ReleaseSlot(g) ==
    /\ phase[g] = "leaving"
    /\ slots' = slots - 1
    /\ phase' = [phase EXCEPT ![g] = "free"]
    /\ UNCHANGED <<cpVars, loopVars, dispatched, scn, cancelled>>

-----------------------------------------------------------------------------
ControlPlane ==
    \/ \E s \in Scenarios : PutScenario(s) \/ DropScenario(s)
    \/ \E w \in WorkerIds, s \in Scenarios : AssignScenario(w, s)
    \/ ControlPlaneRestart

Loop ==
    \/ Register \/ RegisterFails \/ Tick \/ HeartbeatOK \/ HeartbeatErr
    \/ \E s \in Scenarios : Scan(s)
    \/ FetchErr
    \/ \E g \in Goroutines : Dispatch(g)
    \/ TickEnd \/ Stop

Goroutine(g) ==
    \/ AcquireSlot(g) \/ GiveUp(g) \/ HandlerReturns(g)
    \/ DeferredDelete(g) \/ ReleaseSlot(g)

Next ==
    \/ ControlPlane
    \/ Loop
    \/ CancelContext \/ ProcessRestart
    \/ \E g \in Goroutines : Goroutine(g)

Spec == Init /\ [][Next]_vars

\* Fairness: the Go scheduler runs the loop and every goroutine; the control
\* plane answers again and again (a heartbeat or a fetch may fail any number of
\* times but not forever); select chooses at random between ready cases, so
\* ctx.Done is not passed over forever; senders blocked on a full channel are
\* served first come, first served, so a queued goroutine is not passed over
\* either; a handler whose context is done returns.
\* Handlers otherwise run as long as they like, operators and crashes owe nothing.
Fairness ==
    /\ WF_vars(Register) /\ WF_vars(Tick) /\ WF_vars(TickEnd) /\ SF_vars(Stop)
    /\ SF_vars(HeartbeatOK) /\ WF_vars(HeartbeatErr)
    /\ \A s \in Scenarios : WF_vars(Scan(s))
    /\ WF_vars(FetchErr)
    /\ \A s \in Scenarios : SF_vars(cur = s /\ \E g \in Goroutines : Dispatch(g))
    /\ \A s \in Scenarios : SF_vars(\E g \in Goroutines : scn[g] = s /\ AcquireSlot(g))
    /\ WF_vars(\E g \in Goroutines : GiveUp(g))
    /\ WF_vars(\E g \in Goroutines : ContextDone(g) /\ HandlerReturns(g))
    /\ \A s \in Scenarios : WF_vars(\E g \in Goroutines : scn[g] = s /\ DeferredDelete(g))
    /\ WF_vars(\E g \in Goroutines : ReleaseSlot(g))

FairSpec == Spec /\ Fairness

-----------------------------------------------------------------------------
(* Properties                                                              *)

\* MaxConcurrentRuns really bounds the handlers that run at the same time: the
\* slots channel never disagrees with the goroutines that own an entry of it,
\* through cancellation, early return and the two deferred functions.
SlotsBoundRuns ==
    /\ slots = Cardinality({g \in Goroutines : HoldsSlot(g)})
    /\ Cardinality({g \in Goroutines : phase[g] = "running"}) <= MaxConcurrentRuns

\* While nobody removes the scenario behind the control plane's back, one worker
\* never has two goroutines working on the same scenario, however handlers end,
\* rows repeat, heartbeats fail or servers restart.
OneLiveRun ==
    \A g, h \in Goroutines :
        Live(g) /\ Live(h) /\ scn[g] = scn[h] /\ scn[g] \notin Deletable => g = h

\* A run is told to stop only when Run's own context is done: neither a failing
\* heartbeat, nor an unknown worker id, nor a control plane that lost its memory
\* stops the run of a scenario that nobody removed.
OutageKeepsRuns ==
    \A g \in Goroutines :
        cancelled[g] /\ scn[g] \notin Deletable => pc = "stopped"

\* l.dispatched holds the cancel function of every live goroutine ("scenario ->
\* cancel for its goroutine"), so a removal can reach it.
RunsAreCancellable ==
    pc # "stopped" =>
        \A g \in Goroutines : Live(g) => dispatched[scn[g]] = g

\* The same for scenarios nobody removes.
AssignedRunsAreCancellable ==
    pc # "stopped" =>
        \A g \in Goroutines :
            Live(g) /\ scn[g] \notin Deletable => dispatched[scn[g]] = g

\* Why the four invariants above hold: the inductive part, in named pieces.
Active(g) == phase[g] \in {"queued", "running", "ended"}

Holders == {g \in Goroutines : HoldsSlot(g)}

SlotInv == slots = Cardinality(Holders)

\* A goroutine has a scenario exactly while it is active.
ScenarioInv ==
    \A g \in Goroutines :
        /\ Active(g) => scn[g] \in Scenarios
        /\ ~Active(g) => scn[g] = None /\ ~cancelled[g]

\* An entry of the map belongs to an active goroutine of that scenario that was
\* not cancelled.
EntryInv ==
    \A s \in Scenarios :
        dispatched[s] # None =>
            /\ Active(dispatched[s])
            /\ scn[dispatched[s]] = s
            /\ ~cancelled[dispatched[s]]

\* The loop goroutine, step by step: before registration nothing runs; a scenario
\* being fetched has no entry and is wanted.
LoopInv ==
    /\ pc \in {"register", "exited"} =>
          /\ \A g \in Goroutines : phase[g] = "free"
          /\ \A s \in Scenarios : dispatched[s] = None
    /\ pc \notin {"register", "exited"} => regs > 0
    /\ pc = "fetch" => cur \in Scenarios /\ dispatched[cur] = None /\ cur \in wanted
    /\ pc = "stopped" => \A s \in Scenarios : dispatched[s] = None

\* For a scenario nobody removes: the control plane, if it still knows this
\* worker, has a row for every entry of the map, and while a reply is being
\* worked through every entry is wanted or still to come.
RowsInv ==
    \A s \in Scenarios \ Deletable :
        /\ regs > 0 /\ id \in workers /\ dispatched[s] # None => rows[id][s] > 0
        /\ pc \in {"scan", "fetch"} =>
              /\ dispatched[s] # None => pending[s] > 0 \/ s \in wanted
              /\ id \in workers /\ (pending[s] > 0 \/ s \in wanted) => rows[id][s] > 0

\* For a scenario nobody removes: an active goroutine is the one in the map,
\* until Stop empties it.
OwnerInv ==
    \A g \in Goroutines :
        Active(g) /\ scn[g] \notin Deletable =>
            IF pc = "stopped" THEN cancelled[g] ELSE dispatched[scn[g]] = g

IInv == TypeOK /\ SlotInv /\ ScenarioInv /\ EntryInv /\ LoopInv /\ RowsInv /\ OwnerInv

Assigned(s) == id \in workers /\ s \in stored /\ rows[id][s] > 0

\* Every assignment is eventually worked on, through failed heartbeats and
\* fetches and handlers that return, unless the run is over or it is taken away.
AssignedGetsRun ==
    \A s \in Scenarios :
        (pc # "register" /\ Assigned(s))
            ~> \/ \E g \in Goroutines : scn[g] = s /\ phase[g] = "running"
               \/ ~Assigned(s) \/ ctxDone \/ pc \in {"exited", "register"}

\* After its context is cancelled the worker drains: every goroutine ends and
\* every slot is given back.
DrainsAfterCancel ==
    (ctxDone /\ pc # "register") ~>
        \/ pc \in {"register", "exited"}
        \/ (pc = "stopped" /\ slots = 0 /\ \A g \in Goroutines : phase[g] = "free")
=============================================================================
