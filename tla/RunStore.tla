------------------------------ MODULE RunStore ------------------------------
(***************************************************************************)
(* Reports on their way into the control plane and back out: the pushers   *)
(* (pkg/reporter/client.go, the watcher of a worker or the CLI), the       *)
(* handlers of POST /api/v1/runs and /api/v1/eval-runs (api/runs.go,       *)
(* api/eval_runs.go) and the two implementations of Storage (memory.go,    *)
(* postgres.go) with their readers.                                        *)
(*                                                                         *)
(* A handler outlives its client: a push that timed out may still be       *)
(* recorded, before or after the next one.  With Postgres the recording is *)
(* a transaction of several statements, each a step that may fail; what it *)
(* has written so far is in the handler (row, rows) until the commit.  The *)
(* upsert takes the lock of the run's row, so transactions on one run      *)
(* queue behind each other.  With MemStore the mutex makes it one step.    *)
(***************************************************************************)
EXTENDS Integers, Sequences, FiniteSets

CONSTANTS
    RunIds,         \* ids of runs, each pushed by one process
    Handlers,       \* bound: request handlers that exist at once
    NoHandler,      \* "no handler"
    NoRun,          \* nothing is stored under the id
    CheckNames,     \* names of checks
    ModeOf,         \* run id -> "run", "watch" or "eval" (edt run, worker, edt eval)
    RowChoices,     \* run id -> the sequences of check rows its reports may carry
    MaxPushes,      \* bound: snapshots a watch pushes
    MaxTime,        \* bound: clock
    EvalInterval,   \* WatchConfig.EvalInterval
    Window          \* the window SLOPassRate is asked for

CheckRow == [name : CheckNames, passed : BOOLEAN]

ASSUME RunStoreAssumption ==
    /\ NoHandler \notin Handlers
    /\ ModeOf \in [RunIds -> {"run", "watch", "eval"}]
    /\ MaxPushes \in Nat \ {0} /\ MaxTime \in Nat
    /\ EvalInterval \in Nat /\ Window \in Nat
    /\ RowChoices \in [RunIds -> SUBSET Seq(CheckRow)]

\* A report: rep.no is its number among the pushes of its run.
Times    == (0 - EvalInterval)..MaxTime
Report   == [id : RunIds, no : 1..MaxPushes, started : Times, rows : UNION {RowChoices[id] : id \in RunIds}]
TableRow == [rep : Report, started : Times]

\* NoRun is neither a row of the table nor an entry of the ledger below.
ASSUME NoRunIsNoRow ==
    /\ NoRun \notin TableRow
    /\ NoRun \notin [rep : Report, started : Times, rows : Seq(CheckRow)]

VARIABLES
    backend,    \* which Storage the server was started with
    clock,
    pushes,     \* run id -> reports pushed so far
    client,     \* run id -> the handler its pusher waits for
    acked,      \* reports answered with 201 while their pusher waited
    handler,    \* handler -> [pc, rep, row, rows]
    lock,       \* run id -> the transaction that holds the lock of its row
    runs,       \* table runs / eval_runs: run id -> [rep, started] or NoRun
    results,    \* table check_results / eval_results: run id -> rows
    recorded,   \* history: run id -> the reports recorded under it, in order
    samples,    \* reports whose check samples are stored, in order of arrival
    reader      \* GET of a run: [pc, id, row, rows]

tables    == <<runs, results>>
pushVars  == <<pushes, client, acked>>
vars      == <<backend, clock, pushVars, handler, lock, tables, recorded, samples, reader>>

NamesOf(rows) == {rows[i].name : i \in DOMAIN rows}
Row(rep, t)   == [rep |-> rep, started |-> t]

\* Statements of the transaction in RecordRun / RecordEvalRun.
TxPcs == {"delete", "insert"}

Idle       == [pc |-> "idle"]
Serving(h) == handler[h].pc # "idle"
InTx(h)    == handler[h].pc \in TxPcs
Rep(h)     == handler[h].rep
Goto(h, pc) == handler' = [handler EXCEPT ![h].pc = pc]

Init ==
    /\ backend \in {"memory", "postgres"}
    /\ clock = 0
    /\ pushes = [id \in RunIds |-> 0]
    /\ client = [id \in RunIds |-> NoHandler]
    /\ acked = {}
    /\ handler = [h \in Handlers |-> Idle]
    /\ lock = [id \in RunIds |-> NoHandler]
    /\ runs = [id \in RunIds |-> NoRun]
    /\ results = [id \in RunIds |-> <<>>]
    /\ recorded = [id \in RunIds |-> <<>>]
    /\ samples = <<>>
    /\ reader = Idle
-----------------------------------------------------------------------------
(* Pushers                                                                 *)

Tick ==
    /\ clock < MaxTime
    /\ clock' = clock + 1
    /\ UNCHANGED <<backend, pushVars, handler, lock, tables, recorded, samples, reader>>

\* A snapshot is dated one interval back (watch.go); other runs have begun
\* when the clock of the model did.
StartTime(id) == IF ModeOf[id] = "watch" THEN clock - EvalInterval ELSE 0

MayPush(id) ==
    /\ client[id] = NoHandler
    /\ pushes[id] < (IF ModeOf[id] = "watch" THEN MaxPushes ELSE 1)

\* PushReport / PushEvalRun: the request reaches a handler.  A pusher has one
\* request out; a watch pushes every snapshot under the same run id.
Push(id, h) ==
    /\ MayPush(id)
    /\ ~Serving(h)
    /\ \E rows \in RowChoices[id] :
         LET rep == [id |-> id, no |-> pushes[id] + 1, started |-> StartTime(id), rows |-> rows]
         IN  handler' = [handler EXCEPT ![h] =
                 [pc |-> "record", rep |-> rep, row |-> NoRun, rows |-> <<>>]]
    /\ pushes' = [pushes EXCEPT ![id] = @ + 1]
    /\ client' = [client EXCEPT ![id] = h]
    /\ UNCHANGED <<backend, clock, acked, lock, tables, recorded, samples, reader>>

\* The pusher's 10 s or 15 s are over; there is no retry, and the handler goes on.
GiveUp(id) ==
    /\ client[id] # NoHandler
    /\ client' = [client EXCEPT ![id] = NoHandler]
    /\ UNCHANGED <<backend, clock, pushes, acked, handler, lock, tables, recorded, samples, reader>>
-----------------------------------------------------------------------------
(* RecordRun and RecordEvalRun                                             *)

\* MemStore under its mutex: duplicates among the rows are kept.
MemRecord(h) ==
    /\ backend = "memory" /\ handler[h].pc = "record"
    /\ LET rep == Rep(h)
       IN  /\ runs' = [runs EXCEPT ![rep.id] = Row(rep, rep.started)]
           /\ results' = [results EXCEPT ![rep.id] = rep.rows]
           /\ recorded' = [recorded EXCEPT ![rep.id] = Append(@, rep)]
    /\ Goto(h, "samples")
    /\ UNCHANGED <<backend, clock, pushVars, lock, samples, reader>>

\* ON CONFLICT (id) DO UPDATE: for runs started_at is not in the SET list.
Upserted(rep) ==
    IF runs[rep.id] = NoRun \/ ModeOf[rep.id] = "eval"
    THEN Row(rep, rep.started)
    ELSE Row(rep, runs[rep.id].started)

\* Begin and the upsert, which waits until no other transaction holds the row.
Upsert(h) ==
    /\ backend = "postgres" /\ handler[h].pc = "record"
    /\ lock[Rep(h).id] = NoHandler
    /\ lock' = [lock EXCEPT ![Rep(h).id] = h]
    /\ handler' = [handler EXCEPT ![h] =
           [pc |-> "delete", rep |-> Rep(h), row |-> Upserted(Rep(h)),
            rows |-> results[Rep(h).id]]]
    /\ UNCHANGED <<backend, clock, pushVars, tables, recorded, samples, reader>>

\* Plausible bug: without the DELETE the old rows stay beside the new ones.
DeleteNothing(h) ==
    /\ handler[h].pc = "delete"
    /\ Goto(h, "insert")
    /\ UNCHANGED <<backend, clock, pushVars, lock, tables, recorded, samples, reader>>

\* Plausible bug: the check rows are deleted outside the transaction.
DeleteAtOnce(h) ==
    /\ handler[h].pc = "delete"
    /\ handler' = [handler EXCEPT ![h].pc = "insert", ![h].rows = <<>>]
    /\ results' = [results EXCEPT ![Rep(h).id] = <<>>]
    /\ UNCHANGED <<backend, clock, pushVars, lock, runs, recorded, samples, reader>>

DeleteRows(h) ==
    /\ handler[h].pc = "delete"
    /\ handler' = [handler EXCEPT ![h].pc = "insert", ![h].rows = <<>>]
    /\ UNCHANGED <<backend, clock, pushVars, lock, tables, recorded, samples, reader>>

\* One INSERT per row.  PRIMARY KEY (run_id, name): a second row of the same
\* name is refused, which leaves only Rollback.
InsertRow(h) ==
    /\ handler[h].pc = "insert"
    /\ LET n == Len(handler[h].rows) + 1
       IN  /\ n \in DOMAIN Rep(h).rows
           /\ \A i \in DOMAIN handler[h].rows :
                  handler[h].rows[i].name # Rep(h).rows[n].name
           /\ handler' = [handler EXCEPT ![h].rows = Append(@, Rep(h).rows[n])]
    /\ UNCHANGED <<backend, clock, pushVars, lock, tables, recorded, samples, reader>>

\* The commit is durable; its answer may still be lost on the way (error: 500).
Commit(h) ==
    /\ handler[h].pc = "insert"
    /\ Len(handler[h].rows) = Len(Rep(h).rows)
    /\ runs' = [runs EXCEPT ![Rep(h).id] = handler[h].row]
    /\ results' = [results EXCEPT ![Rep(h).id] = handler[h].rows]
    /\ recorded' = [recorded EXCEPT ![Rep(h).id] = Append(@, Rep(h))]
    /\ lock' = [lock EXCEPT ![Rep(h).id] = NoHandler]
    /\ Goto(h, "samples") \/ Goto(h, "error")
    /\ UNCHANGED <<backend, clock, pushVars, samples, reader>>

\* Plausible bug: without `defer tx.Rollback` the connection keeps it open.
LeaveOpen(h) ==
    /\ InTx(h)
    /\ Goto(h, "error")
    /\ UNCHANGED <<backend, clock, pushVars, lock, tables, recorded, samples, reader>>

\* Any statement fails, or the request's context is done: defer tx.Rollback.
Rollback(h) ==
    /\ InTx(h)
    /\ lock' = [lock EXCEPT ![Rep(h).id] = NoHandler]
    /\ Goto(h, "error")
    /\ UNCHANGED <<backend, clock, pushVars, tables, recorded, samples, reader>>

\* Plausible bug: the handler does not look at RecordRun's error.
BeginFailsUnnoticed(h) ==
    /\ backend = "postgres" /\ handler[h].pc = "record"
    /\ Goto(h, "samples")
    /\ UNCHANGED <<backend, clock, pushVars, lock, tables, recorded, samples, reader>>

\* Begin fails, or the wait for the row's lock ends with the context.
BeginFails(h) ==
    /\ backend = "postgres" /\ handler[h].pc = "record"
    /\ Goto(h, "error")
    /\ UNCHANGED <<backend, clock, pushVars, lock, tables, recorded, samples, reader>>
-----------------------------------------------------------------------------
(* The rest of ingestRun                                                   *)

HasSamples(rep) == ModeOf[rep.id] = "watch" /\ rep.rows # <<>>

AppendSamples(h) ==
    /\ handler[h].pc = "samples"
    /\ HasSamples(Rep(h))
    /\ samples' = Append(samples, Rep(h))
    /\ Goto(h, "created")
    /\ UNCHANGED <<backend, clock, pushVars, lock, tables, recorded, reader>>

\* Nothing to append, or `_ = a.Store.AppendCheckSamples(...)` drops the error.
SkipSamples(h) ==
    /\ handler[h].pc = "samples"
    /\ HasSamples(Rep(h)) => backend = "postgres"
    /\ Goto(h, "created")
    /\ UNCHANGED <<backend, clock, pushVars, lock, tables, recorded, samples, reader>>

\* The pusher that still waits for h reads the answer; a later one does not.
Hangup(h) == client' = [id \in RunIds |-> IF client[id] = h THEN NoHandler ELSE client[id]]

ReplyCreated(h) ==
    /\ handler[h].pc = "created"
    /\ acked' = IF client[Rep(h).id] = h THEN acked \cup {Rep(h)} ELSE acked
    /\ Hangup(h)
    /\ handler' = [handler EXCEPT ![h] = Idle]
    /\ UNCHANGED <<backend, clock, pushes, lock, tables, recorded, samples, reader>>

ReplyError(h) ==
    /\ handler[h].pc = "error"
    /\ Hangup(h)
    /\ handler' = [handler EXCEPT ![h] = Idle]
    /\ UNCHANGED <<backend, clock, pushes, acked, lock, tables, recorded, samples, reader>>

\* The server process restarts: connections break, open transactions roll
\* back, and MemStore starts empty.
Restart ==
    /\ handler' = [h \in Handlers |-> Idle]
    /\ client' = [id \in RunIds |-> NoHandler]
    /\ lock' = [id \in RunIds |-> NoHandler]
    /\ reader' = Idle
    /\ \/ backend = "postgres" /\ UNCHANGED <<tables, recorded, samples>>
       \/ /\ backend = "memory"
          /\ runs' = [id \in RunIds |-> NoRun]
          /\ results' = [id \in RunIds |-> <<>>]
          /\ recorded' = [id \in RunIds |-> <<>>]
          /\ samples' = <<>>
    /\ UNCHANGED <<backend, clock, pushes, acked>>
-----------------------------------------------------------------------------
(* GetRun / GetEvalRun                                                     *)

\* Plausible bug: GetRun without the check for ErrNoRows.
ReadRowUnchecked(id) ==
    /\ reader.pc # "row"
    /\ reader' = [pc |-> "answered", id |-> id, row |-> runs[id], rows |-> results[id]]
    /\ UNCHANGED <<backend, clock, pushVars, handler, lock, tables, recorded, samples>>

\* Postgres answers with two queries that share no transaction ...
ReadRow(id) ==
    /\ reader.pc # "row"
    /\ runs[id] # NoRun
    /\ reader' = [pc |-> IF backend = "postgres" THEN "row" ELSE "answered", id |-> id,
                  row |-> runs[id],
                  rows |-> IF backend = "postgres" THEN <<>> ELSE results[id]]
    /\ UNCHANGED <<backend, clock, pushVars, handler, lock, tables, recorded, samples>>

\* ... MemStore with one access under the read lock (ReadRow above).
ReadRows ==
    /\ reader.pc = "row"
    /\ reader' = [reader EXCEPT !.pc = "answered", !.rows = results[reader.id]]
    /\ UNCHANGED <<backend, clock, pushVars, handler, lock, tables, recorded, samples>>

\* SLOPassRate(scenario, window): the checks the answer has a rate for.  Eval
\* runs are in tables of their own.
InWindow(t) == t >= clock - Window
SLOChecks   == UNION {NamesOf(results[id]) : id \in
                   {i \in RunIds : ModeOf[i] # "eval" /\ runs[i] # NoRun /\ InWindow(runs[i].started)}}
-----------------------------------------------------------------------------
Statement(h) ==
    \/ MemRecord(h)
    \/ Upsert(h) \/ DeleteRows(h) \/ InsertRow(h) \/ Commit(h)
    \/ Rollback(h) \/ BeginFails(h)

HandlerStep(h) ==
    \/ Statement(h)
    \/ AppendSamples(h) \/ SkipSamples(h)
    \/ ReplyCreated(h) \/ ReplyError(h)

Next ==
    \/ Tick \/ Restart \/ ReadRows
    \/ \E id \in RunIds : GiveUp(id) \/ ReadRow(id)
    \/ \E id \in RunIds, h \in Handlers : Push(id, h)
    \/ \E h \in Handlers : HandlerStep(h)

Spec == Init /\ [][Next]_vars
-----------------------------------------------------------------------------
(* Properties                                                              *)

HandlerPcs == {"record", "delete", "insert", "samples", "created", "error"}

BusyHandler == [pc : HandlerPcs, rep : Report, row : TableRow \cup {NoRun}, rows : Seq(CheckRow)]

BusyReader == [pc : {"row", "answered"}, id : RunIds, row : TableRow, rows : Seq(CheckRow)]

TypeOK ==
    /\ backend \in {"memory", "postgres"}
    /\ clock \in 0..MaxTime
    /\ pushes \in [RunIds -> 0..MaxPushes]
    /\ client \in [RunIds -> Handlers \cup {NoHandler}]
    /\ acked \subseteq Report
    /\ handler \in [Handlers -> BusyHandler \cup {Idle}]
    /\ lock \in [RunIds -> Handlers \cup {NoHandler}]
    /\ runs \in [RunIds -> TableRow \cup {NoRun}]
    /\ results \in [RunIds -> Seq(CheckRow)]
    /\ recorded \in [RunIds -> Seq(Report)]
    /\ samples \in Seq(Report)
    /\ reader \in BusyReader \cup {Idle}

\* A row's lock belongs to an open transaction on that run and to no other:
\* every way out of RecordRun (commit, defer tx.Rollback, a dead server) gives
\* it back, or the next snapshot of the run could never be recorded.
LocksBelongToTransactions ==
    /\ \A id \in RunIds : lock[id] # NoHandler => InTx(lock[id]) /\ Rep(lock[id]).id = id
    /\ \A h \in Handlers : InTx(h) => lock[Rep(h).id] = h

\* What an open transaction has written so far: a row made of its own report,
\* and a prefix of that report's check rows once the old ones are deleted.
HoldsItsReport(h) ==
    /\ backend = "postgres"
    /\ handler[h].row # NoRun
    /\ handler[h].row.rep = Rep(h)
    /\ \/ handler[h].row.started = Rep(h).started
       \/ /\ runs[Rep(h).id] # NoRun
          /\ handler[h].row.started = runs[Rep(h).id].started
    /\ handler[h].pc = "insert" =>
           /\ Len(handler[h].rows) <= Len(Rep(h).rows)
           /\ \A i \in 1..Len(handler[h].rows) : handler[h].rows[i] = Rep(h).rows[i]

TransactionInv == \A h \in Handlers : InTx(h) => HoldsItsReport(h)

\* Inductive: what the refinement below rests on.
IInv == TypeOK /\ LocksBelongToTransactions /\ TransactionInv

\* The tables as the contract sees them.
Ledger == [id \in RunIds |->
    IF runs[id] = NoRun THEN NoRun
    ELSE [rep |-> runs[id].rep, started |-> runs[id].started, rows |-> results[id]]]

Contract == INSTANCE RunLedger WITH ledger <- Ledger, durable <- (backend = "postgres")

\* Both backends implement the ledger: whatever handlers overlap, fail half-way
\* or outlive their client, a run is replaced at once with all its check rows,
\* and Postgres forgets nothing in a restart.
ImplementsLedger == Contract!LedgerSpec

\* An answer of GET /runs/{id} may pair the row of one report with the checks
\* of another (Postgres reads twice), but both were recorded under that id and
\* the checks are never the older of the two.
ReadsGoForward ==
    reader.pc = "answered" =>
        \E k \in DOMAIN recorded[reader.id] :
            /\ reader.rows = recorded[reader.id][k].rows
            /\ \E j \in 1..k : reader.row.rep = recorded[reader.id][j]

\* With Postgres a report that was answered with 201 is in the table, restart
\* or not, unless a report recorded after it took its place.
AckedSurvives ==
    backend = "postgres" =>
        \A rep \in acked :
            \E k \in DOMAIN recorded[rep.id] :
                /\ recorded[rep.id][k] = rep
                /\ runs[rep.id] # NoRun
                /\ \E j \in k..Len(recorded[rep.id]) : runs[rep.id].rep = recorded[rep.id][j]

\* What a restarted worker is seeded with: samples of recorded snapshots only,
\* and of each snapshot once, although pushes time out and handlers overlap.
SamplesOfRecordedRuns ==
    /\ \A i \in DOMAIN samples : \E k \in DOMAIN recorded[samples[i].id] :
           recorded[samples[i].id][k] = samples[i]
    /\ \A i, j \in DOMAIN samples : samples[i] = samples[j] => i = j

\* What the history says of the tables, the handlers and the reader; with IInv
\* it is inductive, and the three properties above follow.
Recorded(rep) == \E k \in DOMAIN recorded[rep.id] : recorded[rep.id][k] = rep

\* A table holds the report recorded last.
TablesHoldTheLast == \A id \in RunIds :
    IF runs[id] = NoRun THEN recorded[id] = <<>>
    ELSE /\ recorded[id] # <<>>
         /\ runs[id].rep = recorded[id][Len(recorded[id])]
         /\ results[id] = recorded[id][Len(recorded[id])].rows

\* A handler past RecordRun has recorded its report, and so has who answered.
HandlersRecorded == \A h \in Handlers :
    handler[h].pc \in {"samples", "created"} => Recorded(Rep(h))

AckedRecorded == backend = "postgres" => \A rep \in acked : Recorded(rep)

\* Between the two queries of GetRun the row is one that was recorded.
ReaderInv ==
    /\ reader.pc = "row" =>
           \E j \in DOMAIN recorded[reader.id] : reader.row.rep = recorded[reader.id][j]
    /\ ReadsGoForward

\* Every push has a number of its own, so no two handlers serve one report, and
\* a handler that has not appended its samples yet finds none of its report.
NumbersInv ==
    /\ \A h \in Handlers : Serving(h) => Rep(h).no <= pushes[Rep(h).id]
    /\ \A g, h \in Handlers : Serving(g) /\ Serving(h) /\ Rep(g) = Rep(h) => g = h

SampleInv ==
    /\ \A i \in DOMAIN samples : Recorded(samples[i]) /\ samples[i].no <= pushes[samples[i].id]
    /\ \A h \in Handlers : Serving(h) /\ handler[h].pc # "created" =>
           \A i \in DOMAIN samples : samples[i] # Rep(h)
    /\ \A i, j \in DOMAIN samples : samples[i] = samples[j] => i = j

HistoryInv ==
    /\ TablesHoldTheLast /\ HandlersRecorded /\ AckedRecorded /\ ReaderInv
    /\ NumbersInv /\ SampleInv

\* "Pass-rate per check for a scenario over a sliding window" (mcp/mcp.go:270):
\* the checks of a stored report that started within the window have a rate.
\* Postgres keeps the started_at of a watch's first snapshot, so after one
\* window its run drops out, however fresh the stored snapshot is.
SLOCoversWindow ==
    \A id \in RunIds :
        runs[id] # NoRun /\ ModeOf[id] # "eval" /\ InWindow(runs[id].rep.started) =>
            NamesOf(results[id]) \subseteq SLOChecks
=============================================================================
