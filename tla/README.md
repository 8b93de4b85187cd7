# Verification of edt

`edt` (event-driven tests) runs scenarios of steps against an event-driven
system (Kafka, HTTP, WebSocket, SSE, gRPC), keeps what it observed in an events
store, evaluates CEL checks over that store, and reports to a control plane.
Workers pick up assignments from the control plane and run scenarios in watch
mode for ever.  This directory holds TLA+ models of the stateful parts, the TLC
configurations that check them on small instances, and TLAPS proofs of what
matters most for every size.

    tlasany M.tla                        parse a module
    tlc -config X.cfg MCModule           model-check (runs are listed in PROJECT.json)
    tlapm MProofs.tla                    check the proofs of a module

`PROJECT.json` lists components, runs, mutants (a plausible bug per property, as
an operator next to the definition it mutates; TLC finds the property violated
by it), the source lines behind every definition, hazards and findings.

## 1. Inventory

### How the parts interact

                 POST /scenarios, /workers/{id}/assignments
      operator, UI, MCP ─────────────────────────► control plane (api, mcp)
                                                       │  Storage interface
      worker process                                   ▼
      ┌──────────────────────────────┐          MemStore | PGStore
      │ Loop: register, heartbeat ───┼──────────────►    ▲
      │   │ one goroutine/assignment │                   │
      │   ▼                          │                   │
      │ Watch ── OnReport: push ─────┼── POST /runs ─────┘
      │   │  ▲                       │      (run id is the same for all
      │   ▼  │ checks (CEL)          │       snapshots of one watch)
      │ step loop ──► events store   │
      └──────────────────────────────┘
          │ Kafka, HTTP, WS, SSE, gRPC
          ▼
      system under test

`edt run` is one pass of the step runner, one evaluation of the checks and at
most one push; `edt eval` drives agents with inputs, pairs their outputs, lets
judges score them and pushes once.

### Components

| component | state | operations | what is hard | what makes it correct |
|---|---|---|---|---|
| worker control loop (`pkg/worker/loop.go`) | `dispatched` map, `slots` channel, one goroutine per assignment | register, tick (heartbeat, reconcile), dispatch, cancel, deferred cleanup | map shared by the loop and the goroutines' defers; slots and cancellation race; failing heartbeats | at most `MaxConcurrentRuns` handlers; one live run per scenario; an outage cancels nothing; whatever runs can be cancelled; assignments get a run; shutdown drains |
| registry and assignments (`api/workers.go`, storage) | worker ids, assignment rows, scenario bodies | register, heartbeat, assign, list | MemStore repeats rows, Postgres does not; MemStore loses everything on restart, the worker never registers again | rows only name known scenarios and workers; heartbeat of an unknown id is an error, not an empty list |
| watch mode (`orchestrator/watch.go`) | events store, `stepLoopErrCh`, ticker | step loop, ticker snapshot, final snapshot, push in `OnReport` | two goroutines, one of which may be inside any blocking call when the context ends | Watch returns after the last step; the final report covers the whole store; cancellation always ends it |
| step runner (`orchestrator/run.go` and friends) | events store, `${previous.*}` | one handler per kind of step | each kind has its own rules for what passes, what fails, what is recorded and when | a step that passed left its evidence; `${previous.*}` is the latest answer |
| events store (`pkg/events`) | one bounded slice per stream | append (evicts), query, window | readers hold lengths and copies across evictions; a windowed read walks stream by stream | newest events survive; a read never sees an event twice |
| checks (`pkg/checks`) | none | CEL functions over a store | events out of order, shared keys, empty lists, values of mixed types | latencies are those of a largest pairing in which no answer counts twice; percentiles sit at their rank; `http` reads no path its pattern does not match |
| eval executor (`pkg/eval`) | cursors, matched outputs, aggregates | reseed, collect inputs, wait for output, judge, aggregate, finalize | cursors are lengths of streams that evict; late and missing answers; judge errors | every input and every output is scored once; nothing passes without its samples; the run ends |
| run and sample storage (`storage/memory.go`, `postgres.go`) | runs, check rows, eval rows, samples | record, read, pass rates | multi-statement transactions, two backends, servers that stop | one report per run id, replaced as a whole; an acknowledged report survives |
| run ingestion (`api/runs.go`, `api/eval_runs.go`, `pkg/reporter`) | requests in flight | push, answer, time out | a handler outlives its client; errors of samples are dropped | samples belong to recorded runs and are stored once |
| ad-hoc runs (`api/adhoc.go`) | runs in flight | start, finish, record | the router's 30 s against the run's own 60 s | what is stored as passed had its steps done; an answered run is in the store, where the code can put it there |
| scenario versions (`api/scenarios.go`) | version per name | create, update | read-then-write | a name and a version stand for one document |
| tokens and roles (`api/auth.go`, `tokens.go`, `server.go`) | token hashes, roles | issue, look up, revoke, bootstrap | the token is looked up once, the handler acts later; bootstrap at every start of a server | every change was asked for with a token whose role allows it |
| schema migrations (`storage/migrate.go`) | `schema_migrations` | check, apply | check and apply without a lock while two servers start | each committed once; a server that lost the race serves after a restart |
| MCP endpoint (`mcp/mcp.go`) | none of its own | dispatch of batches onto Storage | reads, writes and notifications in one batch, some refused, some failing | the answers tell what was changed; a write takes the editor's role |
| Kafka client (`pkg/kafka`) | cached subscribers | produce, consume | records of a fetched batch after a match; commits in the background | each record once and in order; no gap but what was fetched behind a match or with a failing fetch |
| schema registry codec (`pkg/schemaregistry`) | TTL caches by subject and id | encode, decode | callers that miss the cache ask without a lock | a version that is used was the latest within the ttl before the call; the header names the schema of the body |
| SSE client (`httpc/sse.go`, `orchestrator/sse.go`) | one connection, the frame being read | open, next frame | deadline, cancellation and the end of the connection in the middle of a frame | every recorded event is one whole frame |
| protocol clients (`pkg/httpc`, `ws`, `grpcc`) | connections | request, session | I/O | left outside the models: their answers and errors are inputs |
| command line (`cmd/edt`) | none | run, eval, batch, worker, serve | many early returns; seeds and demo rows at every start of `serve` | the exit code is the verdict |
| judges, data generators, scenario parser, metrics, UI, SDK, charts | none a property depends on | | | not modelled |

## 2. Modules

| module | stands for | state ↔ code |
|---|---|---|
| `WorkerLoop` | `worker.Loop` and its client; registration, heartbeat, assignment and loss of memory in the control plane | `dispatched`, `slots` are the map and the channel; `pc` is where `Run`/`tickOnce` is; `phase[g]` is where the goroutine of an assignment is (queued on the slots select, running, then its two deferred functions); `rows[w][s]` counts assignment rows |
| `StepRunner` | `Runner.Run` and every `run<Kind>` | `at` is the step, `result` how the iteration ended, `previous` who filled `${previous.*}`, `store` the events, each with the step that wrote it and whether it is an answer |
| `WatchMode` (extends `StepRunner`) | `Runner.Watch`, `runScenarioLoop`, `emitWatchSnapshot`, the worker's `OnReport` | `loopPc` and `pc` are the two goroutines, `errCh` is `stepLoopErrCh`, `seen` is the length of the store at each read of a snapshot |
| `RunLedger` | the abstract contract: a run id holds one report and its rows | `ledger`, `durable` |
| `RunStore` | pushers, the handlers of `POST /runs` and `/eval-runs`, `RecordRun`, `RecordEvalRun`, `AppendCheckSamples`, `GetRun`, `GetEvalRun`, `SLOPassRate` in `MemStore` and `PGStore` | `runs`, `results`, `samples` are the tables; an open transaction's writes are in `handler[h].row`/`.rows` until the commit; `lock` is the row lock the upsert takes; `recorded` is a history variable |
| `EventStore` | `events.MemStore` | `byStream`, `total` as in the code; `evicted` counts what each stream has lost, so that properties can tell events apart when indexes shift |
| `EvalExecutor` (extends `EventStore`) | `Executor.RunIterations`, `waitForOutput`, `Observe`, `Finalize`; the reseed of `edt eval`; the agent | `start`, `lower` are `inCursors`, `outCursors`; `fresh`, `cur`, `looked` where the loop and the wait are; `used`, `agg`, `errs`, `status` as in the code; `pairs`, `bound`, `early` are history |
| `ServerStart` | replicas of `edt serve` on one Postgres: `applyMigrations`, `bootstrapAdmin`, `seedScenarios`, `seedDemoData` | `phase[s]` and `at[s]` are where a process is and the position in the list it works through; `applied` is `schema_migrations`, `tokens` and `catalog` are the tables; `bodies` and `saved` are history |
| `ControlPlane` (extends `ServerStart`) | `RequireRole`, the handlers of scenarios and tokens, the JSON-RPC dispatcher of `/mcp` | `req[r]` is a request with the role the middleware found and the call of the batch it is at; `answers[r]` what was sent back; `made`, `held` are history |
| `StorageBackends` | `MemStore` and `PGStore` side by side, every method of `Storage` | `mem` are the Go maps and slices, `pg` the tables with their keys, of which (run_id, name) refuses a report that names a check or an eval twice; `returned` is what both said to the last call |
| `ScenarioRun` | `doRun`, `batch-run`, `runAdhoc`/`executeAdhoc`, `Finalize`, the list of checks | `pc` and `step` are where the run is, `rep` is the report, `remote` what the control plane holds, `steps` is history |
| `KafkaConsumer` | `kafka.Client`: produce, cached subscribers, `Consume`, `Close` | `subs` is the cache, `call` the `Consume` that runs with the rest of its batch; `log`, `committed` are the broker's (external); `got`, `settled` are history |
| `SchemaCodec` | `Codec.Encode`, `Decode` and both caches; `decodeForWire` | `bySub`, `byID` are the caches, `caller[c]` is a goroutine between two registry calls; `latest` is the registry's (external) |
| `CheckOperators` | `latency`, `percentile`, `rate`, `http` with `globMatch` | input grows by one element a step; then `doing` is the loop that runs or what came of it, `order` what sorting made, `turn` and `pairs` how far `latency` has paired, `turn` and `pos` how far `globMatch` has read the pattern and the path |
| `SseStream` | `runSSE` over `SSEStream.Next` | `read` and `frame` are the scanner and the frame it collects, `next` is where the step is, `events` what it recorded; `lines`, `conn` are the server's and the transport's |
| `MCWorkerLoop`, `MCWatchMode`, `MCRunStore`, `MCEvalExecutor`, `MCControlPlane`, `MCScenarioRun` | instances for TLC | in the last two `part` says which of the modules with disjoint state runs |
| `WorkerLoopProofs`, `WatchModeProofs`, `RunStoreProofs`, `EvalExecutorProofs`, `ControlPlaneProofs`, `StorageBackendsProofs`, `ScenarioRunProofs`, and `ClientProofs` for `KafkaConsumer`, `SchemaCodec` and `SseStream` | theorems and their lemmas | |

Grain.  In `WorkerLoop` every access under `l.mu`, every channel operation and
every HTTP exchange is a step of its own, so the two deferred functions of a
goroutine interleave with the loop.  In `WatchMode` each step outcome, each read
of a snapshot and each channel operation is a step.  In `RunStore` each SQL
statement is a step, MemStore's critical section is one.  In `EvalExecutor`
every look at the store, every append and every answer of the agent is a step.
In `ServerStart` and `ControlPlane` every statement on the database is a step,
and so is each call of an MCP batch; a statement that fails may have been
executed all the same: a scenario is saved, a token issued or revoked, an assignment
inserted behind an answer that says 500.  In `StorageBackends` a call is a step: what happens inside one is
`RunStore`'s subject.  In `ScenarioRun` each step of the scenario, the
evaluation, the push, the print and the store are steps; in `KafkaConsumer` each
poll, each record and each commit; in `SchemaCodec` everything between two
accesses to a cache; in `SseStream` each line; in `CheckOperators` each turn of a loop.

What is abstracted.  Event payloads, topics, rates and pauses (they change no
control decision), the text of checks, timestamps except the clock that
`started_at` and the SLO window need, HTTP encoding.  A timeout is one way for a
waiting call to end, possible at any moment.  In `EvalExecutor` an event is its
key and a number that says which input it is or answers; whether a score meets
the threshold is a choice.  In the modules of the control plane documents, names
and secrets are model values and a digest is its secret.  In `ScenarioRun` a check is
the step that makes it true and what it is over a store without that step's event.
In `KafkaConsumer` there is one topic with one partition and nobody rebalances; in
`SchemaCodec` one subject, and a body is the schema it was written with.  Percentiles
are in hundredths and exact, where the code computes in float64.  An SSE line is the
kind of its field, an event the numbers of the lines it came from.

## 3. Runs

| run | what it asks | bounds, and why they are enough |
|---|---|---|
| `worker_safety` | type; slots = handlers that own one; one live run per scenario; outages cancel nothing; live runs are cancellable | 2 scenarios (one may be deleted, one never), 3 goroutines (an old one leaving, a new one and a rival), 1 slot (so goroutines queue), 2 registrations (one process restart), 2 rows (MemStore repeats rows). |
| `worker_liveness` | every assignment is worked on; a cancelled worker drains | 2 slots for 2 scenarios: a watch run never ends by itself, so with fewer slots than assignments the rest waits for ever, which is what the code does. 4 goroutines: one leaving and one active per scenario. One registration: a process that dies owes nothing. |
| `worker_orphan` (violation) | the map reaches every live run, also of a scenario whose rows were deleted | the instance of `worker_safety`. |
| `watch` | evidence of passed steps; `${previous.*}`; nothing runs after Watch; the final snapshot is complete; cancellation returns | 4 scenarios that between them use every step kind, wired or not, with rules, counts, expectations and injections; 2 iterations (state carried over the iteration boundary), 2 records per stream step, one ticker snapshot, one check read before the count. |
| `watch_swallowed` (violation) | an iteration that ended in an error left an event of the failing step | one consume step with a rule. |
| `run_store` | type; locks; reads go forward; acknowledged reports survive; samples are of recorded runs, once; the ledger is implemented | one watch with 2 snapshots and one eval, 2 handlers (the second snapshot overtakes or meets the first), row choices with one row, two rows and two rows of one name, 1 clock tick. |
| `run_store_slo` (violation) | the checks of a report within the window have a pass rate | the same with 3 clock ticks: one window beyond the first snapshot. |
| `eval` | store and aggregate counts; inputs and outputs scored once; no old output; what a pass rests on; the run ends | 2 iterations, 3 inputs over 2 keys (so a key repeats within and across iterations, and an iteration may be empty), 2 events per stream (so both streams evict), at most one output from before the run, one eval that asks for 2 samples. |
| `eval_stale` (violation) | no output of an earlier iteration is scored | the same. |
| `eval_unobserved` (violation) | an answer on the topic is scored | the same with nobody copying the topic. |
| `control_plane` | type; migrations once; every server serves; changes authorised; answers true; one document per version; both backends answer alike, refused reports apart | 2 replicas and 2 migrations (one is committed while the other is looked up), 3 names, 2 faults in a cold start (both racers hit, or one hit twice), 1 in a warm one, 2 requests on different replicas (one may issue or revoke the token the other carries), batches of up to 3 calls; 7 documents (with evals, without, unparsable, not valid, valid with two checks or two evals of one name), of which the seed directory has three and the requests bring the others; `MaxVersion` is 2: a start that the demo seed ends has saved the seed directory again, so the next one differs from it by the version numbers only and is left out beyond version 2; no request after a cold start: what a request meets is a table, and the warm start has those. Backends: 4 calls, which reach a second version, a repeated assignment, a token revoked and issued again, a list cut by its limit; a report of each kind that repeats a name and one that does not, the eval run first accepted and then refused, or the other way round. |
| `scenario_run` | type; verdicts earned; no silent gap; fresh schemas; operators do what their references say; frames whole | Runs: 6 files (invalid, two whose critical check depends on a step, one with a NaN, one whose checks never hold, one without a broker), single, paired in batches, ad hoc on both backends. Kafka: 3 records, fetches of 2 (so a batch has a rest), a group and no group, 2 processes. Codec: 2 interchangeable callers, 2 versions, ttl none or 2, 5 times (one ttl and a half after the change). Operators: streams of up to 4 events over 2 keys and 3 times, lists of 4 with zeros, ties and a non-number, patterns and paths of 4 over 2 characters. SSE: 5 lines (two frames and a rest). |

`CHECK_DEADLOCK FALSE` stands where the bounds or the program stop the system: a
worker that failed to register exits, a Watch returns, pushes are bounded, an eval is over;
requests are each sent once and calls to the stores are counted; a run, an sse step
and a growing list end, a topic is full.

### Fairness

- `WorkerLoop!Fairness`: the Go scheduler runs the loop and every goroutine
  (weak fairness); a heartbeat or a fetch may fail any number of times but not
  for ever, and select chooses at random among ready cases, so `ctx.Done` is not
  passed over for ever (strong fairness); senders blocked on a channel are
  served first come, first served, so a queued goroutine gets a slot if slots
  keep coming free (strong fairness per scenario); a handler whose context is
  done returns.  No fairness for handlers that end by themselves, operators,
  crashes or cancellation.
- `WatchMode!Fairness`: both goroutines run; a step whose context is done comes
  back, because every blocking call takes the context; the push inside
  `OnReport` ends within its 10 s; select does not pass over a ready case for
  ever.  No step has to end by itself and nobody has to cancel.
- `EvalExecutor!FairSpec`: the executor goroutine runs (a reseed returns, the
  judge answers or errs); `MatchTimeout` passes, though the wait may look any
  number of times before (strong fairness of `Timeout`).  The agent owes no
  answer, nobody cancels.
- `ControlPlane!StartFairness`: a replica that is down is started again (the
  pods of the charts' Deployments always are) and a process that starts goes on
  starting (weak fairness); faults are bounded, so they end.  Requests have no
  fairness.  `EveryServerServes` excepts `DemoStuck`: with `--seed-demo` a stored
  document that the demo seed does not skip and that cannot be parsed, or that is valid and
  has two checks or two evals of one name, ends every start, until
  somebody replaces it.
- `RunStore`, `StorageBackends` and the modules of `scenario_run` state safety only.

## 4. Findings

1. `worker_orphan`: the deferred `delete(l.dispatched, scenario)` (loop.go:138)
   removes by name.  A scenario that is removed and assigned again while the
   cancelled goroutine is still leaving loses the *new* goroutine's entry: that
   run cannot be cancelled any more and the next tick starts a second one.
   The theorem `CancellableHolds` shows that this is the only way: for
   scenarios nobody deletes the entry is always there.
2. `watch_swallowed`: the comment at watch.go:97-98 says swallowed errors are
   visible as events.  A consume step that times out, a step without a client
   and a failed gRPC call leave none.
3. `run_store_slo`: Postgres keeps the first `started_at` of a watch
   (postgres.go:124-131), MemStore the newest; after one window a live watch has
   no SLO pass rate with Postgres.
4. `eval_stale`: the comment at executor.go:195-197 says an output of an earlier
   iteration can never satisfy a new input.  The cursor keeps out what was stored
   before the reseed; an answer to an input that timed out comes later and is
   paired with the next input of its key.  `NoOldOutput` holds: it is what the
   cursor does promise.
5. `eval_unobserved`: `edt eval` says it reads the agent's outputs from the
   store; it runs the produce steps only, so nothing puts them there and every
   input is scored as unanswered.

Other places where code and text part, met while modelling.  The models follow the
code, the properties name the exception where they need one:

- The context an sse request is made with is cancelled as soon as the stream is
  open (orchestrator/sse.go:36-38); net/http ends the body with it, so the step
  reads what has arrived by then, against httpc/sse.go:33-35 and
  orchestrator/sse.go:18-19 (`TearDown`).  The name and id of a frame without data
  are given to the next event (`BlankLine`); a frame cut short by the end of the
  connection is recorded (`PartialFrame`).
- A Kafka client that cannot be built: `edt run` prints a report that was never
  finalized and exits with 0 (run.go:106-110, against the codes at run.go:177-179); an
  ad-hoc run finalizes before it sets the error and stores "pass" (adhoc.go:107-110).
- The store of an ad-hoc run uses the request's context: with Postgres a run longer
  than the router's 30 s is dropped, against the comment at adhoc.go:74.
- A check that is no bool and is undefined or infinite makes the report one that
  cannot be encoded: it is neither pushed, stored nor printed as JSON.
- A signal during `batch-run` cancels the current file only.
- Consume steps of one group and topic share a cached subscriber (client.go:39-40
  speaks of one each): the rest of a batch behind a match, or what came with a
  failing fetch, no later step sees.
- An outage of the registry turns a consumed payload into its raw text without an
  error (`GetSchemaFails`).
- `globMatch` takes the first occurrence of a segment: `*b` does not match `bab`.
- A revoked bootstrap token is back, under a new id, after the next start of a
  server that is configured with it.  MCP's `upsert_scenario` neither parses nor
  validates.
- The primary key (run_id, name) of check and eval results (0001_init.sql:36,
  0004_eval_runs.sql:31) refuses a report in which two checks or two evals have one
  name; `MemStore` accepts it, and so does the validation of scenarios
  (schema.go:33-92).  `BackendsAgree` excepts these reports, the reads of such a run
  and the lists and rates of its scenario (`RefusedRuns`, `RefusedEvalRuns`).
- For the same reason, with `--seed-demo` on Postgres a valid document of that kind ends every
  start (serve.go:169-181), as an unparsable one does that came in through MCP: the
  documents of `DemoStuck`.
- A 500 from the routes of tokens and scenarios, and a -32603 from a tool, may hide a change
  that was made: the statement was executed and its result lost.  An issued token of this kind
  has a secret nobody was shown.  `AnswersTellTheTruth` counts these answers.
- `MemStore` keeps a repeated assignment twice although the tool is advertised as
  idempotent (mcp.go:222); Postgres orders the results of an eval run by name, and lists
  100 runs where no limit is given, `MemStore` all.

Three things the models contain and no property is about, because no document says
what should hold: a restarted worker has a new id and leaves its assignments with
the old one (cmd/edt/worker.go:87); a call in flight when the context ends records
its failure (orchestrator/run.go:180); a produce that failed is recorded in the
topic's stream (orchestrator/run.go:189).

## 5. Proofs

| theorem | for all | rests on |
|---|---|---|
| `WorkerLoopProofs!Invariance`, `TypeCorrect`, `SlotsBoundRunsHolds`, `OneLiveRunHolds`, `CancellableHolds`, `OutageKeepsRunsHolds` | scenarios, goroutines, slots, registrations | `WorkerAssumption` |
| `WatchModeProofs!TypeCorrect`, `NoStepAfterReturnHolds`, `FinalSnapshotCompleteHolds`, `EvidenceInvariance`, `PassedStepsLeftEvidenceHolds`, `PreviousIsLatestAnswerHolds` | scenarios of any steps, iterations, records, reads | `StepAssumption`, `WatchAssumption` |
| `RunStoreProofs!Invariance`, `TypeCorrect`, `LocksHold`, `LedgerImplemented`, `HistoryInvariance`, `ReadsGoForwardHolds`, `AckedSurvivesHolds`, `SamplesOfRecordedRunsHold` | run ids, handlers, reports with any check rows, clock | `RunStoreAssumption`, `NoRunIsNoRow` |
| `EvalExecutorProofs!Invariance`, `TypeCorrect`, `CountsHold`, `InputsScoredOnceHolds`, `EveryInputScoredHolds`, `OutputsScoredOnceHolds`, `NoOldOutputHolds`, `PassRestsOnSamplesHolds` | keys, evals, iterations, seeds, caps, observed or not | `StoreAssumption`, `EvalAssumption` |
| `ControlPlaneProofs!ControlPlaneInvariance`, `MigrationsOnceHolds`, `VersionNamesOneDocumentHolds`, `ChangesAuthorisedHolds`, `AnswersTellTheTruthHolds`, `ControlPlaneTypeCorrect` | replicas, migrations, seeds, faults, documents, requests and batches of any length, with or without auth | `ServerStartAssumption`, `ControlPlaneAssumption` |
| `StorageBackendsProofs!StoresInvariance`, `StoresTypeCorrect`, `BackendsAgreeHolds` | scenarios, documents, workers, tokens, runs, eval results, limits | `StorageBackendsAssumption`; the last also `MaxCalls <= 100` |
| `StorageBackendsProofs!PartsImplemented`, `TypeCorrect` | the composition in `MCControlPlane` | the assumptions of its parts |
| `ScenarioRunProofs!RunInvariance`, `RunTypeCorrect`, `VerdictIsEarnedHolds` | commands, files, steps, checks | `ScenarioRunAssumption` |
| `ScenarioRunProofs!OperatorsInvariance`, `OperatorsMatchReferenceHolds` | events, keys, times, lists, percentages, patterns, paths | `CheckOperatorsAssumption` |
| `ScenarioRunProofs!PartsImplemented`, `TypeCorrect` | the composition in `MCScenarioRun` | the assumptions of its parts |
| `ClientProofs!KafkaInvariance`, `NoSilentGapHolds` | groups, records, batches, processes | `KafkaConsumerAssumption` |
| `ClientProofs!CodecInvariance`, `FreshWithinTTLHolds` | callers, versions, ttl, clock | `SchemaCodecAssumption` |
| `ClientProofs!SseInvariance`, `FramesAreWholeHolds` | steps, lines, how far the server is ahead | `SseStreamAssumption` |

The assumptions on the constants say what the code gives: bounds are naturals, a
request is of a form its route decodes, a batch has files and any other command has
one.  TLC evaluates each of them in a passing run.

The arguments, in short:

- **Worker loop.**  `OneLiveRun` and `AssignedRunsAreCancellable` are not
  inductive: from an arbitrary state the deferred delete of one goroutine can
  remove another's entry.  `IInv` adds who owns an entry (`EntryInv`), that for a
  scenario nobody deletes an active goroutine *is* the one in the map
  (`OwnerInv`), and why the end of a tick never cancels it: as long as the
  control plane knows the worker it has a row for every entry, and while a reply
  is worked through every entry is wanted or still to come (`RowsInv`).
  `SlotInv` counts the owners of a slot, by lemmas on adding and removing one.
- **Watch mode.**  `FinalSnapshotComplete` needs that the loop has ended when the
  last snapshot *begins* (`LastInv`), which in turn needs that a message in
  `errCh` means the loop is over (`LoopInv`): then nothing writes the store
  between the first read and the return.
- **Evidence.**  `PassedStepsLeftEvidence` says nothing of the step at work.
  `EvidenceInv` does (`StepInProgress`): `sub` is the number of events it has written, a
  consume step has no match yet, a stream step is below its count, a step with one
  call has none.  `WrittenInOrder` keeps what other steps wrote apart, so evidence,
  once left, stays.  `PreviousIsLatestAnswer` is inductive with `EvidenceInv`: an event
  is appended in the step that replaces `${previous.*}` or leaves it.
- **Run storage.**  The refinement maps `runs` and `results` to one ledger.
  `Commit` must look like one `Record`: an open transaction holds a row made of its
  own report and exactly a prefix of that report's check rows
  (`TransactionInv`), and its started_at is the report's or the one in the table,
  which cannot change meanwhile because the row's lock is the transaction's
  (`LocksBelongToTransactions`).
- **History of runs.**  `HistoryInv` ties `recorded` to what can be seen: the table holds
  the report recorded last with its rows, a handler past `RecordRun` and a report that was
  answered are recorded, the row a reader fetched was recorded.  Every push has a
  number of its own (`NumbersInv`), so no two handlers serve one report, and who has not
  appended its samples finds none of that report: samples are stored once.
- **Eval executor.**  `DealtWith` is a number that every step keeps or raises: how
  many inputs, from the first one, the executor is through with.  While inputs are
  seeded it is the cursor plus what the stream has lost, later it is what lies
  before the fresh inputs (`NumberInv`: fresh inputs are the newest, in order).
  Scored inputs are those up to it, and the next pair has the input after it
  (`ScoredInv`); that gives both "once" and "every", and the distinct inputs that
  `PassRestsOnSamples` counts (`SampleInv`).  Outputs are stored once each, so that as
  long as nothing is evicted an index in `used` stands for one output
  (`OutputInv`); the cursor plus what was lost never falls behind what was stored
  before (`BoundInv`), with eviction too.  All this rests on what `Append` does to
  positions (`AppendMoves`) and to the count (`AppendCounts`).
- **Server start.**  Nothing is locked between the look at a migration and its commit.
  `MigrationInv` is why it is committed once all the same: who is at position i
  finds the first i - 1 in `applied`, which is a prefix, and the primary key refuses the
  second commit.
- **Control plane.**  `CatalogInv`: whoever was shown a version was shown the document
  of that version, or of an older one the table has left behind.  `RoleInv`: a handler
  runs with a role its token had after the request arrived, of the rank its route
  needs.  `AnswerInv` holds the balance of changes and answers call by call of a batch,
  over the silent calls before the one at work; replicas and other requests leave it
  alone (`Elsewhere`).
  The types need one fact about data: the list of the demo seed takes the stored names in
  their order, and its k-th place exists for every k up to their number (`Places`: each
  place has its own number of places before it).
- **The two stores.**  `StoresInv` says table by table what `BackendsAgree` says read by read:
  a table has the rows of its map, `tokensByID` is the inverse of `tokens`, the samples of
  the table are those of the slice.  Runs and eval runs are those of the reports not refused; an
  eval run refused after it had been recorded is in Postgres as it was, so of those
  `SameEvalRuns` says only that no other is there.  Rates come out the same because the entries of
  a list that repeats no name and its rows are as many, by a bijection (`RatesAlike`).  Assignments are the one table that differs: `MemStore`
  appends a pair again, so the rows are the *first* entries of each name, and as
  old as those are in the slice.  That both lists come out the same is a fact about
  sorting (`SameOrder`): a bijection that keeps the order of the keys keeps the
  list, since each row has its own number of rows before it (`Ranks`).  `MaxCalls <= 100`
  is there because `PGStore` lists 100 rows where no limit is given and `MemStore`
  all: beyond that the two part.
- **Scenario run.**  `StepsInv` counts the events while steps run, so that a check over the
  store at the verdict sees every step or an error; `Settled` is what a finalized report
  says of its file; `FilesInv` carries it through a batch.  The proof showed that
  the two failing cases of `Finalize` overlap: when a run has an error and a
  critical check fails, the order of the early returns in the code decides, and the
  model says so now.
- **Operators of checks.**  The loops of `operators.go` are steps of the model, so what a
  recursive definition would compute is an invariant of a loop.
  *latency*: a source event that has had its turn is answered or nothing is left for it,
  and whoever was answered got the earliest that was left (`LatencyInv`).  That no pairing
  is larger then follows by counting: a source event of any pairing for which something is
  left has an answer itself; where nothing is left, the event the pairing gives it was
  given to somebody; this maps the pairing injectively into the pairs that were made
  (`NoPairingLarger`).  It does
  not use that source events come in order of time: the order decides who is answered,
  never how many.
  *percentile*: the elements up to a rank are as many as the rank says (`Firsts`), and
  the interpolated value lies between its two neighbours (`Interpolation`), which gives the
  counts at and below it, the extremes, and that it rises with the percentage.
  *http*: what was scanned of the pattern fits what was scanned of the path, and no match
  of the whole gets there earlier (`GlobInv`); so a part that does not occur means no
  match, and a scan that ends before the end of the path is wrong only if the last part
  occurs again.  Where the least of some numbers is needed it is taken by well-founded
  order (`LeastNat`), which stands in for induction.
- **Compositions.**  `PartsImplemented`: a step of one part leaves the state of the others
  alone, so the composition a run checks implements each part, and what is proved of
  the parts holds of it; `TypeCorrect` is that for `TypeOK`.
- **Kafka client.**  The offset of the next record a group's step can get is the
  subscriber's position less the rest of the running call's batch (`NextOffset`); below it
  everything is settled, and so is everything below what may be committed
  (`SubscriberInv`).  Without a subscriber a group has handed out nothing in this life.
- **Codec.**  An id a caller carries was the latest when its clock was read, or it came
  from an entry of which that holds, so that it is superseded after the entry's
  `expires` less the ttl, if at all (`AgeInv`), however late the entry is stored and over
  whichever other.  `HandlerInv` says that ids and handlers stay together.
- **SSE.**  `FrameInv`: the frame being read holds every data line since the last event, with
  no blank line among them; `EventInv`: the last event ends before it, and a frame cut by the
  end of the connection is the last.

Every inductive invariant was first checked by TLC on the instance of its run.

Only model-checked: the liveness properties (`AssignedGetsRun`, `DrainsAfterCancel`,
`CancelReturns`, `RunEnds`, `EveryServerServes`), since the prover has no ENABLED.  Every
safety property of a passing run is proved; `BackendsAgree` only up to 100 calls,
because beyond that it does not hold, and for the reports Postgres takes.

## 6. Not modelled, and why

- Windowed reads (`events/window.go`, `QueryRange`, `Since`) and the operators
  `stream` and `before`: filters by timestamp, which the events of `EventStore` do not have.
- CEL itself (a library): an expression is what it evaluates to.  Rounding of
  float64 in percentiles and rates.
- The canned `RunInputs` of the eval executor: no command calls it.  Evals of one
  name share one aggregate in the code; the model takes names to be distinct.
  Values of aggregates: their comparison with a threshold is a choice.
- The resume seed of a worker (`FetchScenarioState`) and metrics: written, and read
  by no control decision.
- Wire formats of the codec (`avro.go`, `proto.go`, `jsonschema.go`) and Kafka
  authentication: conversions and configuration around libraries.
- The insides of the HTTP, WebSocket and gRPC clients, judges: I/O and external
  services; the models take their answers and errors as inputs.
- `edt validate`, flags, printing, the rendering of MCP results.
- Data generators, scenario parsing, the UI, the SDK, charts and examples: no
  state a property depends on.

## 7. Plan

Modelled and checked as far as section 6 says, proved as far as section 5 says.
What is left: the windowed view as an algorithm over timestamped events, and `parseRate`.
