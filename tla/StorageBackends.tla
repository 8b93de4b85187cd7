--------------------------- MODULE StorageBackends ---------------------------
(***************************************************************************)
(* The two implementations of storage.Storage side by side: MemStore (Go   *)
(* maps, two of them for tokens) and PGStore (tables and their             *)
(* constraints).  The handlers are tested on the first and run on the      *)
(* second in production.  Both get the same calls, one at a time, and are  *)
(* asked everything the control plane can ask.                             *)
(*                                                                         *)
(* Runs keep the id of one process and are recorded once here; what a      *)
(* repeated push does is RunStore's subject.  A report that names a check  *)
(* or an eval twice is where the two part: the primary key (run_id, name)  *)
(* refuses it, a Go slice does not.                                        *)
(***************************************************************************)
EXTENDS Integers, Sequences, FiniteSets, Functions

CONSTANTS
    ScenarioNames,  \* a set of numbers, in the order of the names
    Documents,
    WorkerIds,      \* numbers too
    Digests,        \* hashes of tokens
    RunIds,
    NotFound,       \* ErrNotFound
    CheckNames,
    CheckResults,   \* check rows of a run, as the report lists them: lists of [name, passed]
    EvalResults,    \* result rows of an eval run, as the report lists them: lists of eval names
    Limits,         \* limits ListRuns is called with
    MaxCalls        \* bound: calls that change something

TokenRoles == {"worker", "admin"}

Scenario == [name : ScenarioNames, doc : Documents, version : Nat]
Token    == [digest : Digests, id : Nat, role : TokenRoles]
Check    == [name : CheckNames, passed : BOOLEAN]
Run      == [id : RunIds, scenario : ScenarioNames, started : Nat]   \* of eval runs too

ASSUME StorageBackendsAssumption ==
    /\ ScenarioNames \subseteq Nat /\ WorkerIds \subseteq Nat /\ MaxCalls \in Nat
    /\ CheckResults \subseteq Seq(Check) /\ EvalResults \subseteq Seq(Nat) /\ Limits \subseteq Int
    /\ NotFound \notin Scenario \cup Token \cup Run
    /\ NotFound \notin (Run \X CheckResults) \cup (Run \X EvalResults) \cup (Run \X SUBSET Check) \cup (Run \X SUBSET Nat)

VARIABLES
    mem,        \* MemStore: its maps, eval runs with their results, and the slice of samples
    pg,         \* PGStore: the tables of the same names
    calls,      \* calls so far; the clock and the source of fresh token ids
    returned    \* what the last call returned: [mem, pg]

storeVars == <<mem, pg, calls, returned>>

Ok           == "ok"
DuplicateKey == "duplicate key"

StoresInit ==
    /\ mem = [scenarios |-> <<>>, workers |-> <<>>, assignments |-> <<>>,
              tokens |-> <<>>, tokensByID |-> <<>>, runs |-> <<>>, checksByRun |-> <<>>,
              evalRuns |-> <<>>, samples |-> <<>>]
    /\ pg = [scenarios |-> {}, workers |-> {}, assignments |-> {},
             tokens |-> {}, runs |-> {}, checkResults |-> {},
             evalRuns |-> {}, evalResults |-> {}, samples |-> {}]
    /\ calls = 0 /\ returned = [mem |-> Ok, pg |-> Ok]

\* m[k] = v of a Go map; delete(m, k).
Put(m, k, v) == [x \in DOMAIN m \cup {k} |-> IF x = k THEN v ELSE m[x]]
Delete(m, k) == [x \in DOMAIN m \ {k} |-> m[x]]

\* A call: both stores change, both answers are kept.
Both(m, p, rm, rp) ==
    /\ calls < MaxCalls /\ calls' = calls + 1
    /\ mem' = m /\ pg' = p /\ returned' = [mem |-> rm, pg |-> rp]

\* The one row of a table with this key, or the answer "not found".
One(rows) == IF rows = {} THEN NotFound ELSE CHOOSE r \in rows : TRUE

\* sort.Slice, ORDER BY: the rows in the order of their keys, which differ.
InOrder(rows, key) ==
    [k \in 1..Cardinality(rows) |->
        CHOOSE r \in rows : Cardinality({q \in rows : key[q] < key[r]}) = k - 1]

ByName(rows) == InOrder(rows, [r \in rows |-> r.name])
ById(rows)   == InOrder(rows, [r \in rows |-> r.id])
ByTime(rows) == InOrder(rows, [r \in rows |-> r.at])
Oldest(rows) == InOrder(rows, [r \in rows |-> r.started])
Newest(rows) == InOrder(rows, [r \in rows |-> -r.started])
Sorted(numbers) == InOrder(numbers, [x \in numbers |-> x])
-----------------------------------------------------------------------------
(* Scenarios                                                               *)

MemScenario(n, d) ==
    [name |-> n, doc |-> d,
     version |-> IF n \in DOMAIN mem.scenarios THEN mem.scenarios[n].version + 1 ELSE 1]

\* INSERT ... ON CONFLICT (name) DO UPDATE SET version = scenarios.version + 1.
PgScenario(n, d) ==
    LET old == {r \in pg.scenarios : r.name = n}
    IN  [name |-> n, doc |-> d, version |-> IF old = {} THEN 1 ELSE One(old).version + 1]

UpsertScenario(n, d) ==
    Both([mem EXCEPT !.scenarios = Put(@, n, MemScenario(n, d))],
         [pg EXCEPT !.scenarios = {r \in @ : r.name # n} \cup {PgScenario(n, d)}],
         MemScenario(n, d), PgScenario(n, d))

MemGetScenario(n) == IF n \in DOMAIN mem.scenarios THEN mem.scenarios[n] ELSE NotFound
PgGetScenario(n)  == One({r \in pg.scenarios : r.name = n})

MemListScenarios == ByName(Range(mem.scenarios))
PgListScenarios  == ByName(pg.scenarios)
-----------------------------------------------------------------------------
(* Workers and assignments                                                 *)

RegisterWorker(x) ==
    /\ x \notin DOMAIN mem.workers
    /\ Both([mem EXCEPT !.workers = Put(@, x, calls)],
            [pg EXCEPT !.workers = @ \cup {[id |-> x, beat |-> calls]}], Ok, Ok)

\* UPDATE ... WHERE id: no row affected is ErrNotFound.
PgBeat(x) == {IF r.id = x THEN [r EXCEPT !.beat = calls] ELSE r : r \in pg.workers}

Heartbeat(x) ==
    Both([mem EXCEPT !.workers = IF x \in DOMAIN @ THEN Put(@, x, calls) ELSE @],
         [pg EXCEPT !.workers = PgBeat(x)],
         IF x \in DOMAIN mem.workers THEN Ok ELSE NotFound,
         IF \E r \in pg.workers : r.id = x THEN Ok ELSE NotFound)

MemListWorkers == ById({[id |-> x, beat |-> mem.workers[x]] : x \in DOMAIN mem.workers})
PgListWorkers  == ById(pg.workers)

MemAssigned(x) == IF x \in DOMAIN mem.assignments THEN mem.assignments[x] ELSE <<>>

\* MemStore asks for the worker first, PGStore for the scenario; MemStore
\* appends a pair it already has, PGStore has a primary key.
MemCanAssign(x, n) == x \in DOMAIN mem.workers /\ n \in DOMAIN mem.scenarios
PgCanAssign(x, n)  == PgGetScenario(n) # NotFound /\ \E r \in pg.workers : r.id = x

AssignScenario(x, n) ==
    Both(IF MemCanAssign(x, n)
         THEN [mem EXCEPT !.assignments = Put(@, x, Append(MemAssigned(x), n))] ELSE mem,
         IF PgCanAssign(x, n) /\ \A a \in pg.assignments : <<a.worker, a.name>> # <<x, n>>
         THEN [pg EXCEPT !.assignments = @ \cup {[worker |-> x, name |-> n, at |-> calls]}] ELSE pg,
         IF MemCanAssign(x, n) THEN Ok ELSE NotFound,
         IF PgCanAssign(x, n) THEN Ok ELSE NotFound)

PgListAssignments(x) ==
    LET rows == ByTime({a \in pg.assignments : a.worker = x})
    IN  [i \in DOMAIN rows |-> rows[i].name]

\* The first of each name, in order: what a worker's dispatch makes of the list.
Firsts(s)  == {i \in DOMAIN s : \A j \in 1..(i - 1) : s[j] # s[i]}
NamesIn(s) == LET firsts == Sorted(Firsts(s)) IN [k \in DOMAIN firsts |-> s[firsts[k]]]
-----------------------------------------------------------------------------
(* Tokens                                                                  *)

MemToken(k, role) ==
    IF k \in DOMAIN mem.tokens THEN mem.tokens[k] ELSE [id |-> calls, role |-> role]

MemIssue(k, role) ==
    [mem EXCEPT !.tokens = Put(@, k, MemToken(k, role)),
                !.tokensByID = Put(@, MemToken(k, role).id, k)]

\* The CTE: the row inserted, or the row that was there.
PgToken(k, role) ==
    LET old == {r \in pg.tokens : r.digest = k}
    IN  IF old = {} THEN [digest |-> k, id |-> calls, role |-> role] ELSE One(old)

StoreIssueToken(k, role) ==
    Both(MemIssue(k, role), [pg EXCEPT !.tokens = @ \cup {PgToken(k, role)}],
         MemToken(k, role).role, PgToken(k, role).role)

\* Plausible bug: only the index by id is cleaned.
MemRevokeIndex(id) ==
    IF id \notin DOMAIN mem.tokensByID THEN mem
    ELSE [mem EXCEPT !.tokensByID = Delete(@, id)]

MemRevoke(id) ==
    IF id \notin DOMAIN mem.tokensByID THEN mem
    ELSE [mem EXCEPT !.tokens = Delete(@, mem.tokensByID[id]), !.tokensByID = Delete(@, id)]

PgRevoke(id) == [pg EXCEPT !.tokens = {r \in @ : r.id # id}]

StoreRevokeToken(id) ==
    Both(MemRevoke(id), PgRevoke(id),
         IF id \in DOMAIN mem.tokensByID THEN Ok ELSE NotFound,
         IF \E r \in pg.tokens : r.id = id THEN Ok ELSE NotFound)

MemLookup(k) == IF k \in DOMAIN mem.tokens THEN mem.tokens[k].role ELSE NotFound
PgLookup(k)  == LET row == One({r \in pg.tokens : r.digest = k})
                IN  IF row = NotFound THEN NotFound ELSE row.role

\* By created_at, which is the order of the ids here.
MemListTokens == ById({[id |-> t.id, role |-> t.role] : t \in Range(mem.tokens)})
PgListTokens  == ById({[id |-> t.id, role |-> t.role] : t \in pg.tokens})
-----------------------------------------------------------------------------
(* Runs, eval runs and samples                                             *)

RunRow(i, n) == [id |-> i, scenario |-> n, started |-> calls]

\* What PRIMARY KEY (run_id, name) refuses; the transaction rolls back.
Repeats(names)    == \E j, k \in DOMAIN names : j # k /\ names[j] = names[k]
PgRecorded(names) == IF Repeats(names) THEN DuplicateKey ELSE Ok
NamesOf(checks)   == [k \in DOMAIN checks |-> checks[k].name]

CheckRows(i, checks) == {[run |-> i, name |-> c.name, passed |-> c.passed] : c \in Range(checks)}

MemRecordRun(row, checks) ==
    [mem EXCEPT !.runs = Put(@, row.id, row), !.checksByRun = Put(@, row.id, checks),
                !.samples = Append(@, row)]

PgRecordRun(row, checks) ==
    IF Repeats(NamesOf(checks)) THEN pg
    ELSE [pg EXCEPT !.runs = {r \in @ : r.id # row.id} \cup {row},
                    !.checkResults = {e \in @ : e.run # row.id} \cup CheckRows(row.id, checks),
                    !.samples = @ \cup {row}]

\* The handler of a pushed run: the run with its checks, then (a watch's
\* snapshot) its samples, one entry for all; an error ends it before them.
RecordRun(i, n, checks) ==
    /\ i \notin DOMAIN mem.runs
    /\ LET row == RunRow(i, n)
       IN  Both(MemRecordRun(row, checks), PgRecordRun(row, checks), Ok, PgRecorded(NamesOf(checks)))

\* The check rows in the order of the report, and ORDER BY at: compared as sets.
MemGetRun(i) == IF i \in DOMAIN mem.runs THEN <<mem.runs[i], mem.checksByRun[i]>> ELSE NotFound
PgGetRun(i) ==
    LET row == One({r \in pg.runs : r.id = i})
    IN  IF row = NotFound THEN NotFound
        ELSE <<row, {[name |-> e.name, passed |-> e.passed] : e \in {x \in pg.checkResults : x.run = i}}>>

Take(s, limit) == IF limit > 0 /\ Len(s) > limit THEN SubSeq(s, 1, limit) ELSE s

MemListRuns(n, limit) ==
    Take(Newest({r \in Range(mem.runs) : r.scenario = n}), limit)

\* ORDER BY started_at DESC LIMIT; PGStore has 100 for "no limit".
PgListRuns(n, limit) ==
    Take(Newest({r \in pg.runs : r.scenario = n}), IF limit <= 0 THEN 100 ELSE limit)

\* The rows of one check name in the runs since the cutoff: entries of slices,
\* and check_results JOIN runs.
MemVerdicts(n, since, c) ==
    UNION {{[run |-> i, entry |-> k, passed |-> mem.checksByRun[i][k].passed] :
                k \in {j \in DOMAIN mem.checksByRun[i] : mem.checksByRun[i][j].name = c}} :
           i \in {j \in DOMAIN mem.runs : mem.runs[j].scenario = n /\ ~(mem.runs[j].started < since)}}
PgVerdicts(n, since, c) ==
    {e \in pg.checkResults : /\ e.name = c
                             /\ \E r \in pg.runs : r.id = e.run /\ r.scenario = n /\ r.started >= since}

\* [pass, total]; a name without a row has no rate.
Rate(verdicts)      == <<Cardinality({v \in verdicts : v.passed}), Cardinality(verdicts)>>
MemSLO(n, since, c) == Rate(MemVerdicts(n, since, c))
PgSLO(n, since, c)  == Rate(PgVerdicts(n, since, c))

\* Eval runs may be recorded again: every column is replaced, the results too.
MemRecordEvalRun(row, results) == [mem EXCEPT !.evalRuns = Put(@, row.id, <<row, results>>)]

PgRecordEvalRun(row, results) ==
    IF Repeats(results) THEN pg
    ELSE [pg EXCEPT !.evalRuns = {r \in @ : r.id # row.id} \cup {row},
                    !.evalResults = {e \in @ : e.run # row.id}
                                        \cup {[run |-> row.id, name |-> e] : e \in Range(results)}]

RecordEvalRun(i, n, results) ==
    LET row == RunRow(i, n)
    IN  Both(MemRecordEvalRun(row, results), PgRecordEvalRun(row, results), Ok, PgRecorded(results))

\* Results in the order of the report, and ORDER BY name: compared as sets.
MemGetEvalRun(i) == IF i \in DOMAIN mem.evalRuns THEN mem.evalRuns[i] ELSE NotFound
PgGetEvalRun(i) ==
    LET row == One({r \in pg.evalRuns : r.id = i})
    IN  IF row = NotFound THEN NotFound
        ELSE <<row, {e.name : e \in {x \in pg.evalResults : x.run = i}}>>

MemListEvalRuns(n, limit) ==
    Take(Newest({r[1] : r \in {x \in Range(mem.evalRuns) : x[1].scenario = n}}), limit)
PgListEvalRuns(n, limit) ==
    Take(Newest({r \in pg.evalRuns : r.scenario = n}), IF limit <= 0 THEN 100 ELSE limit)

MemSamples(n, since) ==
    Oldest({s \in Range(mem.samples) : s.scenario = n /\ ~(s.started < since)})
PgSamples(n, since) ==
    Oldest({s \in pg.samples : s.scenario = n /\ s.started >= since})
-----------------------------------------------------------------------------
StoresNext ==
    \/ \E n \in ScenarioNames, d \in Documents : UpsertScenario(n, d)
    \/ \E x \in WorkerIds : RegisterWorker(x) \/ Heartbeat(x)
    \/ \E x \in WorkerIds, n \in ScenarioNames : AssignScenario(x, n)
    \/ \E k \in Digests, role \in TokenRoles : StoreIssueToken(k, role)
    \/ \E id \in 0..MaxCalls : StoreRevokeToken(id)
    \/ \E i \in RunIds, n \in ScenarioNames, cs \in CheckResults : RecordRun(i, n, cs)
    \/ \E i \in RunIds, n \in ScenarioNames, rs \in EvalResults : RecordEvalRun(i, n, rs)

StoresSpec == StoresInit /\ [][StoresNext]_storeVars
-----------------------------------------------------------------------------
(* Properties                                                              *)

StoresTypeOK ==
    /\ DOMAIN mem.scenarios \subseteq ScenarioNames /\ DOMAIN mem.tokens \subseteq Digests
    /\ DOMAIN mem.workers \subseteq WorkerIds /\ DOMAIN mem.runs \subseteq RunIds
    /\ pg.scenarios \subseteq [name : ScenarioNames, doc : Documents, version : 1..MaxCalls]
    /\ pg.tokens \subseteq [digest : Digests, id : 0..MaxCalls, role : TokenRoles]
    /\ calls \in 0..MaxCalls

\* Reports Postgres refused: MemStore's is the last word on a run.
RefusedRuns     == {i \in DOMAIN mem.runs : Repeats(NamesOf(mem.checksByRun[i]))}
RefusedEvalRuns == {i \in DOMAIN mem.evalRuns : Repeats(mem.evalRuns[i][2])}

\* No refused report is, or was, one of scenario n.
AllRunsKept(n)     == \A i \in RefusedRuns : mem.runs[i].scenario # n
AllEvalRunsKept(n) ==
    \A i \in RefusedEvalRuns :
        mem.evalRuns[i][1].scenario # n /\ \A r \in pg.evalRuns : r.id = i => r.scenario # n

SameAnswers ==
    \/ returned.mem = returned.pg
    \/ /\ returned.mem = Ok /\ returned.pg = DuplicateKey
       /\ \/ \E i \in RefusedRuns : mem.runs[i].started = calls - 1
          \/ \E i \in RefusedEvalRuns : mem.evalRuns[i][1].started = calls - 1

SameReport(m, p) ==
    IF m = NotFound THEN p = NotFound
    ELSE p # NotFound /\ m[1] = p[1] /\ Range(m[2]) = p[2]

\* What the in-memory store answers, Postgres answers: after any sequence of
\* calls every read returns the same rows in the same order and every call
\* the same result.  Assignments agree up to the duplicates MemStore keeps,
\* the rows of a report up to their order.  The one exception are reports that
\* name a check or an eval twice: only Postgres refuses them (nothing else),
\* has no such run, and may differ in what covers their scenario.
BackendsAgree ==
    /\ SameAnswers
    /\ MemListScenarios = PgListScenarios /\ MemListWorkers = PgListWorkers
    /\ MemListTokens = PgListTokens
    /\ \A k \in Digests : MemLookup(k) = PgLookup(k)
    /\ \A x \in WorkerIds : NamesIn(MemAssigned(x)) = PgListAssignments(x)
    /\ \A i \in RunIds :
           /\ IF i \in RefusedRuns THEN PgGetRun(i) = NotFound ELSE SameReport(MemGetRun(i), PgGetRun(i))
           /\ i \notin RefusedEvalRuns => SameReport(MemGetEvalRun(i), PgGetEvalRun(i))
    /\ \A n \in ScenarioNames :
           /\ MemGetScenario(n) = PgGetScenario(n)
           /\ AllRunsKept(n) =>
                  /\ \A limit \in Limits : MemListRuns(n, limit) = PgListRuns(n, limit)
                  /\ \A since \in 0..calls :
                         /\ \A c \in CheckNames : MemSLO(n, since, c) = PgSLO(n, since, c)
                         /\ MemSamples(n, since) = PgSamples(n, since)
           /\ AllEvalRunsKept(n) =>
                  \A limit \in Limits : MemListEvalRuns(n, limit) = PgListEvalRuns(n, limit)

\* Why: every table has the rows its map has, keyed by the same ids, ...
SameScenarios ==
    /\ DOMAIN mem.scenarios \subseteq ScenarioNames
    /\ \A n \in DOMAIN mem.scenarios : mem.scenarios[n] \in Scenario /\ mem.scenarios[n].name = n
    /\ pg.scenarios = Range(mem.scenarios)

SameWorkers ==
    pg.workers = {[id |-> x, beat |-> mem.workers[x]] : x \in DOMAIN mem.workers}

\* ... the two maps of tokens are each other's inverse, ...
SameTokens ==
    /\ \A k \in DOMAIN mem.tokens :
           LET t == mem.tokens[k]
           IN  /\ k \in Digests /\ t \in [id : Nat, role : TokenRoles] /\ t.id < calls
               /\ t.id \in DOMAIN mem.tokensByID /\ mem.tokensByID[t.id] = k
    /\ \A id \in DOMAIN mem.tokensByID :
           mem.tokensByID[id] \in DOMAIN mem.tokens /\ mem.tokens[mem.tokensByID[id]].id = id
    /\ pg.tokens = {[digest |-> k, id |-> mem.tokens[k].id, role |-> mem.tokens[k].role] : k \in DOMAIN mem.tokens}

\* ... rows of assignments are as old as the first entry of their pair, ...
SameAssignments ==
    /\ pg.assignments \subseteq [worker : WorkerIds, name : ScenarioNames, at : 0..calls - 1]
    /\ \A a, b \in pg.assignments : (a.worker = b.worker /\ a.name = b.name) \/ a.at = b.at => a = b
    /\ \A x \in WorkerIds :
           LET s == MemAssigned(x)
           IN  /\ s \in Seq(ScenarioNames)
               /\ Range(s) = {a.name : a \in {r \in pg.assignments : r.worker = x}}
               /\ \A a, b \in pg.assignments : \A i, j \in Firsts(s) :
                      a.worker = x /\ b.worker = x /\ s[i] = a.name /\ s[j] = b.name =>
                          (a.at < b.at <=> i < j)

\* ... tables of runs have what their maps have of the reports not refused, and
\* of runs there are no more than calls.
SameRuns ==
    /\ DOMAIN mem.checksByRun = DOMAIN mem.runs
    /\ \A i \in DOMAIN mem.runs :
           mem.runs[i] \in Run /\ mem.runs[i].id = i /\ mem.checksByRun[i] \in CheckResults
    /\ IsFiniteSet(DOMAIN mem.runs) /\ Cardinality(DOMAIN mem.runs) <= calls
    /\ pg.runs = {mem.runs[i] : i \in DOMAIN mem.runs \ RefusedRuns}
    /\ pg.checkResults = UNION {CheckRows(i, mem.checksByRun[i]) : i \in DOMAIN mem.runs \ RefusedRuns}
    /\ mem.samples \in Seq(Run)
    /\ \A s \in Range(mem.samples) : s.id \in DOMAIN mem.runs /\ s = mem.runs[s.id]
    /\ pg.samples = {s \in Range(mem.samples) : s.id \notin RefusedRuns}

\* An eval run refused after it had been recorded is still there as it was.
SameEvalRuns ==
    /\ \A i \in DOMAIN mem.evalRuns :
           mem.evalRuns[i] \in Run \X EvalResults /\ mem.evalRuns[i][1].id = i
    /\ IsFiniteSet(DOMAIN mem.evalRuns) /\ Cardinality(DOMAIN mem.evalRuns) <= calls
    /\ \A i \in DOMAIN mem.evalRuns \ RefusedEvalRuns :
           /\ {r \in pg.evalRuns : r.id = i} = {mem.evalRuns[i][1]}
           /\ {e.name : e \in {x \in pg.evalResults : x.run = i}} = Range(mem.evalRuns[i][2])
    /\ \A r \in pg.evalRuns : r.id \in DOMAIN mem.evalRuns

StoresInv ==
    /\ DOMAIN mem = {"scenarios", "workers", "assignments", "tokens", "tokensByID", "runs", "checksByRun",
                     "evalRuns", "samples"}
    /\ DOMAIN pg = {"scenarios", "workers", "assignments", "tokens", "runs", "checkResults",
                    "evalRuns", "evalResults", "samples"}
    /\ calls \in Nat /\ calls <= MaxCalls /\ SameAnswers
    /\ SameScenarios /\ SameWorkers /\ SameTokens /\ SameAssignments /\ SameRuns /\ SameEvalRuns
=============================================================================
