----------------------------- MODULE ServerStart -----------------------------
(***************************************************************************)
(* Replicas of `edt serve` on one Postgres database, from process start to *)
(* the listener (cmd/edt/serve.go, controlplane/server.go,                 *)
(* storage/migrate.go): open the pool, apply the migrations, install the   *)
(* bootstrap tokens, upsert the seed directory, seed the demo rows, serve. *)
(*                                                                         *)
(* Every statement on the database is a step, and replicas start side by   *)
(* side: a migration is looked up in schema_migrations first and applied   *)
(* in a transaction of its own afterwards, with nothing locked in between. *)
(* A failed statement, a lost connection and a killed process each use up  *)
(* one of MaxFaults.                                                       *)
(***************************************************************************)
EXTENDS Integers, Sequences, FiniteSets, SequencesExt

CONSTANTS
    Servers,        \* replicas
    Migrations,     \* migrations/*.sql in lexical order
    NameOrder,      \* scenario names in the order ListScenarios returns them
    NoName,         \* metadata.name is empty
    Docs,           \* scenario documents
    NoDoc,          \* "nothing stored"
    Unparsable,     \* documents scenario.Parse refuses
    WithEvals,      \* documents with an evals block
    SameChecks,     \* documents with two checks of one name, which validation lets pass
    SameEvals,      \* documents with two evals of one name
    NameOf,         \* document -> metadata.name
    Secrets,        \* bearer tokens in plaintext
    NoSecret,       \* no token configured, or none sent
    AdminToken,     \* server -> secret of EDT_ADMIN_TOKEN
    WorkerToken,    \* server -> secret of EDT_WORKER_TOKEN
    SeedDir,        \* the *.yaml files of EDT_SEED_DIR
    SeedDemo,       \* EDT_SEED_DEMO
    MaxFaults,      \* bound: failed statements and killed processes
    MaxVersion      \* bound: versions up to which replicas are started in vain

Names == Range(NameOrder)
Roles == {"viewer", "worker", "editor", "admin"}

ASSUME ServerStartAssumption ==
    /\ NoDoc \notin Docs /\ NoName \notin Names /\ NoSecret \notin Secrets
    /\ Unparsable \subseteq Docs /\ WithEvals \subseteq Docs \ Unparsable
    /\ SameChecks \subseteq Docs \ Unparsable /\ SameEvals \subseteq WithEvals
    /\ NameOf \in [Docs -> Names \cup {NoName}]
    /\ AdminToken \in [Servers -> Secrets \cup {NoSecret}]
    /\ WorkerToken \in [Servers -> Secrets \cup {NoSecret}]
    /\ Migrations \in Seq(Range(Migrations)) /\ NameOrder \in Seq(Names)
    /\ SeedDir \in Seq(Docs) /\ SeedDemo \in BOOLEAN /\ MaxFaults \in Nat \ {0} /\ MaxVersion \in Nat

VARIABLES
    phase,      \* server -> what it is doing
    at,         \* server -> position in the list it works through
    scns,       \* server -> names and documents ListScenarios gave seedDemoData
    applied,    \* table schema_migrations
    bodies,     \* history: migration -> times its SQL was committed
    tokens,     \* table tokens: secret -> [id, role]
    lastId,     \* last token id given out
    catalog,    \* table scenarios: name -> [version, doc]
    saved,      \* history: what UpsertScenario and GetScenario returned
    demo,       \* rows of demo runs and demo eval runs
    faults      \* faults so far

startVars == <<phase, at, scns, applied, bodies>>
dbVars    == <<tokens, lastId, catalog, saved>>
vars      == <<startVars, dbVars, demo, faults>>

Fault     == faults < MaxFaults /\ faults' = faults + 1
Goto(s, p, i) == phase' = [phase EXCEPT ![s] = p] /\ at' = [at EXCEPT ![s] = i]
Absent    == [version |-> 0, doc |-> NoDoc]
Stored(n) == catalog[n].version > 0
-----------------------------------------------------------------------------
(* The stored scenarios that seedDemoData goes through                     *)

\* Places in NameOrder that are stored, and which of them is k-th.
Listed   == {i \in DOMAIN NameOrder : Stored(NameOrder[i])}
Place(k) == CHOOSE i \in Listed : Cardinality({j \in Listed : j < i}) = k - 1

\* Positions count from 0 in the code.
DemoSkips(i, d) == d \notin WithEvals /\ (i - 1) % 3 = 2

\* recordDemoRun parses the stored document, and RecordRun has a row for each
\* of its checks, RecordEvalRun for each of its evals: PRIMARY KEY (run_id, name).
NoDemoRun     == Unparsable \cup SameChecks
NoDemoRows    == NoDemoRun \cup SameEvals
Refuses(i, d) == d \in NoDemoRows /\ ~DemoSkips(i, d)

\* seedDemoData ends every start while it does not skip a stored document that
\* it cannot parse, or whose checks or evals repeat a name.
DemoStuck == SeedDemo /\ \E k \in 1..Cardinality(Listed) : Refuses(k, catalog[NameOrder[Place(k)]].doc)

\* Bound: such a replica is started again until the versions, which every start
\* counts up, reach MaxVersion; and again once the document is replaced.
StartsAgain(s) == phase[s] = "failed" /\ DemoStuck => \A n \in Names : catalog[n].version < MaxVersion
-----------------------------------------------------------------------------
(* applyMigrations                                                         *)

\* Plausible bug: the version is recorded with ON CONFLICT DO NOTHING.
RecordsTwice(m) == TRUE

\* PRIMARY KEY (version): a transaction that finds the version there fails.
Records(m) == m \notin applied

Open(s) ==
    /\ phase[s] \in {"down", "failed"} /\ StartsAgain(s)
    /\ Goto(s, "look", 1)
    /\ UNCHANGED <<scns, applied, bodies, dbVars, demo, faults>>

\* Plausible bug: the SELECT never finds the version (another column, say).
LookUpBlind(s) ==
    /\ phase[s] = "look" /\ at[s] \in DOMAIN Migrations
    /\ Goto(s, "apply", at[s])
    /\ UNCHANGED <<scns, applied, bodies, dbVars, demo, faults>>

\* The SELECT of applyOne.
LookUp(s) ==
    /\ phase[s] = "look" /\ at[s] \in DOMAIN Migrations
    /\ IF Migrations[at[s]] \in applied THEN Goto(s, "look", at[s] + 1)
                                        ELSE Goto(s, "apply", at[s])
    /\ UNCHANGED <<scns, applied, bodies, dbVars, demo, faults>>

\* `if err == nil { return nil }`: a SELECT that failed counts as "not applied".
LookUpErrs(s) ==
    /\ phase[s] = "look" /\ at[s] \in DOMAIN Migrations
    /\ Fault
    /\ Goto(s, "apply", at[s])
    /\ UNCHANGED <<scns, applied, bodies, dbVars, demo>>

\* Begin, the SQL, the version, Commit.
Apply(s) ==
    /\ phase[s] = "apply"
    /\ LET m == Migrations[at[s]]
       IN  /\ Records(m)
           /\ applied' = applied \cup {m}
           /\ bodies' = [bodies EXCEPT ![m] = @ + 1]
    /\ Goto(s, "look", at[s] + 1)
    /\ UNCHANGED <<scns, dbVars, demo, faults>>

\* Another replica committed it after LookUp: the RENAME of 0002 or the insert
\* of the version fails, the transaction rolls back, the process exits.
ApplyConflicts(s) ==
    /\ phase[s] = "apply"
    /\ ~Records(Migrations[at[s]])
    /\ Goto(s, "failed", 0)
    /\ UNCHANGED <<scns, applied, bodies, dbVars, demo, faults>>

Migrated(s) ==
    /\ phase[s] = "look" /\ at[s] > Len(Migrations)
    /\ Goto(s, "tokens", 1)
    /\ UNCHANGED <<scns, applied, bodies, dbVars, demo, faults>>
-----------------------------------------------------------------------------
(* bootstrapAdmin                                                          *)

\* IssueTokenWithPlaintext: a secret that has a row keeps it, role included.
Issue(k, role) ==
    IF k \in DOMAIN tokens
    THEN UNCHANGED <<tokens, lastId>>
    ELSE /\ lastId' = lastId + 1
         /\ tokens' = [x \in DOMAIN tokens \cup {k} |->
                          IF x = k THEN [id |-> lastId + 1, role |-> role] ELSE tokens[x]]

Bootstrap(s) == <<[secret |-> AdminToken[s], role |-> "admin"],
                  [secret |-> WorkerToken[s], role |-> "worker"]>>

BootstrapToken(s) ==
    /\ phase[s] = "tokens" /\ at[s] \in 1..2
    /\ LET b == Bootstrap(s)[at[s]]
       IN  IF b.secret = NoSecret THEN UNCHANGED <<tokens, lastId>>
                                  ELSE Issue(b.secret, b.role)
    /\ Goto(s, "tokens", at[s] + 1)
    /\ UNCHANGED <<scns, applied, bodies, catalog, saved, demo, faults>>

\* The error is logged and the server starts without the token.
BootstrapErrs(s) ==
    /\ phase[s] = "tokens" /\ at[s] \in 1..2
    /\ Fault
    /\ Goto(s, "tokens", at[s] + 1)
    /\ UNCHANGED <<scns, applied, bodies, dbVars, demo>>

Bootstrapped(s) ==
    /\ phase[s] = "tokens" /\ at[s] > 2
    /\ Goto(s, "seed", 1)
    /\ UNCHANGED <<scns, applied, bodies, dbVars, demo, faults>>
-----------------------------------------------------------------------------
(* seedScenarios                                                           *)

\* Plausible bug: ON CONFLICT DO UPDATE without version = version + 1.
UpsertSameVersion(n, d) ==
    LET row == [version |-> IF Stored(n) THEN catalog[n].version ELSE 1, doc |-> d]
    IN  /\ catalog' = [catalog EXCEPT ![n] = row]
        /\ saved' = saved \cup {[name |-> n, version |-> row.version, doc |-> d]}

\* UpsertScenario: one statement, and RETURNING tells what it stored.
Upsert(n, d) ==
    LET row == [version |-> catalog[n].version + 1, doc |-> d]
    IN  /\ catalog' = [catalog EXCEPT ![n] = row]
        /\ saved' = saved \cup {[name |-> n, version |-> row.version, doc |-> d]}

\* Every start upserts the whole directory again.
SeedScenario(s) ==
    /\ phase[s] = "seed" /\ at[s] \in DOMAIN SeedDir
    /\ LET d == SeedDir[at[s]]
       IN  IF d \in Unparsable \/ NameOf[d] = NoName
           THEN UNCHANGED <<catalog, saved>>
           ELSE Upsert(NameOf[d], d)
    /\ Goto(s, "seed", at[s] + 1)
    /\ UNCHANGED <<scns, applied, bodies, tokens, lastId, demo, faults>>

Seeded(s) ==
    /\ phase[s] = "seed" /\ at[s] > Len(SeedDir)
    /\ Goto(s, IF SeedDemo THEN "worker" ELSE "serving", 0)
    /\ UNCHANGED <<scns, applied, bodies, dbVars, demo, faults>>
-----------------------------------------------------------------------------
(* seedDemoData                                                            *)

\* RegisterWorker, Heartbeat, ListScenarios.
DemoBegins(s) ==
    /\ phase[s] = "worker"
    /\ scns' = [scns EXCEPT ![s] = [k \in 1..Cardinality(Listed) |->
           [name |-> NameOrder[Place(k)], doc |-> catalog[NameOrder[Place(k)]].doc]]]
    /\ Goto(s, "demo", 1)
    /\ UNCHANGED <<applied, bodies, dbVars, demo, faults>>

DemoStatus(i) == IF (i - 1) % 5 = 4 THEN "error" ELSE IF (i - 1) % 2 = 0 THEN "pass" ELSE "fail"

ExitCodeOf(status) == CASE status = "pass" -> 0 [] status = "fail" -> 1 [] status = "error" -> 2

\* The first check fails unless the run passes, the others pass.
DemoRun(i, n) == [kind |-> "run", name |-> n, status |-> DemoStatus(i),
                  exit |-> ExitCodeOf(DemoStatus(i)), failing |-> DemoStatus(i) # "pass"]

DemoEvalRun(i, n) == [kind |-> "eval", name |-> n, status |-> DemoStatus(i), failing |-> DemoStatus(i) # "pass"]

DemoRows(i, n, d) == {DemoRun(i, n)} \cup (IF d \in WithEvals THEN {DemoEvalRun(i, n)} ELSE {})

\* recordDemoRun and recordDemoEvalRun for one scenario of the list.
DemoRecords(s) ==
    /\ phase[s] = "demo" /\ at[s] \in DOMAIN scns[s]
    /\ LET sc == scns[s][at[s]]
       IN  /\ ~Refuses(at[s], sc.doc)
           /\ demo' = IF DemoSkips(at[s], sc.doc) THEN demo
                      ELSE demo \cup DemoRows(at[s], sc.name, sc.doc)
    /\ Goto(s, "demo", at[s] + 1)
    /\ UNCHANGED <<scns, applied, bodies, dbVars, faults>>

\* The error of either ends the process; a run whose eval run fails stays.
DemoRefused(s) ==
    /\ phase[s] = "demo" /\ at[s] \in DOMAIN scns[s]
    /\ LET sc == scns[s][at[s]]
       IN  /\ Refuses(at[s], sc.doc)
           /\ demo' = IF sc.doc \in NoDemoRun THEN demo ELSE demo \cup {DemoRun(at[s], sc.name)}
    /\ Goto(s, "failed", 0)
    /\ UNCHANGED <<scns, applied, bodies, dbVars, faults>>

DemoEnds(s) ==
    /\ phase[s] = "demo" /\ at[s] > Len(scns[s])
    /\ Goto(s, "serving", 0)
    /\ scns' = [scns EXCEPT ![s] = <<>>]
    /\ UNCHANGED <<applied, bodies, dbVars, demo, faults>>
-----------------------------------------------------------------------------
\* A statement whose error newServeCmd returns: the process exits.  If it was
\* executed and only its result is lost, that is its own action and then Exit.
StartErrs(s) ==
    /\ \/ phase[s] \in {"apply", "worker"}
       \/ phase[s] = "seed" /\ at[s] \in DOMAIN SeedDir
       \/ phase[s] = "demo" /\ at[s] \in DOMAIN scns[s]
    /\ Fault
    /\ Goto(s, "failed", 0)
    /\ scns' = [scns EXCEPT ![s] = <<>>]
    /\ UNCHANGED <<applied, bodies, dbVars, demo>>

\* Killed, or stopped by its context; open transactions roll back.
Exit(s) ==
    /\ phase[s] \notin {"down", "failed"}
    /\ Fault
    /\ Goto(s, "down", 0)
    /\ scns' = [scns EXCEPT ![s] = <<>>]
    /\ UNCHANGED <<applied, bodies, dbVars, demo>>

StartStep(s) ==
    \/ Open(s) \/ LookUp(s) \/ Apply(s) \/ ApplyConflicts(s) \/ Migrated(s)
    \/ BootstrapToken(s) \/ Bootstrapped(s)
    \/ SeedScenario(s) \/ Seeded(s)
    \/ DemoBegins(s) \/ DemoRecords(s) \/ DemoRefused(s) \/ DemoEnds(s)

StartFault(s) == LookUpErrs(s) \/ BootstrapErrs(s) \/ StartErrs(s) \/ Exit(s)

\* The first start on an empty database ...
ColdStart ==
    /\ phase = [s \in Servers |-> "down"]
    /\ applied = {} /\ bodies = [m \in Range(Migrations) |-> 0]
    /\ tokens = <<>> /\ lastId = 0
    /\ catalog = [n \in Names |-> Absent] /\ saved = {}

Installed(s) == [k \in {AdminToken[s], WorkerToken[s]} \ {NoSecret} |->
    IF k = AdminToken[s] THEN [id |-> 1, role |-> "admin"] ELSE [id |-> 2, role |-> "worker"]]

\* ... and replicas that serve, with the configured tokens in their table.
WarmStart ==
    /\ phase = [s \in Servers |-> "serving"]
    /\ applied = Range(Migrations) /\ bodies = [m \in Range(Migrations) |-> 1]
    /\ \E s \in Servers : tokens = Installed(s)
    /\ lastId = 2
    /\ catalog = [n \in Names |-> Absent] /\ saved = {}

\* Bound: replicas that already serve meet one fault, those that start meet them all.
StartInit ==
    /\ \/ ColdStart /\ faults = 0
       \/ WarmStart /\ faults = MaxFaults - 1
    /\ at = [s \in Servers |-> 0] /\ scns = [s \in Servers |-> <<>>]
    /\ demo = {}
-----------------------------------------------------------------------------
(* Properties                                                              *)

Phases == {"down", "failed", "look", "apply", "tokens", "seed", "worker", "demo", "serving"}

StartTypeOK ==
    /\ phase \in [Servers -> Phases] /\ at \in [Servers -> Nat]
    /\ \A s \in Servers : \A i \in DOMAIN scns[s] : scns[s][i] \in [name : Names, doc : Docs]
    /\ applied \subseteq Range(Migrations) /\ bodies \in [Range(Migrations) -> Nat]
    /\ DOMAIN tokens \subseteq Secrets
    /\ \A k \in DOMAIN tokens : tokens[k] \in [id : 1..lastId, role : Roles]
    /\ catalog \in [Names -> [version : Nat, doc : Docs \cup {NoDoc}]]
    /\ saved \subseteq [name : Names, version : Nat, doc : Docs]
    /\ \A row \in demo : row.kind \in {"run", "eval"} /\ row.name \in Names
    /\ faults \in 0..MaxFaults

\* Replicas that start together, fail half-way and start again leave the schema
\* of one server that started alone: every migration is committed at most
\* once, in order, and who is past applyMigrations finds all of them.
MigrationsOnce ==
    /\ \A m \in Range(Migrations) : bodies[m] = IF m \in applied THEN 1 ELSE 0
    /\ \E i \in 0..Len(Migrations) : applied = {Migrations[j] : j \in 1..i}
    /\ \A s \in Servers : phase[s] \in {"tokens", "seed", "worker", "demo", "serving"} =>
           applied = Range(Migrations)

\* Why: a replica looks at a migration, and applies it, once those before it
\* are committed, by whomever; the next to be committed is the next in order.
MigrationInv ==
    \A s \in Servers : phase[s] \in {"look", "apply"} =>
        /\ at[s] \in 1..Len(Migrations) + 1 /\ (phase[s] = "apply" => at[s] <= Len(Migrations))
        /\ {Migrations[j] : j \in 1..at[s] - 1} \subseteq applied

StartInv ==
    /\ phase \in [Servers -> Phases] /\ at \in [Servers -> Nat]
    /\ applied \subseteq Range(Migrations) /\ bodies \in [Range(Migrations) -> Nat]
    /\ MigrationsOnce /\ MigrationInv

\* A replica that lost the race for a migration, was killed or found the
\* database down serves after a restart, however many start at once, unless
\* the demo rows of a stored document are refused.
EveryServerServes ==
    \A s \in Servers : phase[s] # "serving" ~> (phase[s] = "serving" \/ DemoStuck)
=============================================================================
