----------------------------- MODULE ScenarioRun -----------------------------
(***************************************************************************)
(* From steps to a verdict, in the three places that run a scenario once:  *)
(* `edt run` (cmd/edt/run.go), `edt batch-run` (cmd/edt/batch.go) and the  *)
(* control plane's ad-hoc endpoint (controlplane/api/adhoc.go).  A report  *)
(* is finalized, pushed or stored, printed, and turned into an exit code.  *)
(*                                                                         *)
(* A file is a record:                                                     *)
(*   valid   it is read, parsed and accepted by ValidateYAML               *)
(*   kafka   what kafka.NewClient makes of its connector: "none", "ok",    *)
(*           "bad"                                                         *)
(*   steps   how many steps it has                                         *)
(*   checks  its checks: [severity, step, otherwise]: TRUE once `step` has *)
(*           recorded its event; over a store without it the expression is *)
(*           "true" (a rate of failures), "false", an "error" (a           *)
(*           percentile of nothing, or no bool) or "NaN", an error whose   *)
(*           value encoding/json refuses                                   *)
(***************************************************************************)
EXTENDS Integers, Sequences, FiniteSets, SequencesExt

CONSTANTS
    Jobs            \* what is started: [mode, files, keepGoing, reportTo, json, postgres]

Modes == {"run", "batch", "adhoc"}

ASSUME ScenarioRunAssumption ==
    \A j \in Jobs :
        /\ j.mode \in Modes /\ j.files # <<>> /\ (j.mode # "batch" => Len(j.files) = 1)
        /\ j.files \in Seq(Range(j.files)) /\ \A f \in Range(j.files) : f.steps \in Nat

VARIABLES
    job,        \* the command line, or the request
    pc,         \* where doRun or runAdhoc stands
    n,          \* the file it is about
    step,       \* the step that is executed
    recorded,   \* steps that left their event in the store
    ctx,        \* the run's context: "live", "cancelled" (signal, timeout, deadline of the request)
    rep,        \* report.Report: [error, checks, status, exit]
    remote,     \* file -> status of the run the control plane holds for it
    failures,   \* batch-run: files that failed
    exit,       \* exit code of the process; the answer of the endpoint
    steps       \* history: file -> "ok", or why its steps are not all done

runVars == <<job, pc, n, step, recorded, ctx, rep, remote, failures, exit, steps>>

Unset   == "unset"                  \* the string the code leaves empty
Blank   == [error |-> FALSE, checks |-> <<>>, status |-> Unset, exit |-> 0]
Running == -1                       \* no exit code yet
File    == job.files[n]
Adhoc   == job.mode = "adhoc"

RunInit ==
    /\ job \in Jobs
    /\ pc = "load" /\ n = 1 /\ step = 0 /\ recorded = {}
    /\ ctx = "live" /\ rep = Blank
    /\ remote = [i \in DOMAIN job.files |-> "none"] /\ failures = {} /\ exit = Running
    /\ steps = [i \in DOMAIN job.files |-> "todo"]
-----------------------------------------------------------------------------
(* report.Finalize and the checks it looks at                              *)

\* evaluateOne: an error or a value that is no bool is a check not passed.
Outcome(c) == IF c.step \in recorded THEN "true" ELSE c.otherwise
Result(c)  == [severity |-> IF c.severity = Unset THEN "warning" ELSE c.severity,
               passed |-> Outcome(c) = "true", err |-> Outcome(c) \in {"error", "NaN"},
               encodes |-> Outcome(c) # "NaN"]

EvaluateAll == [i \in DOMAIN File.checks |-> Result(File.checks[i])]

Failed(r)     == ~r.passed \/ r.err
IsCritical(r) == Failed(r) /\ r.severity = "critical"
AnyCriticalFailed(results) == \E i \in DOMAIN results : IsCritical(results[i])

\* json.Marshal of the report: evaluateOne keeps the value of an expression
\* that is no bool, and of an infinite or undefined number there is no JSON.
Marshals(r) == \A i \in DOMAIN r.checks : r.checks[i].encodes

\* Plausible bug: the checks are looked at before the error.
FinalizeChecksFirst(r) ==
    CASE AnyCriticalFailed(r.checks) -> [r EXCEPT !.status = "fail", !.exit = 1]
      [] r.error /\ r.checks = <<>>  -> [r EXCEPT !.status = "error", !.exit = 2]
      [] OTHER                       -> [r EXCEPT !.status = "pass", !.exit = 0]

Finalize(r) ==
    IF r.error THEN [r EXCEPT !.status = "error", !.exit = 2]
    ELSE IF AnyCriticalFailed(r.checks) THEN [r EXCEPT !.status = "fail", !.exit = 1]
    ELSE [r EXCEPT !.status = "pass", !.exit = 0]
-----------------------------------------------------------------------------
(* doRun and runAdhoc up to the end of the steps                           *)

\* doRun returns: 0, or the code its error carries, 1 for any other error.
\* batch-run goes on with the next file, and ends with 1 if one failed.
Returns(code) ==
    LET failed == IF code = 0 THEN failures ELSE failures \cup {n}
        last   == n = Len(job.files) \/ (code # 0 /\ ~job.keepGoing)
    IN  /\ failures' = failed
        /\ IF job.mode = "batch" /\ ~last
           THEN /\ pc' = "load" /\ n' = n + 1 /\ step' = 0 /\ recorded' = {}
                /\ ctx' = "live" /\ rep' = Blank /\ UNCHANGED exit
           ELSE /\ pc' = "done" /\ UNCHANGED <<n, step, recorded, ctx, rep>>
                /\ exit' = IF job.mode = "batch" /\ (job.keepGoing \/ code = 0)
                           THEN IF failed = {} THEN 0 ELSE 1
                           ELSE code

\* Nothing is run, nothing is reported; the endpoint answers 400.
LoadFails ==
    /\ pc = "load" /\ ~File.valid
    /\ steps' = [steps EXCEPT ![n] = "invalid"]
    /\ IF Adhoc
       THEN /\ pc' = "done" /\ exit' = 400
            /\ UNCHANGED <<n, step, recorded, ctx, rep, failures>>
       ELSE Returns(1)
    /\ UNCHANGED <<job, remote>>

\* Each file has a context of its own: timeout and signal handler begin here.
Load ==
    /\ pc = "load" /\ File.valid
    /\ pc' = "build" /\ ctx' = "live"
    /\ UNCHANGED <<job, n, step, recorded, rep, remote, failures, exit, steps>>

\* doRun prints a report it has not finalized: status "", exit code 0.
\* executeAdhoc finalizes before it sets the error: status "pass".
ClientFails ==
    /\ pc = "build" /\ File.kafka = "bad"
    /\ steps' = [steps EXCEPT ![n] = "no_client"]
    /\ rep' = [(IF Adhoc THEN Finalize(rep) ELSE rep) EXCEPT !.error = TRUE]
    /\ pc' = IF Adhoc THEN "store" ELSE "write"
    /\ UNCHANGED <<job, n, step, recorded, ctx, remote, failures, exit>>

Build ==
    /\ pc = "build" /\ File.kafka # "bad"
    /\ pc' = "steps" /\ step' = 1
    /\ UNCHANGED <<job, n, recorded, ctx, rep, remote, failures, exit, steps>>

\* A signal, --timeout, the 30 s of the router: while the steps run, or after.
Cancel ==
    /\ pc \in {"steps", "checks", "store"} /\ ctx = "live"
    /\ ctx' = "cancelled"
    /\ UNCHANGED <<job, pc, n, step, recorded, rep, remote, failures, exit, steps>>

\* A step that was in flight when the context ended may still succeed.
StepOK ==
    /\ pc = "steps" /\ step <= File.steps
    /\ recorded' = recorded \cup {step} /\ step' = step + 1
    /\ UNCHANGED <<job, pc, n, ctx, rep, remote, failures, exit, steps>>

\* A produce or http call that failed leaves an event all the same; the steps
\* after it are not run.
StepFails ==
    /\ pc = "steps" /\ step <= File.steps
    /\ recorded' \in {recorded, recorded \cup {step}}
    /\ rep' = [rep EXCEPT !.error = TRUE]
    /\ steps' = [steps EXCEPT ![n] = "failed"]
    /\ pc' = "checks"
    /\ UNCHANGED <<job, n, step, ctx, remote, failures, exit>>

StepsEnd ==
    /\ pc = "steps" /\ step > File.steps
    /\ steps' = [steps EXCEPT ![n] = "ok"] /\ pc' = "checks"
    /\ UNCHANGED <<job, n, step, recorded, ctx, rep, remote, failures, exit>>
-----------------------------------------------------------------------------
(* Verdicts                                                                *)

\* The checks see whatever was recorded, then the report is finalized; after a
\* failed run executeAdhoc finalizes first, which comes to the same.
Verdict ==
    /\ pc = "checks"
    /\ rep' = IF Adhoc /\ rep.error THEN [Finalize(rep) EXCEPT !.checks = EvaluateAll]
              ELSE Finalize([rep EXCEPT !.checks = EvaluateAll])
    /\ pc' = IF Adhoc THEN "store" ELSE IF job.reportTo THEN "push" ELSE "write"
    /\ UNCHANGED <<job, n, step, recorded, ctx, remote, failures, exit, steps>>

\* Ten seconds of its own, on a context that no signal ends.  It may be stored,
\* refused or lost, or stored with its answer lost: only a warning.
Push ==
    /\ pc = "push" /\ pc' = "write"
    /\ \/ Marshals(rep) /\ remote' = [remote EXCEPT ![n] = rep.status]
       \/ UNCHANGED remote
    /\ UNCHANGED <<job, n, step, recorded, ctx, rep, failures, exit, steps>>

Write ==
    /\ pc = "write" /\ (job.json => Marshals(rep))
    /\ Returns(CASE rep.exit = 0 -> 0 [] rep.exit = 2 -> 2 [] OTHER -> 1)
    /\ UNCHANGED <<job, remote, steps>>

\* stdout is gone, or WriteJSON could not encode the report.
WriteFails ==
    /\ pc = "write"
    /\ Returns(1)
    /\ UNCHANGED <<job, remote, steps>>

\* r.Context() again: Postgres refuses once the request's deadline has passed,
\* the in-memory store does not look, and the error is dropped.
StoreAdhocRun ==
    /\ pc = "store" /\ pc' = "answer"
    /\ \/ /\ Marshals(rep) /\ ~(job.postgres /\ ctx = "cancelled")
          /\ remote' = [remote EXCEPT ![n] = rep.status]
       \/ (job.postgres \/ ~Marshals(rep)) /\ UNCHANGED remote
    /\ UNCHANGED <<job, n, step, recorded, ctx, rep, failures, exit, steps>>

\* 202 with the error of the run, or 200.
Answer ==
    /\ pc = "answer" /\ pc' = "done"
    /\ exit' = IF steps[n] = "ok" THEN 200 ELSE 202
    /\ UNCHANGED <<job, n, step, recorded, ctx, rep, remote, failures, steps>>

\* SIGINT between two files, where no handler is installed, or SIGKILL.
Killed ==
    /\ pc # "done" /\ ~Adhoc
    /\ pc' = "done" /\ exit' = 130
    /\ UNCHANGED <<job, n, step, recorded, ctx, rep, remote, failures, steps>>

RunNext ==
    \/ LoadFails \/ Load \/ ClientFails \/ Build \/ Cancel
    \/ StepOK \/ StepFails \/ StepsEnd
    \/ Verdict \/ Push \/ Write \/ WriteFails \/ StoreAdhocRun \/ Answer \/ Killed

RunSpec == RunInit /\ [][RunNext]_runVars
-----------------------------------------------------------------------------
(* Properties                                                              *)

Statuses == {"none", Unset, "pass", "fail", "error"}

RunTypeOK ==
    /\ job \in Jobs /\ n \in DOMAIN job.files /\ step \in 0..(File.steps + 1)
    /\ pc \in {"load", "build", "steps", "checks", "push", "write", "store", "answer", "done"}
    /\ recorded \subseteq 1..File.steps /\ ctx \in {"live", "cancelled"}
    /\ rep.error \in BOOLEAN /\ rep.status \in Statuses /\ rep.exit \in 0..2
    /\ remote \in [DOMAIN job.files -> Statuses] /\ failures \subseteq DOMAIN job.files
    /\ exit \in {Running, 0, 1, 2, 130, 200, 202, 400}
    /\ steps \in [DOMAIN job.files -> {"todo", "ok", "failed", "invalid", "no_client"}]

\* A file is green when all its steps were done and no critical check of it is
\* false or in error on what all of them recorded.
Green(i) ==
    /\ steps[i] = "ok"
    /\ \A k \in DOMAIN job.files[i].checks :
           LET c == job.files[i].checks[k]
           IN  c.severity = "critical" => c.step \in 1..job.files[i].steps \/ c.otherwise = "true"

\* What the control plane shows of a file is what became of it, and never a
\* report that is not finalized.
ShownIsTrue(i) ==
    /\ remote[i] = "pass"  => Green(i) \/ (Adhoc /\ steps[i] = "no_client")
    /\ remote[i] = "fail"  => steps[i] = "ok" /\ ~Green(i)
    /\ remote[i] = "error" => steps[i] = "failed"
    /\ remote[i] # Unset

\* Whatever the order of failing steps, cancellation, checks, push and print:
\* exit code 0 means that every file was green, and what the control plane
\* shows as "pass" was green; a run that is green there fails here only if its
\* report could not be printed, and one that is red there never exits with 0.
\* Excepted is what run.go:106 and adhoc.go:107 do: a file whose Kafka client
\* cannot be built runs no step and counts as green.
VerdictIsEarned ==
    /\ exit = 0 => \A i \in DOMAIN job.files : Green(i) \/ steps[i] = "no_client"
    /\ \A i \in DOMAIN job.files :
           ShownIsTrue(i) /\ (exit = 0 => remote[i] \in {"none", "pass"})
    /\ exit = 2 => steps[n] = "failed"
    /\ exit = 200 => steps[n] = "ok"
    \* An ad-hoc run that was answered is in the store, unless Postgres failed,
    \* the request was over before, or a value of it has no JSON.
    /\ exit \in {200, 202} /\ ~job.postgres /\ Marshals(rep) => remote[n] # "none"

\* Why: the steps that are done left their events, ...
StepsInv ==
    /\ pc \in {"load", "build", "steps"} => rep = Blank /\ steps[n] = "todo"
    /\ pc \in {"load", "build"} => recorded = {}
    /\ pc = "steps" => step \in 1..File.steps + 1 /\ recorded = 1..step - 1
    /\ pc = "checks" =>
           \/ rep = Blank /\ steps[n] = "ok" /\ recorded = 1..File.steps
           \/ rep = [Blank EXCEPT !.error = TRUE] /\ steps[n] = "failed"

\* ... the report says what became of the file, once it is finalized, ...
Settled ==
    \/ steps[n] = "failed" /\ rep.status = "error" /\ rep.exit = 2
    \/ steps[n] = "ok" /\ Green(n) /\ rep.status = "pass" /\ rep.exit = 0
    \/ steps[n] = "ok" /\ ~Green(n) /\ rep.status = "fail" /\ rep.exit = 1
    \/ steps[n] = "no_client" /\ rep.status = (IF Adhoc THEN "pass" ELSE Unset) /\ rep.exit = 0

\* ... the control plane holds this report or none, ...
ReportInv ==
    /\ pc \in {"push", "write", "store", "answer"} => Settled
    /\ pc = "push" => steps[n] # "no_client"
    /\ pc \in {"load", "build", "steps", "checks", "push", "store"} => remote[n] = "none"
    /\ pc \in {"write", "answer"} => remote[n] \in {"none", rep.status}
    /\ pc \in {"push", "write"} => ~Adhoc
    /\ pc \in {"store", "answer"} => Adhoc
    /\ pc = "answer" /\ ~job.postgres /\ Marshals(rep) => remote[n] # "none"

\* ... and the files of a batch that went wrong are counted as failures.
FilesInv ==
    \A i \in DOMAIN job.files :
        /\ i > n => steps[i] = "todo" /\ remote[i] = "none"
        /\ i < n /\ i \notin failures =>
               (Green(i) \/ steps[i] = "no_client") /\ remote[i] \in {"none", "pass"}

RunInv ==
    /\ job \in Jobs /\ n \in DOMAIN job.files
    /\ steps \in [DOMAIN job.files -> {"todo", "ok", "failed", "invalid", "no_client"}]
    /\ remote \in [DOMAIN job.files -> Statuses]
    /\ pc # "done" => exit = Running /\ StepsInv /\ ReportInv /\ FilesInv
    /\ VerdictIsEarned
=============================================================================
