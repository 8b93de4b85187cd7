-------------------------- MODULE ScenarioRunProofs --------------------------
(***************************************************************************)
(* Proofs about a run and its verdict (ScenarioRun), for all command       *)
(* lines, files, steps and checks; about the operators of checks           *)
(* (CheckOperators), for all events, values, patterns and paths; and about *)
(* all that a run of a scenario is made of, put together.                  *)
(***************************************************************************)
EXTENDS MCScenarioRun, ClientProofs

LEMMA JobFacts ==
    ASSUME job \in Jobs, n \in DOMAIN job.files
    PROVE  /\ Len(job.files) \in Nat /\ DOMAIN job.files = 1..Len(job.files) /\ n \in 1..Len(job.files)
           /\ File.steps \in Nat
           /\ job.mode # "batch" => Len(job.files) = 1
  <1>1. PICK T : T = Range(job.files)
    OBVIOUS
  <1>2. job.files \in Seq(T) /\ (\A f \in T : f.steps \in Nat) /\ (job.mode # "batch" => Len(job.files) = 1)
    BY <1>1, ScenarioRunAssumption
  <1>3. Len(job.files) \in Nat /\ DOMAIN job.files = 1..Len(job.files)
    BY <1>2
  <1>4. File \in T
    BY <1>1 DEF File, Range
  <1> QED
    BY <1>2, <1>3, <1>4

\* evaluateAll and Finalize decide as Green does once all steps are recorded.
LEMMA GreenIsPass ==
    ASSUME steps[n] = "ok", recorded = 1..File.steps
    PROVE  AnyCriticalFailed(EvaluateAll) <=> ~Green(n)
  <1>1. DOMAIN EvaluateAll = DOMAIN File.checks
    BY DEF EvaluateAll
  <1>2. ASSUME NEW k \in DOMAIN File.checks
        PROVE  IsCritical(EvaluateAll[k]) <=>
                   /\ File.checks[k].severity = "critical"
                   /\ ~(File.checks[k].step \in 1..File.steps \/ File.checks[k].otherwise = "true")
    <2>1. PICK c, o : c = File.checks[k] /\ o = Outcome(c)
      OBVIOUS
    <2>2. o = IF c.step \in 1..File.steps THEN "true" ELSE c.otherwise
      BY <2>1 DEF Outcome
    <2>3. PICK res : res = EvaluateAll[k]
      OBVIOUS
    <2>4. /\ res.severity = IF c.severity = Unset THEN "warning" ELSE c.severity
          /\ res.passed = (o = "true") /\ res.err = (o \in {"error", "NaN"})
      BY <2>1, <2>3 DEF EvaluateAll, Result
    <2>5. res.severity = "critical" <=> c.severity = "critical"
      BY <2>4 DEF Unset
    <2>6. ~res.passed \/ res.err <=> o # "true"
      BY <2>4
    <2>7. IsCritical(EvaluateAll[k]) <=> c.severity = "critical" /\ o # "true"
      BY <2>3, <2>5, <2>6 DEF IsCritical, Failed
    <2> QED
      BY <2>1, <2>2, <2>7
  <1> QED
    BY <1>1, <1>2 DEF AnyCriticalFailed, Green, File

\* A step of the current file that is not its last.
LEMMA GoesOn ==
    ASSUME RunInv, pc # "done", pc' # "done", UNCHANGED <<job, n, failures, exit>>,
           NEW w \in {"todo", "ok", "failed", "invalid", "no_client"}, steps' = [steps EXCEPT ![n] = w],
           NEW s \in Statuses, remote' = [remote EXCEPT ![n] = s],
           StepsInv', ReportInv', ShownIsTrue(n)'
    PROVE  RunInv'
  <1>1. /\ job \in Jobs /\ n \in DOMAIN job.files /\ exit = Running
        /\ steps \in [DOMAIN job.files -> {"todo", "ok", "failed", "invalid", "no_client"}]
        /\ remote \in [DOMAIN job.files -> Statuses] /\ FilesInv /\ VerdictIsEarned
    BY DEF RunInv
  <1>2. n \in Nat /\ DOMAIN job.files \subseteq Nat
    BY <1>1, JobFacts
  <1>3. /\ steps' \in [DOMAIN job.files -> {"todo", "ok", "failed", "invalid", "no_client"}]
        /\ remote' \in [DOMAIN job.files -> Statuses]
    BY <1>1
  <1>4. ASSUME NEW i \in DOMAIN job.files, i # n
        PROVE  steps'[i] = steps[i] /\ remote'[i] = remote[i] /\ Green(i)' = Green(i)
    BY <1>1, <1>4 DEF Green
  <1>5. FilesInv'
    <2>1. SUFFICES ASSUME NEW i \in DOMAIN job.files
                   PROVE  /\ i > n => steps'[i] = "todo" /\ remote'[i] = "none"
                          /\ i < n /\ i \notin failures =>
                                 (Green(i)' \/ steps'[i] = "no_client") /\ remote'[i] \in {"none", "pass"}
      BY DEF FilesInv
    <2>2. CASE i = n
      BY <1>2, <2>2
    <2>3. CASE i # n
      BY <1>1, <1>4, <2>3 DEF FilesInv
    <2> QED
      BY <2>2, <2>3
  <1>6. ASSUME NEW i \in DOMAIN job.files PROVE ShownIsTrue(i)'
    <2>1. CASE i = n
      BY <2>1 DEF ShownIsTrue, Green
    <2>2. CASE i # n
      <3>1. ShownIsTrue(i)
        BY <1>1 DEF VerdictIsEarned
      <3> QED
        BY <1>4, <2>2, <3>1 DEF ShownIsTrue, Adhoc
    <2> QED
      BY <2>1, <2>2
  <1>7. VerdictIsEarned'
    BY <1>1, <1>6 DEF VerdictIsEarned, Running
  <1> QED
    BY <1>1, <1>3, <1>5, <1>7 DEF RunInv

\* doRun returns with a code that fits the file: the batch goes on or ends.
LEMMA ReturnsKeeps ==
    ASSUME RunInv, pc # "done", job' = job, NEW code \in {0, 1, 2}, Returns(code),
           NEW w \in {"todo", "ok", "failed", "invalid", "no_client"}, steps' = [steps EXCEPT ![n] = w],
           NEW s \in Statuses, remote' = [remote EXCEPT ![n] = s],
           \A i \in DOMAIN job.files : ShownIsTrue(i)',
           NEW m, m = n,
           code = 0 => (Green(m)' \/ w = "no_client") /\ s \in {"none", "pass"},
           code = 2 => w = "failed"
    PROVE  RunInv'
  <1>1. /\ job \in Jobs /\ n \in DOMAIN job.files /\ exit = Running
        /\ steps \in [DOMAIN job.files -> {"todo", "ok", "failed", "invalid", "no_client"}]
        /\ remote \in [DOMAIN job.files -> Statuses] /\ FilesInv
    BY DEF RunInv
  <1>2. PICK len \in Nat : /\ len = Len(job.files) /\ DOMAIN job.files = 1..len /\ n \in 1..len
                           /\ (job.mode # "batch" => len = 1)
    BY <1>1, JobFacts
  <1>3. /\ steps' \in [DOMAIN job.files -> {"todo", "ok", "failed", "invalid", "no_client"}]
        /\ remote' \in [DOMAIN job.files -> Statuses] /\ steps'[n] = w /\ remote'[n] = s
    BY <1>1
  <1>4. ASSUME NEW i \in DOMAIN job.files, i # n
        PROVE  steps'[i] = steps[i] /\ remote'[i] = remote[i] /\ Green(i)' = Green(i)
    BY <1>1, <1>4 DEF Green
  <1>5. PICK failed : failed = IF code = 0 THEN failures ELSE failures \cup {n}
    OBVIOUS
  <1>6. failures' = failed
    BY <1>5 DEF Returns
  <1>7. ASSUME NEW i \in DOMAIN job.files, i <= n, i \notin failed
        PROVE  (Green(i)' \/ steps'[i] = "no_client") /\ remote'[i] \in {"none", "pass"}
    <2>1. CASE i = n
      <3>1. code = 0
        BY <1>5, <1>7, <2>1
      <3> QED
        BY <1>3, <2>1, <3>1
    <2>2. CASE i # n
      <3>1. i < n /\ i \notin failures
        BY <1>2, <1>5, <1>7, <2>2
      <3> QED
        BY <1>1, <1>4, <2>2, <3>1 DEF FilesInv
    <2> QED
      BY <2>1, <2>2
  <1>8. CASE job.mode = "batch" /\ ~(n = len \/ (code # 0 /\ ~job.keepGoing))
    <2>1. pc' = "load" /\ n' = n + 1 /\ rep' = Blank /\ recorded' = {} /\ exit' = exit
      BY <1>2, <1>8, Zenon DEF Returns
    <2>2. n + 1 \in DOMAIN job.files
      BY <1>2, <1>8
    <2>3. steps'[n + 1] = "todo" /\ remote'[n + 1] = "none"
      <3>1. n + 1 # n /\ n + 1 > n
        BY <1>2
      <3> QED
        BY <1>1, <1>4, <2>2, <3>1 DEF FilesInv
    <2>4. FilesInv'
      <3>1. SUFFICES ASSUME NEW i \in DOMAIN job.files
                     PROVE  /\ i > n + 1 => steps'[i] = "todo" /\ remote'[i] = "none"
                            /\ i < n + 1 /\ i \notin failed =>
                                   (Green(i)' \/ steps'[i] = "no_client") /\ remote'[i] \in {"none", "pass"}
        BY <1>6, <2>1 DEF FilesInv
      <3>2. CASE i <= n
        BY <1>2, <1>7, <3>2
      <3>3. CASE i > n
        BY <1>1, <1>2, <1>4, <3>3 DEF FilesInv
      <3> QED
        BY <1>2, <3>2, <3>3
    <2>5. StepsInv'
      BY <2>1, <2>3 DEF StepsInv
    <2>6. ReportInv'
      BY <2>1, <2>3 DEF ReportInv
    <2>7. VerdictIsEarned'
      BY <1>1, <2>1 DEF VerdictIsEarned, Running
    <2> QED
      BY <1>1, <1>3, <2>1, <2>2, <2>4, <2>5, <2>6, <2>7 DEF RunInv
  <1>9. CASE ~(job.mode = "batch" /\ ~(n = len \/ (code # 0 /\ ~job.keepGoing)))
    <2>1. /\ pc' = "done" /\ n' = n
          /\ exit' = IF job.mode = "batch" /\ (job.keepGoing \/ code = 0)
                     THEN IF failed = {} THEN 0 ELSE 1 ELSE code
      BY <1>2, <1>5, <1>9, Zenon DEF Returns
    <2>2. exit' \in {0, 1, 2}
      BY <2>1
    <2>3. exit' = 2 => steps'[n] = "failed"
      BY <1>3, <2>1
    <2>4. ASSUME exit' = 0, NEW i \in DOMAIN job.files
          PROVE  (Green(i)' \/ steps'[i] = "no_client") /\ remote'[i] \in {"none", "pass"}
      <3>1. code = 0
        <4>1. SUFFICES ASSUME code # 0 PROVE FALSE
          OBVIOUS
        <4>2. failed # {}
          BY <1>5, <4>1
        <4> QED
          BY <2>1, <2>4, <4>1, <4>2
      <3>2. n = len
        <4>1. CASE job.mode = "batch"
          BY <1>9, <3>1, <4>1
        <4>2. CASE job.mode # "batch"
          <5>1. len = 1 /\ n \in 1..len
            BY <1>2, <4>2
          <5> QED
            BY <5>1
        <4> QED
          BY <4>1, <4>2
      <3>3. CASE job.mode = "batch"
        <4>1. i \notin failed
          BY <2>1, <2>4, <3>1, <3>3
        <4> QED
          BY <1>2, <1>7, <3>2, <4>1
      <3>4. CASE job.mode # "batch"
        <4>1. len = 1 /\ n \in 1..len /\ i \in 1..len
          BY <1>2, <2>4, <3>4
        <4>2. i = n
          BY <4>1
        <4> QED
          BY <1>3, <3>1, <4>2
      <3> QED
        BY <3>3, <3>4
    <2>5. VerdictIsEarned'
      BY <2>1, <2>2, <2>3, <2>4 DEF VerdictIsEarned
    <2> QED
      BY <1>1, <1>3, <2>1, <2>5 DEF RunInv
  <1> QED
    BY <1>8, <1>9

\* Write prints the report it has and returns its code; stdout may be gone.
LEMMA WriteKeeps ==
    ASSUME RunInv, Write \/ WriteFails
    PROVE  RunInv'
  <1>1. PICK m : m = n
    OBVIOUS
  <1>2. /\ pc = "write" /\ job \in Jobs /\ n \in DOMAIN job.files /\ exit = Running
        /\ steps \in [DOMAIN job.files -> {"todo", "ok", "failed", "invalid", "no_client"}]
        /\ remote \in [DOMAIN job.files -> Statuses] /\ UNCHANGED <<job, remote, steps>>
        /\ Settled /\ ~Adhoc /\ remote[n] \in {"none", rep.status} /\ VerdictIsEarned
    BY DEF RunInv, ReportInv, Write, WriteFails
  <1>3. PICK code \in {0, 1, 2} : /\ Returns(code)
                                  /\ code = 0 => rep.exit = 0
                                  /\ code = 2 => rep.exit = 2
    <2>1. CASE Write
      <3>1. PICK code : code = CASE rep.exit = 0 -> 0 [] rep.exit = 2 -> 2 [] OTHER -> 1
        OBVIOUS
      <3>2. Returns(code)
        BY <2>1, <3>1 DEF Write
      <3> QED
        BY <3>1, <3>2
    <2>2. CASE WriteFails
      <3>1. Returns(1)
        BY <2>2 DEF WriteFails
      <3> QED
        BY <3>1
    <2> QED
      BY <2>1, <2>2
  <1>4. PICK w, s : w = steps[n] /\ s = remote[n]
    OBVIOUS
  <1>5. /\ w \in {"todo", "ok", "failed", "invalid", "no_client"} /\ steps' = [steps EXCEPT ![n] = w]
        /\ s \in Statuses /\ remote' = [remote EXCEPT ![n] = s]
    <2>1. w \in {"todo", "ok", "failed", "invalid", "no_client"} /\ s \in Statuses
      BY <1>2, <1>4
    <2>2. steps' = [steps EXCEPT ![n] = w] /\ remote' = [remote EXCEPT ![n] = s]
      BY <1>2, <1>4
    <2> QED
      BY <2>1, <2>2
  <1>6. ASSUME NEW i \in DOMAIN job.files
        PROVE  ShownIsTrue(i) /\ ShownIsTrue(i)' /\ Green(i)' = Green(i)
    <2>1. ShownIsTrue(i)
      BY <1>2 DEF VerdictIsEarned
    <2> QED
      BY <1>2, <2>1 DEF ShownIsTrue, Green, Adhoc
  <1>7. \A i \in DOMAIN job.files : ShownIsTrue(i)'
    BY <1>6
  <1>8. s # Unset
    BY <1>2, <1>4, <1>6 DEF ShownIsTrue
  <1>9. code = 0 => (Green(m)' \/ w = "no_client") /\ s \in {"none", "pass"}
    <2>1. SUFFICES ASSUME rep.exit = 0 PROVE (Green(m)' \/ w = "no_client") /\ s \in {"none", "pass"}
      BY <1>3
    <2>2. \/ steps[n] = "ok" /\ Green(n) /\ rep.status = "pass"
          \/ steps[n] = "no_client" /\ rep.status = Unset
      BY <1>2, <2>1 DEF Settled
    <2>3. Green(m)' <=> Green(n)
      BY <1>1, <1>2, <1>6
    <2> QED
      BY <1>2, <1>4, <1>8, <2>2, <2>3
  <1>10. code = 2 => w = "failed"
    BY <1>2, <1>3, <1>4 DEF Settled
  <1> QED
    BY <1>1, <1>2, <1>3, <1>5, <1>7, <1>9, <1>10, ReturnsKeeps

LEMMA LoadFailsKeeps ==
    ASSUME RunInv, LoadFails
    PROVE  RunInv'
  <1>1. PICK m, code : m = n /\ code = 1
    OBVIOUS
  <1>2. /\ pc = "load" /\ job \in Jobs /\ n \in DOMAIN job.files /\ exit = Running /\ remote[n] = "none"
        /\ steps \in [DOMAIN job.files -> {"todo", "ok", "failed", "invalid", "no_client"}]
        /\ remote \in [DOMAIN job.files -> Statuses] /\ VerdictIsEarned
        /\ steps' = [steps EXCEPT ![n] = "invalid"] /\ UNCHANGED <<job, remote>>
    BY DEF RunInv, ReportInv, LoadFails
  <1>3. remote' = [remote EXCEPT ![n] = remote[n]] /\ remote[n] \in Statuses
    BY <1>2
  <1>4. ASSUME NEW i \in DOMAIN job.files PROVE ShownIsTrue(i)'
    <2>1. ShownIsTrue(i)
      BY <1>2 DEF VerdictIsEarned
    <2>2. CASE i = n
      BY <1>2, <2>2 DEF ShownIsTrue, Unset
    <2>3. CASE i # n
      BY <1>2, <2>1, <2>3 DEF ShownIsTrue, Green, Adhoc
    <2> QED
      BY <2>2, <2>3
  <1>5. CASE Adhoc
    <2>1. pc' = "done" /\ n' = n /\ exit' = 400
      BY <1>5 DEF LoadFails
    <2>2. steps' \in [DOMAIN job.files -> {"todo", "ok", "failed", "invalid", "no_client"}]
      BY <1>2
    <2>3. VerdictIsEarned'
      BY <1>2, <1>4, <2>1 DEF VerdictIsEarned
    <2> QED
      BY <1>2, <2>1, <2>2, <2>3 DEF RunInv
  <1>6. CASE ~Adhoc
    <2>1. Returns(code)
      BY <1>1, <1>6 DEF LoadFails
    <2>2. PICK w \in {"todo", "ok", "failed", "invalid", "no_client"}, s \in Statuses :
             steps' = [steps EXCEPT ![n] = w] /\ remote' = [remote EXCEPT ![n] = s]
      BY <1>2, <1>3
    <2>3. code \in {0, 1, 2} /\ code # 0 /\ code # 2
      BY <1>1
    <2>4. pc # "done" /\ job' = job
      BY <1>2
    <2> QED
      BY <1>1, <1>4, <2>1, <2>2, <2>3, <2>4, ReturnsKeeps
  <1> QED
    BY <1>5, <1>6

\* Loading the file, its client, its steps, and a context that ends meanwhile.
LEMMA StepsKeep ==
    ASSUME RunInv, Load \/ ClientFails \/ Build \/ Cancel \/ StepOK \/ StepFails \/ StepsEnd
    PROVE  RunInv'
  <1>1. /\ pc # "done" /\ job \in Jobs /\ n \in DOMAIN job.files /\ StepsInv /\ ReportInv /\ VerdictIsEarned
        /\ steps \in [DOMAIN job.files -> {"todo", "ok", "failed", "invalid", "no_client"}]
        /\ remote \in [DOMAIN job.files -> Statuses] /\ File.steps \in Nat
    <2>1. pc # "done"
      BY DEF Load, ClientFails, Build, Cancel, StepOK, StepFails, StepsEnd
    <2> QED
      BY <2>1, JobFacts DEF RunInv
  <1>2. UNCHANGED <<job, n, failures, exit, remote>> /\ remote' = [remote EXCEPT ![n] = remote[n]] /\ remote[n] \in Statuses
    BY <1>1 DEF Load, ClientFails, Build, Cancel, StepOK, StepFails, StepsEnd
  <1>3. /\ File' = File /\ Adhoc' = Adhoc
        /\ UNCHANGED steps => steps' = [steps EXCEPT ![n] = steps[n]] /\ Green(n)' = Green(n)
        /\ UNCHANGED <<steps, rep>> => Settled' = Settled
    BY <1>1, <1>2 DEF File, Adhoc, Green, Settled
  <1>4. ShownIsTrue(n)
    BY <1>1 DEF VerdictIsEarned
  <1>5. CASE Load \/ Build \/ StepOK
    <2>1. UNCHANGED <<steps, rep>> /\ pc \in {"load", "build", "steps"} /\ pc' \in {"build", "steps"}
      BY <1>5 DEF Load, Build, StepOK
    <2>2. StepsInv'
      <3>1. CASE Load
        BY <1>1, <1>2, <2>1, <3>1 DEF StepsInv, Load
      <3>2. CASE Build
        <4>1. step' = 1 /\ 1 \in 1..File.steps + 1 /\ 1..1 - 1 = {} /\ recorded' = {}
          BY <1>1, <3>2 DEF Build, StepsInv
        <4> QED
          BY <1>1, <1>2, <1>3, <2>1, <3>2, <4>1 DEF StepsInv, Build
      <3>3. CASE StepOK
        <4>1. pc = "steps" /\ step \in 1..File.steps + 1 /\ step <= File.steps /\ recorded = 1..step - 1
          BY <1>1, <3>3 DEF StepsInv, StepOK
        <4>2. step' = step + 1 /\ recorded' = recorded \cup {step} /\ pc' = "steps"
          BY <3>3 DEF StepOK
        <4>3. recorded' = 1..step' - 1 /\ step' \in 1..File.steps + 1
          BY <1>1, <4>1, <4>2
        <4> QED
          BY <1>1, <1>2, <1>3, <2>1, <4>1, <4>2, <4>3 DEF StepsInv
      <3> QED
        BY <1>5, <3>1, <3>2, <3>3
    <2>3. ReportInv'
      BY <1>1, <1>2, <2>1 DEF ReportInv
    <2>4. ShownIsTrue(n)'
      BY <1>2, <1>3, <1>4, <2>1 DEF ShownIsTrue
    <2> QED
      BY <1>1, <1>2, <1>3, <2>1, <2>2, <2>3, <2>4, GoesOn
  <1>6. CASE Cancel
    <2>1. UNCHANGED <<pc, steps, rep, step, recorded>>
      BY <1>6 DEF Cancel
    <2>2. StepsInv' /\ ReportInv' /\ ShownIsTrue(n)'
      BY <1>1, <1>2, <1>3, <1>4, <2>1 DEF StepsInv, ReportInv, ShownIsTrue, Marshals
    <2> QED
      BY <1>1, <1>2, <1>3, <2>1, <2>2, GoesOn
  <1>7. CASE StepFails \/ StepsEnd
    <2>1. /\ pc = "steps" /\ pc' = "checks" /\ remote[n] = "none" /\ rep = Blank
          /\ step \in 1..File.steps + 1 /\ recorded = 1..step - 1
      BY <1>1, <1>7 DEF StepFails, StepsEnd, StepsInv, ReportInv
    <2>2. PICK w \in {"ok", "failed"} : /\ steps' = [steps EXCEPT ![n] = w]
                                        /\ w = "ok" => rep' = rep /\ recorded' = recorded /\ step > File.steps
                                        /\ w = "failed" => rep' = [rep EXCEPT !.error = TRUE]
      BY <1>7 DEF StepFails, StepsEnd
    <2>3. steps'[n] = w
      BY <1>1, <2>2
    <2>4. w = "ok" => recorded' = 1..File.steps
      BY <1>1, <2>1, <2>2
    <2>5. StepsInv'
      BY <1>2, <1>3, <2>1, <2>2, <2>3, <2>4 DEF StepsInv
    <2>6. ReportInv' /\ ShownIsTrue(n)'
      BY <1>2, <2>1 DEF ReportInv, ShownIsTrue, Unset
    <2> QED
      BY <1>1, <1>2, <2>1, <2>2, <2>5, <2>6, GoesOn
  <1>8. CASE ClientFails
    <2>1. /\ pc = "build" /\ remote[n] = "none" /\ rep = Blank
          /\ steps' = [steps EXCEPT ![n] = "no_client"] /\ pc' = IF Adhoc THEN "store" ELSE "write"
          /\ rep' = [(IF Adhoc THEN Finalize(rep) ELSE rep) EXCEPT !.error = TRUE]
      BY <1>1, <1>8 DEF ClientFails, StepsInv, ReportInv
    <2>2. steps'[n] = "no_client"
      BY <1>1, <2>1
    <2>3. rep'.exit = 0 /\ rep'.status = IF Adhoc THEN "pass" ELSE Unset
      <3>1. Finalize(Blank) = [Blank EXCEPT !.status = "pass", !.exit = 0]
        BY DEF Finalize, Blank, AnyCriticalFailed
      <3> QED
        BY <2>1, <3>1 DEF Blank
    <2>4. Settled'
      BY <1>2, <1>3, <2>2, <2>3 DEF Settled
    <2>5. StepsInv' /\ ReportInv' /\ ShownIsTrue(n)'
      BY <1>2, <1>3, <2>1, <2>4 DEF StepsInv, ReportInv, ShownIsTrue, Unset
    <2> QED
      BY <1>1, <1>2, <2>1, <2>5, GoesOn
  <1> QED
    BY <1>5, <1>6, <1>7, <1>8

\* What Finalize makes of a report.
LEMMA FinalizeFacts ==
    ASSUME NEW r, DOMAIN r = {"error", "checks", "status", "exit"}
    PROVE  /\ DOMAIN Finalize(r) = {"error", "checks", "status", "exit"}
           /\ r.error = TRUE => Finalize(r).status = "error" /\ Finalize(r).exit = 2
           /\ r.error = FALSE /\ AnyCriticalFailed(r.checks) => Finalize(r).status = "fail" /\ Finalize(r).exit = 1
           /\ r.error = FALSE /\ ~AnyCriticalFailed(r.checks) => Finalize(r).status = "pass" /\ Finalize(r).exit = 0
  <1>1. Finalize(r) \in {[r EXCEPT !.status = "error", !.exit = 2], [r EXCEPT !.status = "fail", !.exit = 1],
                         [r EXCEPT !.status = "pass", !.exit = 0]}
    BY DEF Finalize
  <1>2. DOMAIN Finalize(r) = {"error", "checks", "status", "exit"}
    BY <1>1
  <1>3. ASSUME r.error = TRUE
        PROVE  Finalize(r).status = "error" /\ Finalize(r).exit = 2
    <2>1. Finalize(r) = [r EXCEPT !.status = "error", !.exit = 2]
      BY <1>3 DEF Finalize
    <2> QED
      BY <2>1
  <1>4. ASSUME r.error = FALSE, AnyCriticalFailed(r.checks)
        PROVE  Finalize(r).status = "fail" /\ Finalize(r).exit = 1
    <2>1. Finalize(r) = [r EXCEPT !.status = "fail", !.exit = 1]
      BY <1>4 DEF Finalize
    <2> QED
      BY <2>1
  <1>5. ASSUME r.error = FALSE, ~AnyCriticalFailed(r.checks)
        PROVE  Finalize(r).status = "pass" /\ Finalize(r).exit = 0
    <2>1. Finalize(r) = [r EXCEPT !.status = "pass", !.exit = 0]
      BY <1>5 DEF Finalize
    <2> QED
      BY <2>1
  <1> QED
    BY <1>2, <1>3, <1>4, <1>5

LEMMA BlankFacts ==
    ASSUME NEW cs
    PROVE  \A r \in {Blank, [Blank EXCEPT !.error = TRUE]} :
               /\ DOMAIN r = {"error", "checks", "status", "exit"}
               /\ DOMAIN [r EXCEPT !.checks = cs] = {"error", "checks", "status", "exit"}
               /\ [r EXCEPT !.checks = cs].error = r.error /\ [r EXCEPT !.checks = cs].checks = cs
               /\ r.error = FALSE <=> r # [Blank EXCEPT !.error = TRUE]
               /\ r.error = TRUE <=> r # Blank
  <1>1. DOMAIN Blank = {"error", "checks", "status", "exit"}
    BY DEF Blank
  <1>2. Blank.error = FALSE /\ [Blank EXCEPT !.error = TRUE].error = TRUE
    BY DEF Blank
  <1>3. ASSUME NEW r, DOMAIN r = {"error", "checks", "status", "exit"}
        PROVE  /\ DOMAIN [r EXCEPT !.checks = cs] = {"error", "checks", "status", "exit"}
               /\ [r EXCEPT !.checks = cs].error = r.error /\ [r EXCEPT !.checks = cs].checks = cs
    BY <1>3
  <1> QED
    BY <1>1, <1>2, <1>3

\* After the checks: the report is settled as the steps and the checks were.
LEMMA VerdictSettles ==
    ASSUME RunInv, Verdict
    PROVE  Settled'
  <1>1. /\ job \in Jobs /\ n \in DOMAIN job.files /\ StepsInv /\ pc = "checks" /\ UNCHANGED <<job, n, steps>>
    BY DEF RunInv, Verdict
  <1>2. Adhoc' = Adhoc /\ Green(n)' = Green(n)
    BY <1>1 DEF Adhoc, Green
  <1>3. PICK results, r : results = EvaluateAll /\ r = [rep EXCEPT !.checks = results]
    OBVIOUS
  <1>4. rep' = IF Adhoc /\ rep.error THEN [Finalize(rep) EXCEPT !.checks = results] ELSE Finalize(r)
    BY <1>3 DEF Verdict
  <1>5. rep \in {Blank, [Blank EXCEPT !.error = TRUE]}
    BY <1>1 DEF StepsInv
  <1>6. /\ DOMAIN rep = {"error", "checks", "status", "exit"} /\ DOMAIN r = {"error", "checks", "status", "exit"}
        /\ r.error = rep.error /\ r.checks = results
        /\ rep.error = FALSE <=> rep # [Blank EXCEPT !.error = TRUE]
        /\ rep.error = TRUE <=> rep # Blank
    BY <1>3, <1>5, BlankFacts
  <1>7. CASE rep.error = FALSE
    <2>1. steps[n] = "ok" /\ recorded = 1..File.steps
      BY <1>1, <1>6, <1>7 DEF StepsInv
    <2>2. AnyCriticalFailed(results) <=> ~Green(n)
      BY <1>3, <2>1, GreenIsPass
    <2>3. rep' = Finalize(r)
      BY <1>4, <1>7
    <2>4. CASE Green(n)
      <3>1. rep'.status = "pass" /\ rep'.exit = 0
        BY <1>6, <1>7, <2>2, <2>3, <2>4, FinalizeFacts
      <3> QED
        BY <1>1, <1>2, <2>1, <2>4, <3>1 DEF Settled
    <2>5. CASE ~Green(n)
      <3>1. rep'.status = "fail" /\ rep'.exit = 1
        BY <1>6, <1>7, <2>2, <2>3, <2>5, FinalizeFacts
      <3> QED
        BY <1>1, <1>2, <2>1, <2>5, <3>1 DEF Settled
    <2> QED
      BY <2>4, <2>5
  <1>8. CASE rep.error = TRUE
    <2>1. steps[n] = "failed"
      BY <1>1, <1>6, <1>8 DEF StepsInv
    <2>2. /\ Finalize(r).status = "error" /\ Finalize(r).exit = 2
          /\ Finalize(rep).status = "error" /\ Finalize(rep).exit = 2
          /\ DOMAIN Finalize(rep) = {"error", "checks", "status", "exit"}
      BY <1>6, <1>8, FinalizeFacts
    <2>3. PICK f : f = Finalize(rep)
      OBVIOUS
    <2>4. [f EXCEPT !.checks = results].status = f.status /\ [f EXCEPT !.checks = results].exit = f.exit
      BY <2>2, <2>3
    <2>5. rep'.status = "error" /\ rep'.exit = 2
      BY <1>4, <2>2, <2>3, <2>4
    <2> QED
      BY <1>1, <2>1, <2>5 DEF Settled
  <1> QED
    BY <1>5, <1>6, <1>7, <1>8

\* The verdict, and the control plane that is told of it or not.
LEMMA VerdictKeeps ==
    ASSUME RunInv, Verdict \/ Push \/ StoreAdhocRun
    PROVE  RunInv'
  <1>1. /\ pc # "done" /\ job \in Jobs /\ n \in DOMAIN job.files /\ StepsInv /\ ReportInv /\ VerdictIsEarned
        /\ steps \in [DOMAIN job.files -> {"todo", "ok", "failed", "invalid", "no_client"}]
        /\ remote \in [DOMAIN job.files -> Statuses]
    BY DEF RunInv, Verdict, Push, StoreAdhocRun
  <1>2. UNCHANGED <<job, n, failures, exit, steps>>
    BY DEF Verdict, Push, StoreAdhocRun
  <1>3. steps' = [steps EXCEPT ![n] = steps[n]] /\ Adhoc' = Adhoc /\ Green(n)' = Green(n) /\ remote[n] = "none"
        /\ remote' = [remote EXCEPT ![n] = remote'[n]]
    BY <1>1, <1>2 DEF Adhoc, Green, ReportInv, Verdict, Push, StoreAdhocRun
  <1>4. CASE Verdict
    <2>1. /\ pc = "checks" /\ remote'[n] = "none" /\ "none" \in Statuses
          /\ pc' = IF Adhoc THEN "store" ELSE IF job.reportTo THEN "push" ELSE "write"
      BY <1>1, <1>3, <1>4 DEF Verdict, Statuses
    <2>2. Settled' /\ steps[n] # "no_client"
      BY <1>1, <1>4, <2>1, VerdictSettles DEF StepsInv
    <2>3. StepsInv' /\ ReportInv' /\ ShownIsTrue(n)'
      BY <1>2, <1>3, <2>1, <2>2 DEF StepsInv, ReportInv, ShownIsTrue, Unset
    <2> QED
      BY <1>1, <1>2, <1>3, <2>1, <2>3, GoesOn
  <1>5. CASE Push \/ StoreAdhocRun
    <2>1. /\ pc \in {"push", "store"} /\ UNCHANGED rep /\ Settled /\ (pc = "push" => steps[n] # "no_client" /\ ~Adhoc)
          /\ (pc = "store" => Adhoc) /\ pc' = (IF pc = "push" THEN "write" ELSE "answer")
      BY <1>1, <1>5 DEF Push, StoreAdhocRun, ReportInv
    <2>2. remote'[n] \in {"none", rep.status} /\ (pc = "store" /\ ~job.postgres /\ Marshals(rep) => remote'[n] = rep.status)
      BY <1>1, <1>3, <1>5 DEF Push, StoreAdhocRun
    <2>3. Settled' = Settled /\ Marshals(rep)' = Marshals(rep)
      BY <1>2, <1>3, <2>1 DEF Settled, Marshals
    <2>4. rep.status \in Statuses \ {"none"} /\ "none" \in Statuses
      BY <2>1 DEF Settled, Statuses, Unset
    <2>5. StepsInv'
      BY <2>1 DEF StepsInv
    <2>6. ReportInv'
      BY <1>2, <1>3, <2>1, <2>2, <2>3, <2>4 DEF ReportInv
    <2>7. ShownIsTrue(n)'
      BY <1>2, <1>3, <2>1, <2>2 DEF ShownIsTrue, Settled, Unset
    <2> QED
      BY <1>1, <1>2, <1>3, <2>1, <2>2, <2>4, <2>5, <2>6, <2>7, GoesOn
  <1> QED
    BY <1>4, <1>5

\* The endpoint answers; a process that is killed says nothing.
LEMMA EndKeeps ==
    ASSUME RunInv, Answer \/ Killed
    PROVE  RunInv'
  <1>1. /\ pc # "done" /\ pc' = "done" /\ job \in Jobs /\ n \in DOMAIN job.files /\ ReportInv /\ VerdictIsEarned
        /\ UNCHANGED <<job, n, rep, remote, steps>>
    BY DEF RunInv, Answer, Killed
  <1>2. \A i \in DOMAIN job.files : ShownIsTrue(i)'
    BY <1>1 DEF VerdictIsEarned, ShownIsTrue, Green, Adhoc
  <1>3. Marshals(rep)' = Marshals(rep)
    BY <1>1 DEF Marshals
  <1>4. CASE Answer
    <2>1. pc = "answer" /\ exit' = IF steps[n] = "ok" THEN 200 ELSE 202
      BY <1>4 DEF Answer
    <2>2. VerdictIsEarned'
      BY <1>1, <1>2, <1>3, <2>1 DEF VerdictIsEarned, ReportInv
    <2> QED
      BY <1>1, <2>2 DEF RunInv
  <1>5. CASE Killed
    <2>1. exit' = 130
      BY <1>5 DEF Killed
    <2>2. VerdictIsEarned'
      BY <1>1, <1>2, <2>1 DEF VerdictIsEarned
    <2> QED
      BY <1>1, <2>2 DEF RunInv
  <1> QED
    BY <1>4, <1>5

LEMMA RunBegins ==
    ASSUME RunInit
    PROVE  RunInv
  <1>1. /\ job \in Jobs /\ pc = "load" /\ n = 1 /\ recorded = {} /\ rep = Blank /\ exit = Running
        /\ remote = [i \in DOMAIN job.files |-> "none"] /\ steps = [i \in DOMAIN job.files |-> "todo"]
    BY DEF RunInit
  <1>2. n \in DOMAIN job.files /\ DOMAIN job.files \subseteq Nat \ {0}
    <2>1. PICK T : T = Range(job.files)
      OBVIOUS
    <2>2. job.files \in Seq(T) /\ job.files # <<>>
      BY <1>1, <2>1, ScenarioRunAssumption
    <2> QED
      BY <1>1, <2>2
  <1>3. StepsInv /\ ReportInv /\ FilesInv
    <2>1. StepsInv
      BY <1>1, <1>2 DEF StepsInv
    <2>2. ReportInv
      BY <1>1, <1>2 DEF ReportInv
    <2>3. FilesInv
      BY <1>1, <1>2 DEF FilesInv
    <2> QED
      BY <2>1, <2>2, <2>3
  <1>4. VerdictIsEarned
    BY <1>1 DEF VerdictIsEarned, ShownIsTrue, Running, Unset
  <1>5. /\ steps \in [DOMAIN job.files -> {"todo", "ok", "failed", "invalid", "no_client"}]
        /\ remote \in [DOMAIN job.files -> Statuses]
    BY <1>1 DEF Statuses
  <1> QED
    BY <1>1, <1>2, <1>3, <1>4, <1>5 DEF RunInv

LEMMA RunStutters ==
    ASSUME RunInv, UNCHANGED runVars
    PROVE  RunInv'
  <1>1. UNCHANGED <<job, pc, n, step, recorded, rep, remote, failures, exit, steps>>
    BY DEF runVars
  <1>2. /\ File' = File /\ (Adhoc' <=> Adhoc) /\ (Marshals(rep)' <=> Marshals(rep))
        /\ \A i : Green(i)' <=> Green(i)
    BY <1>1 DEF File, Adhoc, Marshals, Green
  <1>3. (Settled' <=> Settled) /\ \A i : ShownIsTrue(i)' <=> ShownIsTrue(i)
    BY <1>1, <1>2 DEF Settled, ShownIsTrue
  <1>4. VerdictIsEarned' <=> VerdictIsEarned
    BY <1>1, <1>2, <1>3 DEF VerdictIsEarned
  <1>5. StepsInv' <=> StepsInv
    BY <1>1, <1>2 DEF StepsInv
  <1>6. ReportInv' <=> ReportInv
    BY <1>1, <1>2, <1>3 DEF ReportInv
  <1>7. FilesInv' <=> FilesInv
    BY <1>1, <1>2 DEF FilesInv
  <1> QED
    BY <1>1, <1>4, <1>5, <1>6, <1>7 DEF RunInv

\* The invariant of a run holds for every list of files, every number of steps
\* and checks, and wherever the context ends or the process dies.
THEOREM RunInvariance == RunSpec => []RunInv
  <1>1. RunInit => RunInv
    BY RunBegins
  <1>2. RunInv /\ [RunNext]_runVars => RunInv'
    <2>1. SUFFICES ASSUME RunInv, [RunNext]_runVars PROVE RunInv'
      OBVIOUS
    <2>2. CASE LoadFails
      BY <2>1, <2>2, LoadFailsKeeps
    <2>3. CASE Load \/ ClientFails \/ Build \/ Cancel \/ StepOK \/ StepFails \/ StepsEnd
      BY <2>1, <2>3, StepsKeep
    <2>4. CASE Verdict \/ Push \/ StoreAdhocRun
      BY <2>1, <2>4, VerdictKeeps
    <2>5. CASE Write \/ WriteFails
      BY <2>1, <2>5, WriteKeeps
    <2>6. CASE Answer \/ Killed
      BY <2>1, <2>6, EndKeeps
    <2>7. CASE UNCHANGED runVars
      BY <2>1, <2>7, RunStutters
    <2> QED
      BY <2>1, <2>2, <2>3, <2>4, <2>5, <2>6, <2>7 DEF RunNext
  <1> QED
    BY <1>1, <1>2, PTL DEF RunSpec

\* `edt run`, `edt batch-run` and the ad-hoc endpoint: exit code 0 and a "pass"
\* in the control plane are earned by the steps and the critical checks of every
\* file, a red run never exits with 0, and an answered ad-hoc run is stored.
THEOREM VerdictIsEarnedHolds == RunSpec => []VerdictIsEarned
  <1>1. RunInv => VerdictIsEarned
    BY DEF RunInv
  <1> QED
    BY <1>1, RunInvariance, PTL
-----------------------------------------------------------------------------
(* Types                                                                   *)

\* The report has its four fields: EXCEPT leaves them.
ReportFields == DOMAIN rep = {"error", "checks", "status", "exit"}

ReportTypeOK == rep.error \in BOOLEAN /\ rep.status \in Statuses /\ rep.exit \in 0..2 /\ ReportFields

LEMMA BlankType ==
    /\ Blank.error \in BOOLEAN /\ Blank.status \in Statuses /\ Blank.exit \in 0..2
    /\ DOMAIN Blank = {"error", "checks", "status", "exit"}
  BY DEF Blank, Statuses

LEMMA FinalizeType ==
    ASSUME NEW r, r.error \in BOOLEAN, DOMAIN r = {"error", "checks", "status", "exit"}
    PROVE  LET f == Finalize(r)
           IN  /\ f.error = r.error /\ f.checks = r.checks /\ f.status \in Statuses /\ f.exit \in 0..2
               /\ DOMAIN f = {"error", "checks", "status", "exit"}
  BY DEF Finalize, Statuses

\* What doRun returns ends the command or begins the next file.
LEMMA ReturnsTypes ==
    ASSUME RunInv, RunTypeOK, ReportFields, NEW code \in 0..2, Returns(code), UNCHANGED job
    PROVE  /\ n' \in DOMAIN job.files /\ step' \in 0..(File.steps + 1)' /\ recorded' \subseteq 1..File'.steps
           /\ pc' \in {"load", "done"} /\ ctx' \in {"live", "cancelled"} /\ ReportTypeOK'
           /\ failures' \subseteq DOMAIN job.files /\ exit' \in {Running, 0, 1, 2, 130, 200, 202, 400}
  <1>1. /\ job \in Jobs /\ n \in DOMAIN job.files /\ DOMAIN job.files = 1..Len(job.files) /\ Len(job.files) \in Nat
    BY JobFacts DEF RunInv
  <1>2. failures' \subseteq DOMAIN job.files
    BY <1>1 DEF Returns, RunTypeOK
  <1>3. CASE job.mode = "batch" /\ ~(n = Len(job.files) \/ (code # 0 /\ ~job.keepGoing))
    <2>1. /\ pc' = "load" /\ n' = n + 1 /\ step' = 0 /\ recorded' = {} /\ ctx' = "live" /\ rep' = Blank /\ exit' = exit
      BY <1>3 DEF Returns
    <2>2. n' \in DOMAIN job'.files
      BY <1>1, <1>3, <2>1
    <2>3. File'.steps \in Nat
      <3>1. job'.files[n'] = job.files[n + 1] /\ n + 1 \in DOMAIN job.files
        BY <2>1, <2>2
      <3>2. PICK T : T = Range(job.files)
        OBVIOUS
      <3>3. job.files \in Seq(T) /\ \A f \in T : f.steps \in Nat
        BY <1>1, <3>2, ScenarioRunAssumption
      <3> QED
        BY <3>1, <3>2, <3>3 DEF File, Range
    <2> QED
      BY <1>2, <2>1, <2>2, <2>3, BlankType DEF RunTypeOK, ReportTypeOK, ReportFields
  <1>4. CASE ~(job.mode = "batch" /\ ~(n = Len(job.files) \/ (code # 0 /\ ~job.keepGoing)))
    <2>1. pc' = "done" /\ UNCHANGED <<n, step, recorded, ctx, rep>>
      BY <1>4 DEF Returns
    <2>2. exit' \in {0, 1, code}
      BY <1>4 DEF Returns
    <2> QED
      BY <1>1, <1>2, <2>1, <2>2 DEF RunTypeOK, ReportTypeOK, ReportFields, File
  <1> QED
    BY <1>3, <1>4

LEMMA RunTypesKeep ==
    ASSUME RunInv, RunInv', RunTypeOK, ReportFields, [RunNext]_runVars
    PROVE  RunTypeOK' /\ ReportFields'
  <1> DEFINE Same == UNCHANGED <<job, n, failures, exit>>
             Pcs == {"load", "build", "steps", "checks", "push", "write", "store", "answer", "done"}
  <1>1. /\ job' \in Jobs /\ n' \in DOMAIN job'.files
        /\ steps' \in [DOMAIN job'.files -> {"todo", "ok", "failed", "invalid", "no_client"}]
        /\ remote' \in [DOMAIN job'.files -> Statuses]
    BY DEF RunInv
  <1>2. ReportTypeOK /\ File.steps \in Nat
    BY JobFacts DEF RunInv, RunTypeOK, ReportTypeOK
  <1>3. ASSUME NEW code \in 0..2, Returns(code), UNCHANGED job
        PROVE  RunTypeOK' /\ ReportFields'
    BY <1>1, <1>3, ReturnsTypes DEF RunTypeOK, ReportTypeOK
  <1>4. ASSUME Same, step' \in 0..(File.steps + 1), recorded' \subseteq 1..File.steps, pc' \in Pcs,
               ctx' \in {"live", "cancelled"}, ReportTypeOK'
        PROVE  RunTypeOK' /\ ReportFields'
    <2>1. File' = File /\ job' = job
      BY <1>4 DEF File
    <2> QED
      BY <1>1, <1>4, <2>1 DEF RunTypeOK, ReportTypeOK
  <1>5. ASSUME UNCHANGED <<job, n, step, recorded, rep, failures>>, pc' \in Pcs, ctx' \in {"live", "cancelled"},
                exit' \in {Running, 0, 1, 2, 130, 200, 202, 400}
         PROVE  RunTypeOK' /\ ReportFields'
    <2>1. File' = File /\ job' = job
      BY <1>5 DEF File
    <2> QED
      BY <1>1, <1>2, <1>5, <2>1 DEF RunTypeOK, ReportTypeOK, ReportFields
  <1>6. CASE LoadFails
    <2>1. CASE Adhoc
      <3>1. UNCHANGED <<job, n, step, recorded, ctx, rep, failures>> /\ pc' = "done" /\ exit' = 400
        BY <1>6, <2>1 DEF LoadFails
      <3> QED
        BY <1>5, <3>1 DEF RunTypeOK
    <2>2. CASE ~Adhoc
      BY <1>3, <1>6, <2>2 DEF LoadFails
    <2> QED
      BY <2>1, <2>2
  <1>7. CASE Write
    <2>1. PICK code \in 0..2 : Returns(code)
      BY <1>2, <1>7 DEF Write
    <2> QED
      BY <1>3, <1>7, <2>1 DEF Write
  <1>8. CASE WriteFails
    BY <1>3, <1>8 DEF WriteFails
  <1>9. CASE Load \/ Cancel \/ StepsEnd \/ Push \/ StoreAdhocRun
    <2>1. UNCHANGED <<job, n, step, recorded, rep, failures, exit>>
      BY <1>9 DEF Load, Cancel, StepsEnd, Push, StoreAdhocRun
    <2>2. pc' \in Pcs /\ ctx' \in {"live", "cancelled"}
      BY <1>9 DEF Load, Cancel, StepsEnd, Push, StoreAdhocRun, RunTypeOK
    <2>3. exit' \in {Running, 0, 1, 2, 130, 200, 202, 400}
      BY <2>1 DEF RunTypeOK
    <2> QED
      BY <1>5, <2>1, <2>2, <2>3
  <1>10. CASE Build
    BY <1>2, <1>4, <1>10 DEF Build, RunTypeOK, ReportTypeOK, ReportFields
  <1>11. CASE ClientFails
    <2>1. ReportTypeOK'
      BY <1>2, <1>11, FinalizeType DEF ClientFails, ReportTypeOK, ReportFields
    <2> QED
      BY <1>4, <1>11, <2>1 DEF ClientFails, RunTypeOK
  <1>12. CASE StepOK \/ StepFails
    <2>1. pc = "steps" /\ step <= File.steps /\ step \in 1..File.steps
      BY <1>2, <1>12 DEF StepOK, StepFails, RunInv, StepsInv
    <2>2. ReportTypeOK'
      BY <1>2, <1>12 DEF StepOK, StepFails, ReportTypeOK, ReportFields
    <2>3. recorded' \subseteq 1..File.steps /\ step' \in 0..(File.steps + 1)
      BY <1>2, <1>12, <2>1 DEF StepOK, StepFails, RunTypeOK
    <2> QED
      BY <1>4, <1>12, <2>2, <2>3 DEF StepOK, StepFails, RunTypeOK
  <1>13. CASE Verdict
    <2>1. ReportTypeOK'
      <3>1. CASE Adhoc /\ rep.error
        <4> DEFINE r == Finalize(rep)
        <4>1. r.error \in BOOLEAN /\ r.status \in Statuses /\ r.exit \in 0..2 /\ DOMAIN r = {"error", "checks", "status", "exit"}
          BY <1>2, FinalizeType DEF ReportTypeOK, ReportFields
        <4>2. rep' = [r EXCEPT !.checks = EvaluateAll]
          BY <1>13, <3>1 DEF Verdict
        <4> HIDE DEF r
        <4> QED
          BY <4>1, <4>2 DEF ReportTypeOK, ReportFields
      <3>2. CASE ~(Adhoc /\ rep.error)
        <4> DEFINE r == [rep EXCEPT !.checks = EvaluateAll]
        <4>1. r.error \in BOOLEAN /\ DOMAIN r = {"error", "checks", "status", "exit"}
          BY <1>2 DEF ReportTypeOK, ReportFields
        <4>2. rep' = Finalize(r)
          BY <1>13, <3>2 DEF Verdict
        <4> HIDE DEF r
        <4> QED
          BY <4>1, <4>2, FinalizeType DEF ReportTypeOK, ReportFields
      <3> QED
        BY <3>1, <3>2
    <2> QED
      BY <1>4, <1>13, <2>1 DEF Verdict, RunTypeOK
  <1>14. CASE Answer \/ Killed
    <2>1. UNCHANGED <<job, n, step, recorded, ctx, rep, failures>> /\ pc' = "done" /\ exit' \in {130, 200, 202}
      BY <1>14 DEF Answer, Killed
    <2> QED
      BY <1>5, <2>1 DEF RunTypeOK
  <1>15. CASE UNCHANGED runVars
    BY <1>2, <1>4, <1>15 DEF runVars, RunTypeOK, ReportTypeOK, ReportFields
  <1> QED
    BY <1>6, <1>7, <1>8, <1>9, <1>10, <1>11, <1>12, <1>13, <1>14, <1>15 DEF RunNext

\* The run never stands at a file, a step or an exit code there is not.
THEOREM RunTypeCorrect == RunSpec => []RunTypeOK
  <1>1. RunInit => RunTypeOK /\ ReportFields
    <2> SUFFICES ASSUME RunInit PROVE RunTypeOK /\ ReportFields
      OBVIOUS
    <2>1. RunInv
      BY RunBegins
    <2>2. File.steps \in Nat
      BY <2>1, JobFacts DEF RunInv
    <2> QED
      BY <2>1, <2>2, BlankType DEF RunInit, RunInv, RunTypeOK, ReportFields
  <1>2. RunInv /\ RunInv' /\ RunTypeOK /\ ReportFields /\ [RunNext]_runVars => RunTypeOK' /\ ReportFields'
    BY RunTypesKeep
  <1> QED
    BY <1>1, <1>2, RunInvariance, PTL DEF RunSpec
-----------------------------------------------------------------------------
(* The operators of checks: parts of a pattern                             *)

LEMMA NoneIsSeq ==
    ASSUME NEW T
    PROVE  <<>> \in Seq(T)
  OBVIOUS

LEMMA Appended ==
    ASSUME NEW T, NEW s \in Seq(T), NEW z \in T, NEW s1, s1 = Append(s, z)
    PROVE  /\ Len(s) \in Nat /\ DOMAIN s = 1..Len(s) /\ DOMAIN s1 = 1..Len(s) + 1 /\ s1[Len(s) + 1] = z
           /\ \A k \in DOMAIN s : s1[k] = s[k] /\ k \in DOMAIN s1
           /\ \A k \in DOMAIN s1 : k \in DOMAIN s \/ k = Len(s) + 1
           /\ Len(s) + 1 \in DOMAIN s1 /\ Len(s) + 1 \notin DOMAIN s
  OBVIOUS

LEMMA StreamFacts ==
    ASSUME OperatorsTypeOK
    PROVE  /\ Len(from) \in Nat /\ DOMAIN from = 1..Len(from) /\ Len(to) \in Nat /\ DOMAIN to = 1..Len(to)
           /\ \A i \in DOMAIN from : from[i].ts \in Nat /\ from[i].ts \in Times
           /\ \A j \in DOMAIN to : to[j].ts \in Nat /\ to[j].ts \in Times
           /\ Len(pairs) \in Nat /\ DOMAIN pairs = 1..Len(pairs)
           /\ \A k \in DOMAIN pairs : pairs[k] = <<pairs[k][1], pairs[k][2]>>
                                      /\ pairs[k][1] \in DOMAIN from /\ pairs[k][2] \in DOMAIN to
  <1>1. Times \subseteq Nat
    BY CheckOperatorsAssumption
  <1>2. \A ev \in Event : ev.ts \in Times
    BY DEF Event
  <1>3. from \in Seq(Event) /\ to \in Seq(Event)
    BY DEF OperatorsTypeOK
  <1>4. PICK T : T = (DOMAIN from) \X (DOMAIN to)
    OBVIOUS
  <1>5. pairs \in Seq(T)
    BY <1>4 DEF OperatorsTypeOK
  <1>6. \A k \in DOMAIN pairs : pairs[k] \in T
    BY <1>5
  <1>7. \A m \in T : m = <<m[1], m[2]>> /\ m[1] \in DOMAIN from /\ m[2] \in DOMAIN to
    BY <1>4
  <1>8. Len(pairs) \in Nat /\ DOMAIN pairs = 1..Len(pairs)
    BY <1>5
  <1> QED
    BY <1>1, <1>2, <1>3, <1>6, <1>7, <1>8

\* The characters of a word and their number.
LEMMA SubSeqFacts ==
    ASSUME NEW T, NEW s \in Seq(T), NEW i \in Nat, NEW j \in Nat, i >= 1, i <= j + 1, j <= Len(s)
    PROVE  /\ SubSeq(s, i, j) \in Seq(T) /\ Len(SubSeq(s, i, j)) = j - i + 1
           /\ \A k \in 1..j - i + 1 : SubSeq(s, i, j)[k] = s[i + k - 1]
           /\ (SubSeq(s, i, j) = <<>> <=> i = j + 1)
  OBVIOUS

-----------------------------------------------------------------------------
(* The operators of checks: types                                          *)

LEMMA OperatorTypesKeep ==
    ASSUME OperatorsTypeOK, LatencyInv, GlobInv, OperatorsNext
    PROVE  OperatorsTypeOK'
  <1> USE DEF OperatorsTypeOK
  <1>1. doing = "record" => pairs = <<>> /\ turn = 0 /\ pos = 0
    BY DEF LatencyInv
  <1>2. CASE RecordFrom \/ RecordTo
    <2>1. UNCHANGED <<subject, list, pattern, path, doing, turn, pairs, pos>> /\ pairs = <<>>
      BY <1>1, <1>2 DEF RecordFrom, RecordTo, Records
    <2>2. from' \in Seq(Event) /\ to' \in Seq(Event)
      <3>1. PICK T : T = Event
        OBVIOUS
      <3>2. from \in Seq(T) /\ to \in Seq(T)
        BY <3>1
      <3>3. \A ev \in T : Append(from, ev) \in Seq(T) /\ Append(to, ev) \in Seq(T)
        BY <3>2
      <3>4. from' = from \/ \E ev \in T : from' = Append(from, ev)
        BY <1>2, <3>1 DEF RecordFrom, RecordTo
      <3>5. to' = to \/ \E ev \in T : to' = Append(to, ev)
        BY <1>2, <3>1 DEF RecordFrom, RecordTo
      <3> QED
        BY <3>1, <3>2, <3>3, <3>4, <3>5
    <2>3. pairs' \in Seq((DOMAIN from') \X (DOMAIN to'))
      <3>1. PICK T : T = (DOMAIN from') \X (DOMAIN to')
        OBVIOUS
      <3>2. pairs' = <<>> /\ <<>> \in Seq(T)
        BY <2>1, NoneIsSeq
      <3> QED
        BY <3>1, <3>2
    <2> QED
      BY <2>1, <2>2, <2>3
  <1>3. CASE RecordValue
    BY <1>3 DEF RecordValue, Records
  <1>4. CASE WritePattern
    BY <1>4 DEF WritePattern, Records
  <1>5. CASE WritePath
    <2>1. path' \in Seq(Alphabet) /\ pos' = 0 /\ UNCHANGED <<subject, from, to, list, pattern, doing, turn, pairs>>
      BY <1>1, <1>5 DEF WritePath, Records
    <2>2. Len(path') \in Nat
      BY <2>1
    <2> QED
      BY <2>1, <2>2
  <1>6. CASE CallLatency \/ LatencyReturns \/ CallPercentile
    BY <1>6 DEF CallLatency, LatencyReturns, CallPercentile, inputVars
  <1>7. CASE Pair
    <2>1. PICK i : i = order[turn + 1]
      OBVIOUS
    <2>2. UNCHANGED <<inputVars, doing, pos>> /\ turn' = turn + 1 /\ doing = "pair" /\ turn < Len(from)
          /\ (pairs' = pairs \/ \E j \in Later(i) : pairs' = Append(pairs, <<i, j>>))
      BY <1>7, <2>1 DEF Pair
    <2>3. i \in DOMAIN from
      <3>1. order \in [DOMAIN from -> DOMAIN from] /\ turn + 1 \in DOMAIN from
        BY <2>2 DEF LatencyInv, Bijection, Injection
      <3> QED
        BY <2>1, <3>1
    <2>4. pairs' \in Seq((DOMAIN from) \X (DOMAIN to))
      <3>1. PICK T : T = (DOMAIN from) \X (DOMAIN to)
        OBVIOUS
      <3>2. \A j \in Later(i) : <<i, j>> \in T
        BY <2>3, <3>1 DEF Later
      <3>3. pairs \in Seq(T) /\ \A m \in T : Append(pairs, m) \in Seq(T)
        BY <3>1
      <3> QED
        BY <2>2, <3>1, <3>2, <3>3
    <2> QED
      BY <2>2, <2>4 DEF inputVars
  <1>8. CASE CallHTTP \/ ScanEnds
    BY <1>8 DEF CallHTTP, ScanEnds, inputVars
  <1>9. CASE Scan
    <2>1. /\ UNCHANGED <<inputVars, pairs>> /\ doing' \in {"scan", "skipped"}
          /\ \/ turn' = turn
             \/ \E stop \in turn..Len(pattern) + 1 : turn' = stop + 1
          /\ pos' = pos \/ \E word : pos' \in EndsOf(word, pos) /\ Len(word) \in Nat
      <3>1. PICK stop \in turn..Len(pattern) + 1 : \E word :
                /\ word = SubSeq(pattern, turn, stop - 1)
                /\ \/ word = <<>> /\ turn' = stop + 1 /\ UNCHANGED <<doing, pos>>
                   \/ doing' = "skipped" /\ UNCHANGED <<turn, pos>>
                   \/ \E q \in EndsOf(word, pos) :
                         \/ doing' = "skipped" /\ UNCHANGED <<turn, pos>>
                         \/ turn' = stop + 1 /\ pos' = q /\ UNCHANGED doing
        BY <1>9 DEF Scan
      <3>2. stop \in Nat /\ turn \in Nat /\ Len(pattern) \in Nat
        OBVIOUS
      <3>3. Len(SubSeq(pattern, turn, stop - 1)) \in Nat
        BY <3>2, <1>9, SubSeqFacts DEF Scan, GlobInv
      <3> QED
        BY <1>9, <3>1, <3>3 DEF Scan
    <2>2. pos' \in 0..Len(path)
      BY <2>1 DEF EndsOf
    <2>3. turn' \in Nat
      BY <2>1
    <2> QED
      BY <2>1, <2>2, <2>3 DEF inputVars
  <1> QED
    BY <1>2, <1>3, <1>4, <1>5, <1>6, <1>7, <1>8, <1>9 DEF OperatorsNext

-----------------------------------------------------------------------------
(* latency                                                                 *)

LEMMA PairKeeps ==
    ASSUME OperatorsTypeOK, LatencyInv, Pair
    PROVE  LatencyInv'
  <1>1. PICK i, m : i = order[turn + 1] /\ m = Len(pairs)
    OBVIOUS
  <1>2. /\ UNCHANGED <<inputVars, doing, order>> /\ turn' = turn + 1 /\ doing = "pair" /\ turn < Len(from)
        /\ \/ Later(i) = {} /\ pairs' = pairs
           \/ \E j \in Later(i) : (\A l \in Later(i) : to[j].ts <= to[l].ts) /\ pairs' = Append(pairs, <<i, j>>)
    BY <1>1 DEF Pair
  <1>3. /\ order \in [DOMAIN from -> DOMAIN from] /\ turn \in Nat /\ Len(from) \in Nat /\ DOMAIN from = 1..Len(from)
        /\ \A s, t \in DOMAIN from : order[s] = order[t] => s = t
        /\ order \in Bijection(DOMAIN from, DOMAIN from)
    BY <1>2 DEF OperatorsTypeOK, LatencyInv, Bijection, Injection, IsInjective
  <1>4. turn + 1 \in DOMAIN from /\ i \in DOMAIN from /\ 1..turn \subseteq DOMAIN from /\ turn + 1 \notin 1..turn
        /\ 1..turn' = 1..turn \cup {turn + 1}
    BY <1>1, <1>2, <1>3
  <1>5. /\ \A k \in DOMAIN pairs : \E t \in 1..turn : order[t] = pairs[k][1]
        /\ \A t \in 1..turn : HasHadTurn(order[t])
    BY <1>2 DEF LatencyInv
  <1>6. \A k \in DOMAIN pairs : pairs[k][1] # i
    BY <1>1, <1>3, <1>4, <1>5
  <1>7. CASE Later(i) = {} /\ pairs' = pairs
    <2>1. \A z : Later(z)' = Later(z)
      BY <1>2, <1>7 DEF Later, Answered, inputVars
    <2>2. \A z : HasHadTurn(z)' <=> HasHadTurn(z)
      BY <1>7, <2>1 DEF HasHadTurn
    <2>3. HasHadTurn(i)
      BY <1>7 DEF HasHadTurn
    <2>4. \A t \in 1..turn' : HasHadTurn(order[t])'
      <3>1. order' = order
        BY <1>2
      <3>2. \A t \in 1..turn' : HasHadTurn(order[t])
        BY <1>1, <1>4, <1>5, <2>3
      <3> QED
        BY <2>2, <3>1, <3>2
    <2>5. \A k \in DOMAIN pairs' : \E t \in 1..turn' : order'[t] = pairs'[k][1]
      BY <1>2, <1>4, <1>5, <1>7
    <2>6. turn' <= Len(from')
      BY <1>2, <1>3 DEF inputVars
    <2> QED
      BY <1>2, <1>3, <1>7, <2>1, <2>4, <2>5, <2>6 DEF LatencyInv, Duration, inputVars
  <1>8. CASE Later(i) # {}
    <2>1. PICK j \in Later(i) : (\A l \in Later(i) : to[j].ts <= to[l].ts) /\ pairs' = Append(pairs, <<i, j>>)
      BY <1>2, <1>8
    <2>2. /\ pairs'[m + 1] = <<i, j>> /\ m + 1 \in DOMAIN pairs' /\ m + 1 \notin DOMAIN pairs
          /\ \A k \in DOMAIN pairs : pairs'[k] = pairs[k] /\ k \in DOMAIN pairs'
          /\ \A k \in DOMAIN pairs' : k \in DOMAIN pairs \/ k = m + 1
      <3>1. PICK T : T = (DOMAIN from) \X (DOMAIN to)
        OBVIOUS
      <3>2. pairs \in Seq(T) /\ <<i, j>> \in T
        BY <1>4, <2>1, <3>1 DEF OperatorsTypeOK, Later
      <3> QED
        BY <1>1, <2>1, <3>2, Appended
    <2>3. j \in DOMAIN to /\ j \notin Answered /\ to[j].key = from[i].key /\ to[j].ts >= from[i].ts
      BY <2>1 DEF Later
    <2>4. to[j].ts \in Nat /\ from[i].ts \in Nat
      BY <1>4, <2>3, StreamFacts
    <2>5. Answered' = Answered \cup {j}
      BY <2>2 DEF Answered
    <2>6. \A z : Later(z)' = Later(z) \ {j}
      BY <1>2, <2>5 DEF Later, inputVars
    <2>7. \A k \in DOMAIN pairs : pairs[k][2] # j
      BY <2>3 DEF Answered
    <2>8. \A z : HasHadTurn(z) => HasHadTurn(z)'
      <3>1. ASSUME NEW z, HasHadTurn(z)
            PROVE  HasHadTurn(z)'
        <4>1. CASE Later(z) = {}
          BY <2>6, <4>1 DEF HasHadTurn
        <4>2. CASE \E k \in DOMAIN pairs : z = pairs[k][1]
          BY <2>2, <4>2 DEF HasHadTurn
        <4> QED
          BY <3>1, <4>1, <4>2 DEF HasHadTurn
      <3> QED
        BY <3>1
    <2>9. HasHadTurn(i)'
      <3>1. pairs'[m + 1][1] = i /\ m + 1 \in DOMAIN pairs'
        BY <2>2
      <3> QED
        BY <3>1 DEF HasHadTurn
    <2>10. \A t \in 1..turn' : HasHadTurn(order[t])'
      <3>1. order' = order
        BY <1>2
      <3>2. \A t \in 1..turn' : HasHadTurn(order[t]) \/ order[t] = i
        BY <1>1, <1>4, <1>5
      <3> QED
        BY <2>8, <2>9, <3>1, <3>2
    <2>11. \A k \in DOMAIN pairs' : \E t \in 1..turn' : order'[t] = pairs'[k][1]
      <3>1. \A k \in DOMAIN pairs : \E t \in 1..turn' : order[t] = pairs[k][1]
        BY <1>4, <1>5
      <3>2. turn + 1 \in 1..turn' /\ order[turn + 1] = i
        BY <1>1, <1>4
      <3> QED
        BY <1>2, <2>2, <3>1, <3>2
    <2>12. \A k \in DOMAIN pairs' : from'[pairs'[k][1]].key = to'[pairs'[k][2]].key /\ Duration(pairs[k])' >= 0
      <3>1. \A k \in DOMAIN pairs : from[pairs[k][1]].key = to[pairs[k][2]].key /\ Duration(pairs[k]) >= 0
        BY DEF LatencyInv
      <3>2. from' = from /\ to' = to
        BY <1>2 DEF inputVars
      <3>3. \A k \in DOMAIN pairs : from'[pairs'[k][1]].key = to'[pairs'[k][2]].key /\ Duration(pairs[k])' >= 0
        BY <2>2, <3>1, <3>2 DEF Duration
      <3>4. from'[i].key = to'[j].key /\ to'[j].ts - from'[i].ts >= 0
        BY <2>3, <2>4, <3>2
      <3>5. pairs'[m + 1][1] = i /\ pairs'[m + 1][2] = j
        BY <2>2
      <3> QED
        BY <2>2, <3>3, <3>4, <3>5 DEF Duration
    <2>13. \A k, l \in DOMAIN pairs' : k # l => pairs'[k][1] # pairs'[l][1] /\ pairs'[k][2] # pairs'[l][2]
      <3>1. \A k, l \in DOMAIN pairs : k # l => pairs[k][1] # pairs[l][1] /\ pairs[k][2] # pairs[l][2]
        BY DEF LatencyInv
      <3>2. pairs'[m + 1][1] = i /\ pairs'[m + 1][2] = j
        BY <2>2
      <3> QED
        BY <1>6, <2>2, <2>7, <3>1, <3>2
    <2>14. \A k \in DOMAIN pairs' : \A l \in Later(pairs[k][1])' : to'[pairs'[k][2]].ts <= to'[l].ts
      <3>1. \A k \in DOMAIN pairs : \A l \in Later(pairs[k][1]) : to[pairs[k][2]].ts <= to[l].ts
        BY DEF LatencyInv
      <3>2. to' = to
        BY <1>2 DEF inputVars
      <3>3. pairs'[m + 1][1] = i /\ pairs'[m + 1][2] = j
        BY <2>2
      <3>4. ASSUME NEW k \in DOMAIN pairs', NEW l \in Later(pairs'[k][1]) \ {j}
            PROVE  to[pairs'[k][2]].ts <= to[l].ts
        BY <2>1, <2>2, <3>1, <3>3
      <3>5. \A k \in DOMAIN pairs' : Later(pairs[k][1])' = Later(pairs'[k][1]) \ {j}
        BY <2>6
      <3> QED
        BY <3>2, <3>4, <3>5
    <2>15. turn' <= Len(from')
      BY <1>2, <1>3 DEF inputVars
    <2> QED
      BY <1>2, <1>3, <2>10, <2>11, <2>12, <2>13, <2>14, <2>15 DEF LatencyInv, inputVars
  <1> QED
    BY <1>2, <1>7, <1>8

\* Every step but that of the loop leaves what was paired alone.
LEMMA LatencyKeeps ==
    ASSUME OperatorsTypeOK, LatencyInv, OperatorsNext
    PROVE  LatencyInv'
  <1>1. CASE Pair
    BY <1>1, PairKeeps
  <1>2. CASE doing = "record" /\ pairs' = pairs
    <2>1. pairs = <<>> /\ turn = 0 /\ pos = 0 /\ pairs' = <<>> /\ DOMAIN pairs' = {}
      BY <1>2 DEF LatencyInv
    <2>2. doing' = "record" => turn' = 0 /\ pos' = 0
      BY <1>2, <2>1 DEF OperatorsNext, RecordFrom, RecordTo, RecordValue, WritePattern, WritePath, Records, CallLatency, Pair,
                        LatencyReturns, CallPercentile, CallHTTP, Scan, ScanEnds
    <2>3. doing' = "pair" => CallLatency
      BY <1>2 DEF OperatorsNext, RecordFrom, RecordTo, RecordValue, WritePattern, WritePath, Records, Pair,
                        LatencyReturns, CallPercentile, CallHTTP, Scan, ScanEnds
    <2>4. ASSUME CallLatency
          PROVE  order' \in Bijection(DOMAIN from', DOMAIN from') /\ turn' <= Len(from') /\ 1..turn' = {}
      <3>1. from' = from /\ turn' = 0 /\ order' \in Orders([i \in DOMAIN from |-> from[i].ts]) /\ Len(from) \in Nat
        BY <2>1, <2>4, StreamFacts DEF CallLatency, inputVars
      <3> QED
        BY <3>1 DEF Orders
    <2>5. subject' = "latency" => doing' \notin {"paired", "refused", "sorted"}
      BY <1>2 DEF OperatorsNext, RecordFrom, RecordTo, RecordValue, WritePattern, WritePath, Records, CallLatency, Pair,
                        LatencyReturns, CallPercentile, CallHTTP, Scan, ScanEnds, inputVars
    <2> QED
      BY <2>1, <2>2, <2>3, <2>4, <2>5 DEF LatencyInv
  <1>3. CASE doing # "record" /\ UNCHANGED <<subject, from, to, pairs>> /\ (doing' = "pair" => UNCHANGED <<doing, order, turn>>)
             /\ doing' # "record"
             /\ (doing' \in {"paired", "refused", "sorted"} /\ subject = "latency" =>
                     doing \in {"paired", "refused", "sorted"} \/ LatencyReturns)
    <2>1. (\A z : Later(z)' = Later(z)) /\ \A z : HasHadTurn(z)' <=> HasHadTurn(z)
      BY <1>3 DEF Later, Answered, HasHadTurn
    <2>2. LatencyReturns => \A i \in DOMAIN from : HasHadTurn(i)
      <3>1. SUFFICES ASSUME LatencyReturns, NEW i \in DOMAIN from
                     PROVE  HasHadTurn(i)
        OBVIOUS
      <3>2. order \in Surjection(DOMAIN from, DOMAIN from) /\ \A t \in 1..Len(from) : HasHadTurn(order[t])
        BY <3>1 DEF LatencyReturns, LatencyInv, Bijection
      <3>3. PICK t \in DOMAIN from : order[t] = i
        BY <3>2 DEF Surjection
      <3> QED
        BY <3>2, <3>3, StreamFacts
    <2>3. subject' = "latency" /\ doing' \in {"paired", "refused", "sorted"} => \A i \in DOMAIN from : HasHadTurn(i)
      BY <1>3, <2>2 DEF LatencyInv
    <2>4. doing' = "pair" => doing = "pair" /\ order' = order /\ turn' = turn
      BY <1>3
    <2>5. /\ \A k \in DOMAIN pairs : from[pairs[k][1]].key = to[pairs[k][2]].key /\ Duration(pairs[k]) >= 0
          /\ \A k, l \in DOMAIN pairs : k # l => pairs[k][1] # pairs[l][1] /\ pairs[k][2] # pairs[l][2]
          /\ \A k \in DOMAIN pairs : \A j \in Later(pairs[k][1]) : to[pairs[k][2]].ts <= to[j].ts
      BY DEF LatencyInv
    <2>6. /\ \A k \in DOMAIN pairs' : from'[pairs'[k][1]].key = to'[pairs'[k][2]].key /\ Duration(pairs[k])' >= 0
          /\ \A k, l \in DOMAIN pairs' : k # l => pairs'[k][1] # pairs'[l][1] /\ pairs'[k][2] # pairs'[l][2]
          /\ \A k \in DOMAIN pairs' : \A j \in Later(pairs[k][1])' : to'[pairs'[k][2]].ts <= to'[j].ts
      <3>1. from' = from /\ to' = to /\ pairs' = pairs
        BY <1>3
      <3> QED
        BY <2>1, <2>5, <3>1 DEF Duration
    <2>7. doing' = "pair" =>
              /\ order' \in Bijection(DOMAIN from', DOMAIN from') /\ turn' <= Len(from')
              /\ \A k \in DOMAIN pairs' : \E t \in 1..turn' : order'[t] = pairs'[k][1]
              /\ \A t \in 1..turn' : HasHadTurn(order[t])'
      <3>1. SUFFICES ASSUME doing' = "pair"
                     PROVE  /\ order' \in Bijection(DOMAIN from', DOMAIN from') /\ turn' <= Len(from')
                            /\ \A k \in DOMAIN pairs' : \E t \in 1..turn' : order'[t] = pairs'[k][1]
                            /\ \A t \in 1..turn' : HasHadTurn(order[t])'
        OBVIOUS
      <3>2. from' = from /\ pairs' = pairs /\ order' = order /\ turn' = turn /\ doing = "pair"
        BY <1>3, <2>4, <3>1
      <3>3. /\ order \in Bijection(DOMAIN from, DOMAIN from) /\ turn <= Len(from)
            /\ \A k \in DOMAIN pairs : \E t \in 1..turn : order[t] = pairs[k][1]
            /\ \A t \in 1..turn : HasHadTurn(order[t])
        BY <3>2 DEF LatencyInv
      <3>4. \A t \in 1..turn : HasHadTurn(order[t])'
        BY <2>1, <3>2, <3>3
      <3> QED
        BY <3>2, <3>3, <3>4
    <2>8. subject' = "latency" /\ doing' \in {"paired", "refused", "sorted"} => \A i \in DOMAIN from' : HasHadTurn(i)'
      BY <1>3, <2>1, <2>3
    <2> QED
      BY <1>3, <2>6, <2>7, <2>8 DEF LatencyInv
  <1>4. CASE doing # "record" /\ ~Pair
    <2>1. UNCHANGED <<subject, from, to, pairs>>
      BY <1>4 DEF OperatorsNext, RecordFrom, RecordTo, RecordValue, WritePattern, WritePath, Records, CallLatency,
                  LatencyReturns, CallPercentile, CallHTTP, Scan, ScanEnds, inputVars
    <2>2. doing' = "pair" => UNCHANGED <<doing, order, turn>>
      BY <1>4 DEF OperatorsNext, RecordFrom, RecordTo, RecordValue, WritePattern, WritePath, Records, CallLatency,
                  LatencyReturns, CallPercentile, CallHTTP, Scan, ScanEnds, inputVars
    <2>3. doing' # "record"
      BY <1>4 DEF OperatorsNext, RecordFrom, RecordTo, RecordValue, WritePattern, WritePath, Records, CallLatency,
                  LatencyReturns, CallPercentile, CallHTTP, Scan, ScanEnds, inputVars
    <2>4. doing' \in {"paired", "refused", "sorted"} /\ subject = "latency" =>
              doing \in {"paired", "refused", "sorted"} \/ LatencyReturns
      BY <1>4 DEF OperatorsNext, RecordFrom, RecordTo, RecordValue, WritePattern, WritePath, Records, CallLatency,
                  CallPercentile, CallHTTP, Scan, ScanEnds, inputVars
    <2> QED
      BY <1>3, <1>4, <2>1, <2>2, <2>3, <2>4
  <1>5. doing = "record" => pairs' = pairs
    BY DEF OperatorsNext, RecordFrom, RecordTo, RecordValue, WritePattern, WritePath, Records, CallLatency, Pair,
           LatencyReturns, CallPercentile, CallHTTP, Scan, ScanEnds, inputVars
  <1> QED
    BY <1>1, <1>2, <1>4, <1>5

-----------------------------------------------------------------------------
(* percentile                                                              *)

\* Nothing but the call sorts or refuses, and it leaves alone what it sorts.
LEMMA PercentileKeeps ==
    ASSUME OperatorsNext
    PROVE  PercentileInv'
  <1>1. doing' \in {"refused", "sorted"} => CallPercentile
    BY DEF OperatorsNext, RecordFrom, RecordTo, RecordValue, WritePattern, WritePath, Records, CallLatency, Pair,
           LatencyReturns, CallHTTP, Scan, ScanEnds, inputVars
  <1>2. CASE CallPercentile
    <2>1. UNCHANGED <<subject, from, to, list, pairs>>
      BY <1>2 DEF CallPercentile, inputVars
    <2>2. Sample' = Sample /\ (NotNum' <=> NotNum)
      BY <2>1 DEF Sample, NotNum, Latencies, Numbers, Duration
    <2>3. Orders(Sample)' = Orders(Sample)
      BY <2>2 DEF Orders
    <2> QED
      BY <1>2, <2>2, <2>3 DEF CallPercentile, PercentileInv
  <1> QED
    BY <1>1, <1>2 DEF PercentileInv

-----------------------------------------------------------------------------
(* http                                                                    *)

\* A set of numbers has a least one.
LEMMA LeastNat ==
    ASSUME NEW S \in SUBSET Nat, S # {}
    PROVE  \E i \in S : \A j \in S : i <= j
  <1> DEFINE R == OpToRel(<, Nat)
  <1>1. IsWellFoundedOn(R, Nat)
    BY NatLessThanWellFounded, Zenon
  <1>2. \A z, w \in Nat : w < z => <<w, z>> \in R
    BY Zenon DEF OpToRel
  <1> HIDE DEF R
  <1>3. PICK z \in S : \A w \in S : ~(<<w, z>> \in R)
    BY <1>1, WFMin
  <1>4. ASSUME NEW w \in S
        PROVE  z <= w
    <2>1. z \in Nat /\ w \in Nat
      OBVIOUS
    <2>2. ~(w < z)
      BY <1>2, <1>3, <2>1
    <2> QED
      BY <2>1, <2>2
  <1> QED
    BY <1>4

LEMMA TextFacts ==
    ASSUME OperatorsTypeOK
    PROVE  /\ Len(pattern) \in Nat /\ DOMAIN pattern = 1..Len(pattern) /\ Len(path) \in Nat /\ pos \in 0..Len(path)
           /\ turn \in Nat /\ \A i \in 1..Len(path) : path[i] # Star
           /\ pattern \in Seq(Alphabet \cup {Star}) /\ path \in Seq(Alphabet)
  BY CheckOperatorsAssumption DEF OperatorsTypeOK

\* Characters that are no star match as many in a row.
LEMMA RunsFit ==
    ASSUME OperatorsTypeOK, NEW m \in 0..Len(pattern), NEW e \in [0..m -> 0..Len(path)], Fits(e, m),
           NEW b \in 1..m + 1, NEW s \in b..m + 1, \A i \in b..s - 1 : pattern[i] # Star
    PROVE  \A k \in 0..s - b : e[b - 1 + k] = e[b - 1] + k
  <1> DEFINE K == {k \in 0..s - b : e[b - 1 + k] # e[b - 1] + k}
  <1>1. m \in Nat /\ b \in Nat /\ s \in Nat /\ Len(path) \in Nat /\ b - 1 \in 0..m
    BY TextFacts
  <1>2. ASSUME K # {}
        PROVE  FALSE
    <2>1. PICK k \in K : \A j \in K : k <= j
      <3>1. K \in SUBSET Nat
        BY <1>1
      <3> QED
        BY <1>2, <3>1, LeastNat
    <2>2. k \in 0..s - b /\ k \in Nat /\ e[b - 1 + k] # e[b - 1] + k
      BY <1>1, <2>1
    <2>3. k # 0
      BY <1>1, <2>2
    <2>4. k - 1 \in 0..s - b /\ k - 1 \notin K
      BY <1>1, <2>1, <2>2, <2>3
    <2>5. e[b - 1 + (k - 1)] = e[b - 1] + (k - 1)
      BY <2>4
    <2>6. b - 1 + k \in b..s - 1 /\ b - 1 + k \in 1..m /\ (b - 1 + k) - 1 = b - 1 + (k - 1)
      BY <1>1, <2>2, <2>3
    <2>7. e[b - 1 + k] = e[(b - 1 + k) - 1] + 1
      BY <2>6 DEF Fits
    <2>8. e[b - 1] \in Int
      BY <1>1
    <2> QED
      BY <1>1, <2>2, <2>5, <2>6, <2>7, <2>8
  <1> QED
    BY <1>2

\* A path the pattern matches has every word of it.
LEMMA PartsOccur ==
    ASSUME OperatorsTypeOK, NEW m \in 0..Len(pattern), NEW e \in [0..m -> 0..Len(path)], Fits(e, m),
           NEW b \in 1..m + 1, NEW s \in b..m + 1, \A i \in b..s - 1 : pattern[i] # Star,
           NEW p \in Nat, p <= e[b - 1]
    PROVE  e[s - 1] \in EndsOf(SubSeq(pattern, b, s - 1), p) /\ e[s - 1] = e[b - 1] + (s - b)
  <1>1. m \in Nat /\ b \in Nat /\ s \in Nat /\ Len(path) \in Nat /\ Len(pattern) \in Nat /\ b - 1 \in 0..m /\ s - 1 \in 0..m
    BY TextFacts
  <1>2. PICK word : word = SubSeq(pattern, b, s - 1)
    OBVIOUS
  <1>3. Len(word) = s - b /\ \A i \in 1..s - b : word[i] = pattern[b + i - 1]
    <2>1. PICK u \in Nat : u = s - 1
      BY <1>1
    <2>2. pattern \in Seq(Alphabet \cup {Star}) /\ b >= 1 /\ b <= u + 1 /\ u <= Len(pattern) /\ u - b + 1 = s - b
      BY <1>1, <2>1, TextFacts
    <2>3. Len(SubSeq(pattern, b, u)) = u - b + 1 /\ \A i \in 1..u - b + 1 : SubSeq(pattern, b, u)[i] = pattern[b + i - 1]
      BY <1>1, <2>1, <2>2, SubSeqFacts
    <2> QED
      BY <1>2, <2>1, <2>2, <2>3
  <1>4. \A k \in 0..s - b : e[b - 1 + k] = e[b - 1] + k
    BY RunsFit
  <1>5. e[s - 1] = e[b - 1] + (s - b) /\ e[b - 1] \in Nat /\ e[s - 1] \in 0..Len(path)
    <2>1. s - b \in 0..s - b /\ b - 1 + (s - b) = s - 1
      BY <1>1
    <2> QED
      BY <1>1, <1>4, <2>1
  <1>6. e[s - 1] \in p + Len(word) .. Len(path)
    BY <1>1, <1>3, <1>5
  <1>7. ASSUME NEW i \in 1..Len(word)
        PROVE  path[e[s - 1] - Len(word) + i] = word[i]
    <2>1. i \in 1..s - b /\ i \in 0..s - b /\ i \in Nat
      BY <1>1, <1>3
    <2>2. b + i - 1 = b - 1 + i /\ b - 1 + i \in 1..m /\ b - 1 + i \in b..s - 1
      BY <1>1, <2>1
    <2>3. path[e[b - 1 + i]] = pattern[b - 1 + i]
      BY <2>2 DEF Fits
    <2>4. e[s - 1] - Len(word) + i = e[b - 1 + i]
      BY <1>1, <1>3, <1>4, <1>5, <2>1
    <2> QED
      BY <1>3, <2>1, <2>2, <2>3, <2>4
  <1> QED
    BY <1>2, <1>5, <1>6, <1>7 DEF EndsOf

\* What was scanned fits with one more word and, if one follows, its star.
LEMMA ScanFits ==
    ASSUME OperatorsTypeOK, turn \in 1..Len(pattern) + 1, turn # 1 => pattern[turn - 1] = Star,
           NEW s \in turn..Len(pattern) + 1, PartEnds(turn, s),
           NEW e \in [0..turn - 1 -> 0..Len(path)], Fits(e, turn - 1), e[turn - 1] = pos,
           NEW q \in 0..Len(path), pos <= q - (s - turn), turn = 1 => q = s - turn,
           \A i \in 1..s - turn : path[q - (s - turn) + i] = pattern[turn + i - 1],
           NEW m \in Nat, m = IF s = Len(pattern) + 1 THEN s - 1 ELSE s
    PROVE  \E g \in [0..m -> 0..Len(path)] : Fits(g, m) /\ g[m] = q
  <1>1. turn \in Nat /\ s \in Nat /\ Len(path) \in Nat /\ Len(pattern) \in Nat /\ m <= Len(pattern) /\ m \in {s - 1, s} /\ turn - 1 \in 0..turn - 1
    <2>1. Len(path) \in Nat /\ Len(pattern) \in Nat
      BY TextFacts
    <2>2. turn \in Nat /\ s \in Nat /\ s <= Len(pattern) + 1 /\ turn - 1 \in 0..turn - 1
      BY <2>1
    <2>3. m <= Len(pattern) /\ m \in {s - 1, s}
      BY <2>1, <2>2
    <2> QED
      BY <2>1, <2>2, <2>3
  <1>2. e \in [0..turn - 1 -> 0..Len(path)] /\ Fits(e, turn - 1)
    OBVIOUS
  <1>3. \A i \in 1..turn - 1 : IF pattern[i] = Star THEN e[i - 1] <= e[i] ELSE e[i] = e[i - 1] + 1 /\ path[e[i]] = pattern[i]
    BY <1>2 DEF Fits
  <1>4. e[turn - 1] \in Nat /\ q \in Nat /\ e[turn - 1] <= q - (s - turn) /\ q <= Len(path)
    BY <1>1, <1>2
  <1> DEFINE g == [z \in 0..m |-> IF z < turn - 1 THEN e[z] ELSE IF z <= s - 1 THEN q - (s - turn) + (z - (turn - 1)) ELSE q]
  <1>5. \A z \in 0..m : z < turn - 1 => g[z] = e[z] /\ z \in 0..turn - 1
    BY <1>1
  <1>6. \A z \in turn - 1..s - 1 : z \in 0..m /\ g[z] = q - (s - turn) + (z - (turn - 1))
    BY <1>1
  <1>7. g[m] = q
    <2>1. m \in 0..m /\ (m = s \/ m = s - 1)
      BY <1>1
    <2>2. CASE m = s
      BY <1>1, <2>1, <2>2
    <2>3. CASE m = s - 1
      BY <1>1, <1>4, <1>6, <2>3
    <2> QED
      BY <2>1, <2>2, <2>3
  <1>8. g \in [0..m -> 0..Len(path)]
    <2>1. ASSUME NEW z \in 0..m
          PROVE  g[z] \in 0..Len(path)
      <3>1. CASE z < turn - 1
        BY <1>5, <3>1
      <3>2. CASE z \in turn - 1..s - 1
        BY <1>1, <1>4, <1>6, <3>2
      <3>3. CASE z = m
        BY <1>4, <1>7, <3>3, <1>1
      <3> QED
        BY <1>1, <3>1, <3>2, <3>3
    <2> QED
      BY <2>1
  <1>9. g[0] = 0
    <2>1. e[0] = 0
      BY DEF Fits
    <2>2. CASE turn = 1
      BY <1>1, <1>4, <1>6, <2>2
    <2>3. CASE turn # 1
      BY <1>1, <1>5, <2>1, <2>3
    <2> QED
      BY <2>2, <2>3
  <1> HIDE DEF g
  <1>10. ASSUME NEW i \in 1..m
         PROVE  IF pattern[i] = Star THEN g[i - 1] <= g[i]
                                     ELSE g[i] = g[i - 1] + 1 /\ path[g[i]] = pattern[i]
    <2>1. CASE i < turn - 1
      <3>1. g[i] = e[i] /\ g[i - 1] = e[i - 1] /\ i \in 1..turn - 1
        <4>1. i \in 0..m /\ i - 1 \in 0..m /\ i - 1 < turn - 1 /\ i \in 1..turn - 1
          BY <1>1, <2>1
        <4> QED
          BY <1>5, <2>1, <4>1
      <3>2. IF pattern[i] = Star THEN e[i - 1] <= e[i] ELSE e[i] = e[i - 1] + 1 /\ path[e[i]] = pattern[i]
        BY <1>3, <3>1, Zenon
      <3> QED
        BY <3>1, <3>2
    <2>2. CASE i = turn - 1
      <3>1. pattern[i] = Star /\ i \in 1..turn - 1
        BY <1>1, <2>2
      <3>2. e[i - 1] <= e[i]
        BY <1>2, <3>1 DEF Fits
      <3>3. g[i - 1] = e[i - 1] /\ g[i] = q - (s - turn) /\ e[i - 1] \in Nat
        BY <1>1, <1>2, <1>4, <1>5, <1>6, <2>2
      <3> QED
        BY <1>1, <1>4, <2>2, <3>1, <3>2, <3>3
    <2>3. CASE i \in turn..s - 1
      <3>1. pattern[i] # Star
        BY <2>3 DEF PartEnds
      <3>2. g[i] = q - (s - turn) + (i - (turn - 1)) /\ g[i - 1] = q - (s - turn) + (i - 1 - (turn - 1))
        <4>1. i \in turn - 1..s - 1 /\ i - 1 \in turn - 1..s - 1
          BY <1>1, <2>3
        <4> QED
          BY <1>6, <4>1
      <3>3. i - (turn - 1) \in 1..s - turn /\ turn + (i - (turn - 1)) - 1 = i
        BY <1>1, <2>3
      <3>4. path[q - (s - turn) + (i - (turn - 1))] = pattern[i]
        BY <3>3
      <3> QED
        BY <1>1, <1>4, <2>3, <3>1, <3>2, <3>4
    <2>4. CASE i = s
      <3>1. s <= Len(pattern) /\ m = s /\ i - 1 = s - 1
        BY <1>1, <2>4
      <3>2. pattern[s] = Star
        BY <1>1, <3>1 DEF PartEnds
      <3>3. g[s - 1] = q
        BY <1>1, <1>4, <1>6
      <3> QED
        BY <1>4, <1>7, <2>4, <3>1, <3>2, <3>3
    <2> QED
      BY <1>1, <2>1, <2>2, <2>3, <2>4
  <1> QED
    BY <1>7, <1>8, <1>9, <1>10 DEF Fits

\* A match of the whole pattern is one of its beginning.
LEMMA BeginsFit ==
    ASSUME OperatorsTypeOK, NEW e \in [0..Len(pattern) -> 0..Len(path)], Fits(e, Len(pattern)),
           NEW b \in 1..Len(pattern) + 1, NEW s \in b..Len(pattern) + 1, PartEnds(b, s),
           NEW p \in Nat, p <= e[b - 1]
    PROVE  e[s - 1] \in EndsOf(SubSeq(pattern, b, s - 1), p) /\ e[s - 1] = e[b - 1] + (s - b)
  <1>1. Len(pattern) \in 0..Len(pattern) /\ \A i \in b..s - 1 : pattern[i] # Star
    BY TextFacts DEF PartEnds
  <1> QED
    BY <1>1, PartsOccur

\* Behind a word and its star, or at the end of the pattern.
LEMMA ScannedNext ==
    ASSUME OperatorsTypeOK, NEW s \in Nat, s <= Len(pattern) + 1, turn' = s + 1, pattern' = pattern
    PROVE  Scanned' = IF s = Len(pattern) + 1 THEN s - 1 ELSE s
  <1>1. Len(pattern) \in Nat
    BY TextFacts
  <1>2. turn' <= Len(pattern') <=> s < Len(pattern)
    BY <1>1
  <1> QED
    BY <1>1, <1>2 DEF Scanned

LEMMA ScanKeeps ==
    ASSUME OperatorsTypeOK, GlobInv, Scan
    PROVE  GlobInv'
  <1>1. /\ turn \in 1..Len(pattern) + 1 /\ Len(pattern) \in Nat /\ Len(path) \in Nat /\ turn \in Nat /\ pos \in Nat /\ Scanned = turn - 1
        /\ turn # 1 => pattern[turn - 1] = Star
        /\ turn = 1 => pos = 0
        /\ doing = "scan"
    BY TextFacts DEF Scan, GlobInv, Scanned
  <1>2. PICK e \in [0..turn - 1 -> 0..Len(path)] : Fits(e, turn - 1) /\ e[turn - 1] = pos
    BY <1>1 DEF GlobInv
  <1>3. \A g \in [0..Len(pattern) -> 0..Len(path)] :
             Fits(g, Len(pattern)) /\ g[Len(pattern)] = Len(path) => pos <= g[turn - 1]
    BY <1>1 DEF GlobInv
  <1>4. PICK s, word :
            /\ s \in turn..Len(pattern) + 1
            /\ word = SubSeq(pattern, turn, s - 1)
            /\ PartEnds(turn, s)
            /\ \/ word = <<>> /\ turn' = s + 1 /\ UNCHANGED <<doing, pos>>
               \/ EndsOf(word, pos) = {} /\ doing' = "skipped" /\ UNCHANGED <<turn, pos>>
               \/ \E q \in EndsOf(word, pos) :
                    /\ word # <<>> /\ \A o \in EndsOf(word, pos) : q <= o
                    /\ IF turn = 1 /\ q # Len(word)
                       THEN doing' = "skipped" /\ UNCHANGED <<turn, pos>>
                       ELSE turn' = s + 1 /\ pos' = q /\ UNCHANGED doing
    BY DEF Scan
  <1>5. /\ s \in Nat /\ s >= turn /\ s <= Len(pattern) + 1
        /\ Len(word) = s - turn /\ \A i \in 1..s - turn : word[i] = pattern[turn + i - 1]
    <2>5. s \in Nat /\ s >= turn /\ s <= Len(pattern) + 1 /\ s >= 1
      BY <1>1, <1>4
    <2>1. PICK u \in Nat : u = s - 1
      BY <2>5
    <2>2. pattern \in Seq(Alphabet \cup {Star}) /\ turn >= 1 /\ turn <= u + 1 /\ u <= Len(pattern) /\ u - turn + 1 = s - turn
      BY <1>1, <2>5, <2>1, TextFacts
    <2>3. Len(SubSeq(pattern, turn, u)) = u - turn + 1 /\ \A i \in 1..u - turn + 1 : SubSeq(pattern, turn, u)[i] = pattern[turn + i - 1]
      BY <1>1, <2>2, SubSeqFacts
    <2>4. word = SubSeq(pattern, turn, u)
      BY <1>4, <2>1
    <2> QED
      BY <2>5, <2>2, <2>3, <2>4
  <1>6. pattern' = pattern /\ path' = path
    BY DEF Scan, inputVars
  <1>7. ASSUME NEW g \in [0..Len(pattern) -> 0..Len(path)], Fits(g, Len(pattern)), g[Len(pattern)] = Len(path)
        PROVE  g[s - 1] \in EndsOf(word, pos) /\ g[s - 1] = g[turn - 1] + (s - turn)
    <2>1. pos <= g[turn - 1]
      BY <1>3, <1>7
    <2> QED
      BY <1>1, <1>4, <1>7, <2>1, BeginsFit
  <1>8. CASE doing' = "skipped"
    <2>1. ~ShellMatch
      <3>1. SUFFICES ASSUME NEW g \in [0..Len(pattern) -> 0..Len(path)], Fits(g, Len(pattern)), g[Len(pattern)] = Len(path)
                     PROVE  FALSE
        BY DEF ShellMatch
      <3>2. g[s - 1] \in EndsOf(word, pos) /\ g[s - 1] = g[turn - 1] + (s - turn)
        BY <1>7, <3>1
      <3>3. PICK q \in EndsOf(word, pos) : (\A o \in EndsOf(word, pos) : q <= o) /\ turn = 1 /\ q # Len(word)
        BY <1>1, <1>4, <1>8, <3>2
      <3>4. q \in pos + Len(word) .. Len(path)
        BY DEF EndsOf
      <3>5. g[0] = 0 /\ turn - 1 = 0 /\ pos = 0
        BY <1>1, <3>1, <3>3 DEF Fits
      <3>6. q <= g[s - 1]
        BY <3>2, <3>3
      <3> QED
        BY <1>1, <1>5, <3>2, <3>3, <3>4, <3>5, <3>6
    <2>2. ShellMatch' = ShellMatch
      BY <1>6 DEF ShellMatch, Fits
    <2> QED
      BY <1>8, <2>1, <2>2 DEF GlobInv
  <1>9. CASE doing' # "skipped"
    <2>1. PICK q \in EndsOf(word, pos) : /\ \A o \in EndsOf(word, pos) : q <= o
                                         /\ turn = 1 => q = Len(word)
                                         /\ turn' = s + 1 /\ pos' = q /\ doing' = "scan"
      <3>1. CASE word = <<>> /\ turn' = s + 1 /\ UNCHANGED <<doing, pos>>
        <4>1. Len(word) = 0
          BY <3>1
        <4>2. EndsOf(word, pos) = pos..Len(path)
          BY <1>1, <4>1 DEF EndsOf
        <4>3. pos \in pos..Len(path) /\ \A o \in pos..Len(path) : pos <= o
          BY TextFacts
        <4> QED
          BY <1>1, <3>1, <4>1, <4>2, <4>3
      <3> QED
        BY <1>1, <1>4, <1>9, <3>1
    <2>2. PICK m \in Nat : m = IF s = Len(pattern) + 1 THEN s - 1 ELSE s
      BY <1>1, <1>5
    <2>3. Scanned' = m
      <3>1. s \in Nat /\ s <= Len(pattern) + 1 /\ turn' = s + 1 /\ pattern' = pattern
        BY <1>1, <1>5, <1>6, <2>1
      <3>2. Scanned' = IF s = Len(pattern) + 1 THEN s - 1 ELSE s
        BY <3>1, ScannedNext, Zenon
      <3> QED
        BY <2>2, <3>2, Zenon
    <2>4. PICK g \in [0..m -> 0..Len(path)] : Fits(g, m) /\ g[m] = q
      <3>1. /\ q \in 0..Len(path) /\ pos <= q - (s - turn) /\ (turn = 1 => q = s - turn)
            /\ \A i \in 1..s - turn : path[q - (s - turn) + i] = pattern[turn + i - 1]
        <4>1. q \in pos + Len(word) .. Len(path) /\ \A i \in 1..Len(word) : path[q - Len(word) + i] = word[i]
          BY <2>1 DEF EndsOf
        <4>2. q \in pos + (s - turn) .. Len(path)
          BY <1>5, <4>1
        <4>3. \A i \in 1..s - turn : path[q - (s - turn) + i] = word[i]
          BY <1>5, <4>1
        <4>4. q \in 0..Len(path) /\ pos <= q - (s - turn)
          BY <1>1, <1>5, <4>2
        <4>5. turn = 1 => q = s - turn
          BY <1>5, <2>1
        <4>6. \A i \in 1..s - turn : path[q - (s - turn) + i] = pattern[turn + i - 1]
          BY <1>5, <4>3
        <4> QED
          BY <4>4, <4>5, <4>6
      <3>2. s \in turn..Len(pattern) + 1 /\ PartEnds(turn, s)
        BY <1>4
      <3>3. turn \in 1..Len(pattern) + 1 /\ (turn # 1 => pattern[turn - 1] = Star)
        BY <1>1
      <3> QED
        BY <1>2, <2>2, <3>1, <3>2, <3>3, ScanFits, Zenon
    <2>5. \A z, k : Fits(z, k)' <=> Fits(z, k)
      BY <1>6 DEF Fits
    <2>6. \A k, z : PartEnds(k, z)' <=> PartEnds(k, z)
      BY <1>6 DEF PartEnds
    <2>7. \A z, k : EndsOf(z, k)' = EndsOf(z, k)
      BY <1>6 DEF EndsOf
    <2>8. turn' \in 1..Len(pattern) + 2 /\ turn' # 1
      BY <1>1, <1>5, <2>1
    <2>9. \A h \in [0..Len(pattern) -> 0..Len(path)] :
               Fits(h, Len(pattern)) /\ h[Len(pattern)] = Len(path) => q <= h[m]
      <3>1. SUFFICES ASSUME NEW h \in [0..Len(pattern) -> 0..Len(path)], Fits(h, Len(pattern)), h[Len(pattern)] = Len(path)
                     PROVE  q <= h[m]
        OBVIOUS
      <3>2. h[s - 1] \in EndsOf(word, pos) /\ q <= h[s - 1] /\ h[s - 1] \in Int /\ q \in Int
        <4>1. h[s - 1] \in EndsOf(word, pos)
          BY <1>7, <3>1
        <4>2. EndsOf(word, pos) \subseteq Int
          BY <1>1, <1>5 DEF EndsOf
        <4> QED
          BY <2>1, <4>1, <4>2
      <3>3. CASE s = Len(pattern) + 1
        BY <2>2, <3>2, <3>3
      <3>4. CASE s # Len(pattern) + 1
        <4>1. s \in 1..Len(pattern) /\ pattern[s] = Star /\ m = s
          BY <1>1, <1>4, <1>5, <2>2, <3>4 DEF PartEnds
        <4>2. h[s - 1] <= h[s] /\ h[s] \in Int
          <5>1. \A i \in 1..Len(pattern) : pattern[i] = Star => h[i - 1] <= h[i]
            BY <3>1 DEF Fits
          <5>2. s \in 0..Len(pattern)
            BY <1>1, <4>1
          <5>3. h[s] \in Int
            BY <1>1, <5>2
          <5> QED
            BY <4>1, <5>1, <5>3
        <4> QED
          BY <3>2, <4>1, <4>2
      <3> QED
        BY <3>3, <3>4
    <2>10. turn' \in 2..Len(pattern) + 1 => pattern[turn' - 1] = Star
      <3>1. ASSUME turn' \in 2..Len(pattern) + 1
            PROVE  pattern[turn' - 1] = Star
        <4>1. turn' = s + 1 /\ s \in Nat /\ Len(pattern) \in Nat
          BY <1>1, <1>5, <2>1
        <4>2. turn' - 1 = s /\ s <= Len(pattern)
          BY <3>1, <4>1
        <4>3. s = Len(pattern) + 1 \/ (s <= Len(pattern) /\ pattern[s] = Star)
          BY <1>4 DEF PartEnds
        <4> QED
          BY <4>1, <4>2, <4>3
      <3> QED
        BY <3>1
    <2>11. turn' = Len(pattern) + 2 =>
              \E begin \in 1..Len(pattern) + 1 :
                      /\ begin = 1 \/ pattern[begin - 1] = Star
                      /\ PartEnds(begin, Len(pattern) + 1)
                      /\ begin <= Len(pattern) => q \in EndsOf(SubSeq(pattern, begin, Len(pattern)), 0)
      <3>1. ASSUME turn' = Len(pattern) + 2
            PROVE  q \in EndsOf(SubSeq(pattern, turn, Len(pattern)), 0) /\ PartEnds(turn, Len(pattern) + 1)
        <4>1. s = Len(pattern) + 1 /\ s - 1 = Len(pattern)
          <5>1. turn' = s + 1 /\ s \in Nat /\ Len(pattern) \in Nat
            BY <1>1, <1>5, <2>1
          <5> QED
            BY <3>1, <5>1
        <4>2. q \in EndsOf(word, 0)
          <5>1. q \in pos + Len(word)..Len(path) /\ \A i \in 1..Len(word) : path[q - Len(word) + i] = word[i]
            BY <2>1 DEF EndsOf
          <5>2. q \in 0 + Len(word)..Len(path)
            BY <1>1, <1>5, <5>1
          <5> QED
            BY <5>1, <5>2 DEF EndsOf
        <4> QED
          BY <1>4, <4>1, <4>2
      <3> QED
        BY <1>1, <3>1
    <2>12. \E h \in [0..Scanned' -> 0..Len(path')] : Fits(h, Scanned)' /\ h[Scanned'] = pos'
      BY <1>6, <2>1, <2>3, <2>4, <2>5
    <2>13. \A h \in [0..Len(pattern') -> 0..Len(path')] :
                  Fits(h, Len(pattern))' /\ h[Len(pattern')] = Len(path') => pos' <= h[Scanned']
      BY <1>6, <2>1, <2>3, <2>5, <2>9
    <2>14. turn' = Len(pattern') + 2 =>
              \E begin \in 1..Len(pattern') + 1 :
                      /\ begin = 1 \/ pattern'[begin - 1] = Star
                      /\ PartEnds(begin, Len(pattern) + 1)'
                      /\ begin <= Len(pattern') => pos' \in EndsOf(SubSeq(pattern, begin, Len(pattern)), 0)'
      BY <1>6, <2>1, <2>6, <2>7, <2>11
    <2> QED
      BY <1>6, <2>1, <2>8, <2>10, <2>12, <2>13, <2>14 DEF GlobInv
  <1> QED
    BY <1>8, <1>9

\* Before the scan nothing is read of either; what is read at once matches.
LEMMA CallHTTPKeeps ==
    ASSUME OperatorsTypeOK, pos = 0, CallHTTP
    PROVE  GlobInv'
  <1>1. pattern' = pattern /\ path' = path /\ pos' = 0 /\ Len(pattern) \in Nat /\ Len(path) \in Nat
    BY TextFacts DEF CallHTTP, inputVars
  <1>2. \A z, k : Fits(z, k)' <=> Fits(z, k)
    BY <1>1 DEF Fits
  <1>3. CASE doing' = "other"
    BY <1>3 DEF GlobInv
  <1>4. CASE doing' = "read" /\ pattern = <<Star>>
    <2> DEFINE e == [z \in 0..1 |-> IF z = 0 THEN 0 ELSE Len(path)]
    <2>1. Len(pattern) = 1 /\ pattern[1] = Star
      BY <1>4
    <2>2. e \in [0..1 -> 0..Len(path)] /\ e[0] = 0 /\ e[1] = Len(path)
      BY <1>1
    <2>3. e[0] <= e[1]
      BY <1>1
    <2> HIDE DEF e
    <2>4. \A i \in 1..1 : i = 1 /\ i - 1 = 0
      OBVIOUS
    <2>5. Fits(e, 1)
      BY <2>1, <2>2, <2>3, <2>4 DEF Fits
    <2>6. ShellMatch
      BY <2>1, <2>2, <2>5 DEF ShellMatch
    <2>7. ShellMatch'
      BY <1>1, <1>2, <2>6 DEF ShellMatch
    <2> QED
      BY <1>4, <2>7 DEF GlobInv
  <1>5. CASE doing' = "read" /\ pattern = path
    <2> DEFINE e == [z \in 0..Len(pattern) |-> z]
    <2>1. e \in [0..Len(pattern) -> 0..Len(path)] /\ e[0] = 0 /\ e[Len(pattern)] = Len(path)
      BY <1>1, <1>5
    <2>2. ASSUME NEW i \in 1..Len(pattern)
          PROVE  pattern[i] # Star /\ e[i] = e[i - 1] + 1 /\ path[e[i]] = pattern[i]
      BY <1>1, <1>5, TextFacts
    <2> HIDE DEF e
    <2>3. Fits(e, Len(pattern))
      <3>1. \A i \in 1..Len(pattern) : IF pattern[i] = Star THEN e[i - 1] <= e[i]
                                                        ELSE e[i] = e[i - 1] + 1 /\ path[e[i]] = pattern[i]
        BY <2>2
      <3> QED
        BY <2>1, <3>1, Zenon DEF Fits
    <2>4. ShellMatch
      BY <2>1, <2>3 DEF ShellMatch
    <2>5. ShellMatch'
      BY <1>1, <1>2, <2>4 DEF ShellMatch
    <2> QED
      BY <1>5, <2>5 DEF GlobInv
  <1>6. CASE doing' = "scan" /\ turn' = 1
    <2>1. Scanned' = 0
      BY <1>1, <1>6 DEF Scanned
    <2> DEFINE e == [z \in 0..0 |-> 0]
    <2>2. e \in [0..0 -> 0..Len(path)] /\ e[0] = 0 /\ 1..0 = {}
      BY <1>1
    <2> HIDE DEF e
    <2>3. Fits(e, 0)
      BY <2>2 DEF Fits
    <2>4. \E h \in [0..Scanned' -> 0..Len(path')] : Fits(h, Scanned)' /\ h[Scanned'] = pos'
      BY <1>1, <1>2, <2>1, <2>2, <2>3
    <2>5. \A h \in [0..Len(pattern') -> 0..Len(path')] :
                  Fits(h, Len(pattern))' /\ h[Len(pattern')] = Len(path') => pos' <= h[Scanned']
      <3>1. ASSUME NEW h \in [0..Len(pattern) -> 0..Len(path)], Fits(h, Len(pattern))
            PROVE  0 <= h[0]
        BY <3>1 DEF Fits
      <3> QED
        BY <1>1, <1>2, <2>1, <3>1
    <2>6. turn' \in 1..Len(pattern') + 2 /\ ~(turn' \in 2..Len(pattern') + 1) /\ turn' # Len(pattern') + 2
      BY <1>1, <1>6
    <2> QED
      BY <1>1, <1>6, <2>4, <2>5, <2>6 DEF GlobInv
  <1> QED
    BY <1>3, <1>4, <1>5, <1>6 DEF CallHTTP

LEMMA TwoElements ==
    ASSUME NEW S, IsFiniteSet(S), NEW z \in S, NEW w \in S, z # w
    PROVE  Cardinality(S) > 1
  <1>1. IsFiniteSet({z}) /\ Cardinality({z}) = 1
    BY FS_Singleton
  <1>2. IsFiniteSet({z} \cup {w}) /\ Cardinality({z} \cup {w}) = 2
    <2>1. w \notin {z}
      OBVIOUS
    <2>2. IsFiniteSet({z} \cup {w}) /\ Cardinality({z} \cup {w}) = Cardinality({z}) + 1
      BY <1>1, <2>1, FS_AddElement, Zenon
    <2> QED
      BY <1>1, <2>2
  <1>3. Cardinality({z} \cup {w}) <= Cardinality(S)
    <2>1. {z} \cup {w} \subseteq S
      OBVIOUS
    <2> QED
      BY <2>1, FS_Subset
  <1>4. Cardinality(S) \in Nat
    BY FS_CardinalityType
  <1> QED
    BY <1>2, <1>3, <1>4

LEMMA ScanEndsKeeps ==
    ASSUME OperatorsTypeOK, GlobInv, ScanEnds
    PROVE  GlobInv'
  <1>1. /\ pattern' = pattern /\ path' = path /\ Len(pattern) \in Nat /\ Len(path) \in Nat /\ pos \in 0..Len(path)
        /\ turn = Len(pattern) + 2 /\ Scanned = Len(pattern) /\ doing = "scan"
        /\ doing' = IF (pattern # <<>> /\ pattern[Len(pattern)] = Star) \/ pos = Len(path)
                    THEN "read" ELSE "skipped"
    <2>1. turn \in Nat /\ turn > Len(pattern) + 1 /\ turn \in 1..Len(pattern) + 2 /\ Len(pattern) \in Nat
      BY TextFacts DEF ScanEnds, GlobInv
    <2>2. turn = Len(pattern) + 2
      BY <2>1
    <2>3. Scanned = Len(pattern)
      BY <2>1, <2>2 DEF Scanned
    <2> QED
      BY <2>1, <2>2, <2>3, TextFacts DEF ScanEnds, inputVars
  <1>2. PICK e \in [0..Len(pattern) -> 0..Len(path)] : Fits(e, Len(pattern)) /\ e[Len(pattern)] = pos
    BY <1>1 DEF GlobInv
  <1>3. ShellMatch' <=> ShellMatch
    BY <1>1 DEF ShellMatch, Fits
  <1>4. CASE pos = Len(path)
    <2>1. ShellMatch
      BY <1>2, <1>4 DEF ShellMatch
    <2> QED
      BY <1>1, <1>3, <1>4, <2>1 DEF GlobInv
  <1>5. CASE pattern # <<>> /\ pattern[Len(pattern)] = Star
    <2>1. PICK m \in Nat : m = Len(pattern) /\ m # 0
      BY <1>1, <1>5, TextFacts
    <2> DEFINE g == [e EXCEPT ![m] = Len(path)]
    <2>2. g \in [0..m -> 0..Len(path)] /\ g[m] = Len(path) /\ \A z \in 0..m : z # m => g[z] = e[z]
      BY <1>1, <1>2, <2>1
    <2> HIDE DEF g
    <2>3. e[0] = 0 /\ \A i \in 1..m : IF pattern[i] = Star THEN e[i - 1] <= e[i] ELSE e[i] = e[i - 1] + 1 /\ path[e[i]] = pattern[i]
      BY <1>2, <2>1 DEF Fits
    <2>4. ASSUME NEW i \in 1..m
          PROVE  IF pattern[i] = Star THEN g[i - 1] <= g[i] ELSE g[i] = g[i - 1] + 1 /\ path[g[i]] = pattern[i]
      <3>1. i \in 0..m /\ i - 1 \in 0..m /\ i - 1 # m
        BY <2>1
      <3>2. g[i - 1] = e[i - 1] /\ g[i - 1] \in 0..Len(path)
        BY <2>2, <3>1
      <3>3. CASE i = m
        BY <1>1, <1>5, <2>1, <2>2, <3>2, <3>3
      <3>4. CASE i # m
        <4>1. g[i] = e[i]
          BY <2>2, <3>1, <3>4
        <4>2. IF pattern[i] = Star THEN e[i - 1] <= e[i] ELSE e[i] = e[i - 1] + 1 /\ path[e[i]] = pattern[i]
          BY <2>3, Zenon
        <4> QED
          BY <3>2, <4>1, <4>2
      <3> QED
        BY <3>3, <3>4
    <2>5. g[0] = 0
      BY <2>1, <2>2, <2>3
    <2>6. Fits(g, m)
      BY <2>2, <2>4, <2>5, Zenon DEF Fits
    <2>7. ShellMatch
      BY <2>1, <2>2, <2>6 DEF ShellMatch
    <2> QED
      BY <1>1, <1>3, <1>5, <2>7 DEF GlobInv
  <1>6. CASE ~(pattern # <<>> /\ pattern[Len(pattern)] = Star) /\ pos # Len(path)
    <2>1. SUFFICES ASSUME NEW g \in [0..Len(pattern) -> 0..Len(path)], Fits(g, Len(pattern)), g[Len(pattern)] = Len(path)
                   PROVE  TailRecurs'
      <3>1. doing' = "skipped"
        BY <1>1, <1>6
      <3> QED
        BY <1>3, <3>1 DEF GlobInv, ShellMatch
    <2>2. pattern # <<>>
      <3>1. ASSUME pattern = <<>>
            PROVE  FALSE
        <4>1. Len(pattern) = 0
          BY <3>1
        <4>2. e[0] = 0 /\ g[0] = 0
          BY <1>2, <2>1 DEF Fits
        <4> QED
          BY <1>2, <1>6, <2>1, <4>1, <4>2
      <3> QED
        BY <3>1
    <2>3. PICK b \in 1..Len(pattern) + 1 :
              /\ b = 1 \/ pattern[b - 1] = Star
              /\ PartEnds(b, Len(pattern) + 1)
              /\ b <= Len(pattern) => pos \in EndsOf(SubSeq(pattern, b, Len(pattern)), 0)
      BY <1>1 DEF GlobInv
    <2>4. b \in 1..Len(pattern) /\ Len(pattern) # 0
      <3>1. Len(pattern) # 0
        BY <2>2, TextFacts
      <3>2. b # Len(pattern) + 1
        <4>1. ASSUME b = Len(pattern) + 1
              PROVE  FALSE
          <5>1. b # 1 /\ b - 1 = Len(pattern)
            BY <1>1, <3>1, <4>1
          <5> QED
            BY <1>6, <2>2, <2>3, <5>1
        <4> QED
          BY <4>1
      <3> QED
        BY <1>1, <3>1, <3>2
    <2>5. PICK word : word = SubSeq(pattern, b, Len(pattern))
      OBVIOUS
    <2>6. pos \in EndsOf(word, 0)
      BY <1>1, <2>3, <2>4, <2>5
    <2>7. Len(path) \in EndsOf(word, 0)
      <3>1. PICK s \in b..Len(pattern) + 1 : s = Len(pattern) + 1
        BY <1>1, <2>4
      <3>2. s - 1 = Len(pattern) /\ PartEnds(b, s)
        BY <1>1, <2>3, <3>1
      <3>3. 0 \in Nat /\ 0 <= g[b - 1]
        BY <1>1, <2>4
      <3>4. g[s - 1] \in EndsOf(SubSeq(pattern, b, s - 1), 0)
        BY <2>1, <3>2, <3>3, BeginsFit
      <3> QED
        BY <2>1, <2>5, <3>2, <3>4
    <2>8. IsFiniteSet(EndsOf(word, 0))
      <3>1. EndsOf(word, 0) \subseteq 0..Len(path)
        <4>1. Len(word) \in Nat
          <5>1. pattern \in Seq(Alphabet \cup {Star}) /\ b \in Nat /\ b >= 1 /\ b <= Len(pattern) + 1 /\ Len(pattern) <= Len(pattern)
            BY <1>1, <2>4, TextFacts
          <5>2. Len(SubSeq(pattern, b, Len(pattern))) = Len(pattern) - b + 1
            BY <1>1, <5>1, SubSeqFacts
          <5> QED
            BY <1>1, <2>4, <2>5, <5>2
        <4> QED
          BY <1>1, <4>1 DEF EndsOf
      <3>2. 0 \in Int /\ Len(path) \in Int
        BY <1>1
      <3> QED
        BY <3>1, <3>2, FS_Interval, FS_Subset
    <2>9. Cardinality(EndsOf(word, 0)) > 1
      BY <1>6, <2>6, <2>7, <2>8, TwoElements
    <2>10. TailRecurs
      BY <2>3, <2>4, <2>5, <2>9 DEF TailRecurs
    <2>11. (\A z, k : EndsOf(z, k)' = EndsOf(z, k)) /\ \A k, z : PartEnds(k, z)' <=> PartEnds(k, z)
      BY <1>1 DEF EndsOf, PartEnds
    <2> QED
      BY <1>1, <2>10, <2>11 DEF TailRecurs
  <1> QED
    BY <1>4, <1>5, <1>6

LEMMA GlobKeeps ==
    ASSUME OperatorsTypeOK, LatencyInv, GlobInv, OperatorsNext
    PROVE  GlobInv'
  <1>1. CASE CallHTTP
    BY <1>1, CallHTTPKeeps DEF CallHTTP, LatencyInv
  <1>2. CASE Scan
    BY <1>2, ScanKeeps
  <1>3. CASE ScanEnds
    BY <1>3, ScanEndsKeeps
  <1>4. CASE ~(CallHTTP \/ Scan \/ ScanEnds)
    <2>1. doing' \notin {"scan", "read", "skipped"}
      BY <1>4 DEF OperatorsNext, RecordFrom, RecordTo, RecordValue, WritePattern, WritePath, Records, CallLatency, Pair,
                  LatencyReturns, CallPercentile
    <2> QED
      BY <2>1 DEF GlobInv
  <1> QED
    BY <1>1, <1>2, <1>3, <1>4

\* The loops stand where their invariants say, whatever the input.
THEOREM OperatorsInvariance == OperatorsSpec => []OperatorsInv
  <1>1. OperatorsInit => OperatorsInv
    <2> SUFFICES ASSUME OperatorsInit
                 PROVE  OperatorsInv
      OBVIOUS
    <2>1. /\ subject \in {"latency", "list", "glob"} /\ doing = "record" /\ turn = 0 /\ pos = 0
          /\ from = <<>> /\ to = <<>> /\ list = <<>> /\ pattern = <<>> /\ path = <<>> /\ pairs = <<>>
      BY DEF OperatorsInit
    <2>2. OperatorsTypeOK
      <3>1. PICK T : T = (DOMAIN from) \X (DOMAIN to)
        OBVIOUS
      <3>2. from \in Seq(Event) /\ to \in Seq(Event) /\ list \in Seq(Values) /\ pairs \in Seq(T)
            /\ pattern \in Seq(Alphabet \cup {Star}) /\ path \in Seq(Alphabet)
        BY <2>1, NoneIsSeq
      <3>3. Len(path) = 0
        BY <2>1
      <3> QED
        BY <2>1, <3>1, <3>2, <3>3 DEF OperatorsTypeOK
    <2>3. LatencyInv
      BY <2>1 DEF LatencyInv
    <2>4. PercentileInv /\ GlobInv
      BY <2>1 DEF PercentileInv, GlobInv
    <2> QED
      BY <2>2, <2>3, <2>4 DEF OperatorsInv
  <1>2. OperatorsInv /\ [OperatorsNext]_operatorVars => OperatorsInv'
    <2>1. ASSUME OperatorsInv, OperatorsNext
          PROVE  OperatorsInv'
      BY <2>1, OperatorTypesKeep, LatencyKeeps, PercentileKeeps, GlobKeeps DEF OperatorsInv
    <2>2. ASSUME OperatorsInv, UNCHANGED operatorVars
          PROVE  OperatorsInv'
      <3>1. /\ UNCHANGED <<subject, from, to, list, pattern, path, doing, order, turn, pairs, pos>>
            /\ OperatorsTypeOK /\ LatencyInv /\ PercentileInv /\ GlobInv
        BY <2>2 DEF operatorVars, inputVars, OperatorsInv
      <3>2. OperatorsTypeOK'
        BY <3>1 DEF OperatorsTypeOK
      <3>3. LatencyInv'
        <4>1. /\ \A z : Later(z)' = Later(z)
              /\ \A z : HasHadTurn(z)' <=> HasHadTurn(z)
          BY <3>1 DEF Later, Answered, HasHadTurn
        <4> QED
          BY <3>1, <4>1 DEF LatencyInv, Duration
      <3>4. PercentileInv'
        <4>1. Sample' = Sample /\ (NotNum' <=> NotNum)
          BY <3>1 DEF Sample, NotNum, Latencies, Numbers, Duration
        <4>2. Orders(Sample)' = Orders(Sample)
          BY <4>1 DEF Orders
        <4> QED
          BY <3>1, <4>1, <4>2 DEF PercentileInv
      <3>5. GlobInv'
        <4>1. /\ \A z, k : Fits(z, k)' <=> Fits(z, k)
              /\ \A k, z : PartEnds(k, z)' <=> PartEnds(k, z)
              /\ \A z, k : EndsOf(z, k)' = EndsOf(z, k)
              /\ Scanned' = Scanned
          BY <3>1 DEF Fits, PartEnds, EndsOf, Scanned
        <4>2. (ShellMatch' <=> ShellMatch) /\ (TailRecurs' <=> TailRecurs)
          BY <3>1, <4>1 DEF ShellMatch, TailRecurs
        <4> QED
          BY <3>1, <4>1, <4>2 DEF GlobInv
      <3> QED
        BY <3>2, <3>3, <3>4, <3>5 DEF OperatorsInv
    <2> QED
      BY <2>1, <2>2
  <1> QED
    BY <1>1, <1>2, PTL DEF OperatorsSpec

-----------------------------------------------------------------------------
(* What latency returns is a largest pairing                               *)

\* As many pairs are so long as there are latencies.
LEMMA PairsCounted ==
    ASSUME OperatorsTypeOK, LatencyInv, NEW K \in SUBSET DOMAIN pairs
    PROVE  IsFiniteSet(K) /\ Cardinality({pairs[k] : k \in K}) = Cardinality(K)
  <1>1. \A k, l \in DOMAIN pairs : k # l => pairs[k] # pairs[l]
    BY DEF LatencyInv
  <1>2. IsFiniteSet(K)
    <2>1. 1 \in Int /\ Len(pairs) \in Int /\ DOMAIN pairs = 1..Len(pairs)
      BY StreamFacts
    <2> QED
      BY <2>1, FS_Interval, FS_Subset
  <1> DEFINE T == {pairs[k] : k \in K}
             g == [k \in K |-> pairs[k]]
  <1>3. g \in Bijection(K, T)
    BY <1>1 DEF Bijection, Injection, Surjection, IsInjective
  <1>4. ExistsBijection(K, T)
    BY <1>3 DEF ExistsBijection
  <1> HIDE DEF T
  <1>5. Cardinality(T) = Cardinality(K)
    BY <1>2, <1>4, FS_Bijection
  <1> QED
    BY <1>2, <1>5 DEF T

\* Who is left unanswered gave way to nobody: a pairing has its answers or its
\* source events among the pairs.
LEMMA NoPairingLarger ==
    ASSUME OperatorsTypeOK, LatencyInv, \A i \in DOMAIN from : HasHadTurn(i), NEW M \in Pairings
    PROVE  Cardinality(M) <= Len(pairs)
  <1>1. /\ \A m \in M : /\ m[1] \in DOMAIN from /\ m[2] \in DOMAIN to /\ m = <<m[1], m[2]>>
                        /\ from[m[1]].key = to[m[2]].key /\ from[m[1]].ts <= to[m[2]].ts
        /\ \A m, l \in M : m # l => m[1] # l[1] /\ m[2] # l[2]
    BY DEF Pairings
  <1>2. \A i \in DOMAIN from : from[i].ts \in Int
    BY StreamFacts
  <1>3. \A j \in DOMAIN to : to[j].ts \in Int
    BY StreamFacts
  <1>4. \A k \in DOMAIN pairs : pairs[k][1] \in DOMAIN from /\ pairs[k][2] \in DOMAIN to
    BY StreamFacts
  <1> DEFINE Stands(m, k) == IF Later(m[1]) = {} THEN pairs[k][2] = m[2] ELSE pairs[k][1] = m[1]
             h == [m \in M |-> CHOOSE k \in DOMAIN pairs : Stands(m, k)]
  <1>5. ASSUME NEW m \in M
        PROVE  h[m] \in DOMAIN pairs /\ Stands(m, h[m])
    <2>1. \E k \in DOMAIN pairs : Stands(m, k)
      <3>1. CASE Later(m[1]) = {}
        <4>1. m[2] \in Answered
          BY <1>1, <1>2, <1>3, <3>1 DEF Later
        <4> QED
          BY <3>1, <4>1 DEF Answered
      <3>2. CASE Later(m[1]) # {}
        <4>1. HasHadTurn(m[1])
          BY <1>1
        <4> QED
          BY <3>2, <4>1 DEF HasHadTurn
      <3> QED
        BY <3>1, <3>2
    <2>2. h[m] = CHOOSE k \in DOMAIN pairs : Stands(m, k)
      OBVIOUS
    <2> HIDE DEF Stands, h
    <2> QED
      BY <2>1, <2>2
  <1> HIDE DEF h
  <1>6. ASSUME NEW m \in M, NEW l \in M, NEW k \in DOMAIN pairs, Later(m[1]) = {}, Later(l[1]) # {},
               pairs[k][2] = m[2], pairs[k][1] = l[1]
        PROVE  FALSE
    <2>1. PICK u \in Later(l[1]) : TRUE
      BY <1>6
    <2>2. u \in DOMAIN to /\ u \notin Answered /\ to[u].key = from[l[1]].key
      BY <2>1 DEF Later
    <2>3. to[m[2]].ts <= to[u].ts
      BY <1>6, <2>1 DEF LatencyInv
    <2>4. to[u].key = from[m[1]].key
      <3>1. from[l[1]].key = to[m[2]].key
        BY <1>6 DEF LatencyInv
      <3> QED
        BY <1>1, <2>2, <3>1
    <2>5. to[u].ts >= from[m[1]].ts
      <3>1. from[m[1]].ts <= to[m[2]].ts /\ from[m[1]].ts \in Int /\ to[m[2]].ts \in Int /\ to[u].ts \in Int
        BY <1>1, <1>2, <1>3, <2>2
      <3> QED
        BY <2>3, <3>1
    <2>6. u \in Later(m[1])
      BY <2>2, <2>4, <2>5 DEF Later
    <2> QED
      BY <1>6, <2>6
  <1>7. ASSUME NEW m \in M, NEW l \in M, h[m] = h[l]
        PROVE  m = l
    <2>1. PICK k \in DOMAIN pairs : k = h[m] /\ Stands(m, k) /\ Stands(l, k)
      BY <1>5, <1>7
    <2>2. CASE Later(m[1]) = {} /\ Later(l[1]) = {}
      BY <1>1, <2>1, <2>2
    <2>3. CASE Later(m[1]) # {} /\ Later(l[1]) # {}
      BY <1>1, <2>1, <2>3
    <2>4. CASE Later(m[1]) = {} /\ Later(l[1]) # {}
      BY <1>6, <2>1, <2>4
    <2>5. CASE Later(m[1]) # {} /\ Later(l[1]) = {}
      BY <1>6, <2>1, <2>5
    <2> QED
      BY <2>2, <2>3, <2>4, <2>5
  <1>8. h \in Injection(M, DOMAIN pairs)
    <2>1. h \in [M -> DOMAIN pairs]
      BY <1>5 DEF h
    <2> QED
      BY <1>7, <2>1 DEF Injection, IsInjective
  <1>9. 1 \in Int /\ Len(pairs) \in Nat /\ Len(pairs) \in Int /\ DOMAIN pairs = 1..Len(pairs)
    BY StreamFacts
  <1>10. IsFiniteSet(DOMAIN pairs) /\ Cardinality(DOMAIN pairs) = Len(pairs)
    <2>1. IsFiniteSet(1..Len(pairs)) /\ Cardinality(1..Len(pairs)) = IF 1 > Len(pairs) THEN 0 ELSE Len(pairs) - 1 + 1
      BY <1>9, FS_Interval
    <2>2. Cardinality(1..Len(pairs)) = Len(pairs)
      BY <1>9, <2>1
    <2> QED
      BY <1>9, <2>1, <2>2
  <1> QED
    BY <1>8, <1>10, FS_Injection

LEMMA LatencyPairs ==
    ASSUME OperatorsTypeOK, LatencyInv, \A i \in DOMAIN from : HasHadTurn(i)
    PROVE  LatencyIsPairing
  <1>1. /\ Len(pairs) \in Nat /\ DOMAIN pairs = 1..Len(pairs)
        /\ \A k \in DOMAIN pairs : pairs[k] = <<pairs[k][1], pairs[k][2]>> /\ pairs[k][1] \in DOMAIN from /\ pairs[k][2] \in DOMAIN to
    BY StreamFacts
  <1>2. DOMAIN Latencies = DOMAIN pairs /\ \A k \in DOMAIN pairs : Latencies[k] = Duration(pairs[k])
    BY DEF Latencies
  <1>3. Len(Latencies) = Len(pairs)
    BY <1>1 DEF Latencies
  <1> DEFINE M == {pairs[k] : k \in DOMAIN pairs}
  <1>4. M \in Pairings
    <2>1. M \in SUBSET ((DOMAIN from) \X (DOMAIN to))
      <3>1. PICK T : T = (DOMAIN from) \X (DOMAIN to)
        OBVIOUS
      <3>2. \A k \in DOMAIN pairs : <<pairs[k][1], pairs[k][2]>> \in T
        BY <1>1, <3>1
      <3>3. \A k \in DOMAIN pairs : pairs[k] \in T
        BY <1>1, <3>2
      <3> QED
        BY <3>1, <3>3
    <2>2. ASSUME NEW k \in DOMAIN pairs
          PROVE  from[pairs[k][1]].key = to[pairs[k][2]].key /\ from[pairs[k][1]].ts <= to[pairs[k][2]].ts
      <3>1. from[pairs[k][1]].key = to[pairs[k][2]].key /\ to[pairs[k][2]].ts - from[pairs[k][1]].ts >= 0
        BY DEF LatencyInv, Duration
      <3>2. from[pairs[k][1]].ts \in Int /\ to[pairs[k][2]].ts \in Int
        BY <1>1, StreamFacts
      <3> QED
        BY <3>1, <3>2
    <2>3. \A k, l \in DOMAIN pairs : pairs[k] # pairs[l] => pairs[k][1] # pairs[l][1] /\ pairs[k][2] # pairs[l][2]
      BY DEF LatencyInv
    <2> QED
      BY <2>1, <2>2, <2>3 DEF Pairings
  <1>5. Cardinality(M) = Len(Latencies)
    <2>1. DOMAIN pairs \in SUBSET DOMAIN pairs /\ 1 \in Int /\ Len(pairs) \in Int
      BY <1>1
    <2>2. Cardinality(1..Len(pairs)) = Len(pairs)
      BY <1>1, <2>1, FS_Interval
    <2> QED
      BY <1>1, <1>3, <2>1, <2>2, PairsCounted
  <1>6. ASSUME NEW d
        PROVE  Cardinality({k \in DOMAIN Latencies : Latencies[k] = d}) = Cardinality({m \in M : Duration(m) = d})
    <2> DEFINE K == {k \in DOMAIN pairs : Duration(pairs[k]) = d}
    <2>1. {k \in DOMAIN Latencies : Latencies[k] = d} = K
      BY <1>2
    <2>2. {m \in M : Duration(m) = d} = {pairs[k] : k \in K}
      OBVIOUS
    <2>3. K \in SUBSET DOMAIN pairs
      OBVIOUS
    <2> HIDE DEF K, M
    <2> QED
      BY <2>1, <2>2, <2>3, PairsCounted
  <1>7. \A N \in Pairings : Cardinality(N) <= Len(Latencies)
    BY <1>3, NoPairingLarger
  <1> HIDE DEF M
  <1> QED
    BY <1>4, <1>5, <1>6, <1>7 DEF LatencyIsPairing

-----------------------------------------------------------------------------
(* Percentiles sit at their rank                                           *)

\* The value at a rank in hundredths, between the two closest.
AtRank(sorted, rank) ==
    IF rank % 100 = 0 THEN 100 * sorted[rank \div 100 + 1]
    ELSE sorted[rank \div 100 + 1] * (100 - (rank % 100)) + sorted[rank \div 100 + 2] * (rank % 100)

Rising(sorted, size) ==
    sorted \in [1..size -> Int] /\ \A j, k \in 1..size : j <= k => sorted[j] <= sorted[k]

LEMMA RankSplit ==
    ASSUME NEW size \in Nat, NEW r \in 0..100 * (size - 1)
    PROVE  /\ r \div 100 \in Nat /\ r % 100 \in 0..99 /\ r = 100 * (r \div 100) + (r % 100) /\ r \div 100 <= size - 1
           /\ r % 100 # 0 => r \div 100 < size - 1
  <1>1. PICK a \in Int, f \in Int : a = r \div 100 /\ f = r % 100
    OBVIOUS
  <1>2. r = 100 * a + f /\ f \in 0..99
    BY <1>1
  <1>3. a \in Nat /\ a <= size - 1
    BY <1>2
  <1>4. f # 0 => a < size - 1
    BY <1>2, <1>3
  <1> QED
    BY <1>1, <1>2, <1>3, <1>4, Zenon

\* Between two numbers.
LEMMA Interpolation ==
    ASSUME NEW z \in Int, NEW w \in Int, z <= w, NEW f \in 0..99
    PROVE  z * (100 - f) + w * f \in Int /\ 100 * z <= z * (100 - f) + w * f /\ z * (100 - f) + w * f <= 100 * w
  <1>1. PICK d \in Nat : w = z + d
    <2>1. w - z \in Nat /\ w = z + (w - z)
      OBVIOUS
    <2> QED
      BY <2>1
  <1>2. z * (100 - f) + w * f = 100 * z + d * f
    BY <1>1
  <1>3. d * f \in Nat /\ d * f <= d * 100
    BY <1>1
  <1> QED
    BY <1>1, <1>2, <1>3

LEMMA FurtherBetween ==
    ASSUME NEW z \in Int, NEW w \in Int, z <= w, NEW f \in 0..99, NEW g \in 0..99, f <= g
    PROVE  z * (100 - f) + w * f <= z * (100 - g) + w * g
  <1>1. PICK d \in Nat : w = z + d
    <2>1. w - z \in Nat /\ w = z + (w - z)
      OBVIOUS
    <2> QED
      BY <2>1
  <1>2. z * (100 - f) + w * f = 100 * z + d * f /\ z * (100 - g) + w * g = 100 * z + d * g
    BY <1>1
  <1>3. d * f <= d * g /\ d * f \in Int /\ d * g \in Int
    BY <1>1
  <1> QED
    BY <1>1, <1>2, <1>3

LEMMA AtRankBounds ==
    ASSUME NEW size \in Nat, NEW s, Rising(s, size), NEW r \in 0..100 * (size - 1)
    PROVE  /\ AtRank(s, r) \in Int /\ 100 * s[r \div 100 + 1] <= AtRank(s, r)
           /\ r % 100 = 0 => AtRank(s, r) = 100 * s[r \div 100 + 1]
           /\ r % 100 # 0 => AtRank(s, r) <= 100 * s[r \div 100 + 2]
  <1>1. PICK a \in Nat, f \in 0..99 : /\ a = r \div 100 /\ f = r % 100 /\ a <= size - 1
                                      /\ f # 0 => a < size - 1
    BY RankSplit
  <1>2. a + 1 \in 1..size /\ s[a + 1] \in Int
    <2>1. a + 1 \in 1..size
      BY <1>1
    <2> QED
      BY <2>1 DEF Rising
  <1>3. CASE f = 0
    <2>1. AtRank(s, r) = 100 * s[a + 1]
      BY <1>1, <1>3 DEF AtRank
    <2> QED
      BY <1>1, <1>2, <1>3, <2>1
  <1>4. CASE f # 0
    <2>1. a + 2 \in 1..size
      BY <1>1, <1>4
    <2>2. s[a + 2] \in Int /\ s[a + 1] <= s[a + 2]
      BY <1>1, <1>2, <2>1 DEF Rising
    <2>3. AtRank(s, r) = s[a + 1] * (100 - f) + s[a + 2] * f
      BY <1>1, <1>4 DEF AtRank
    <2> QED
      BY <1>1, <1>2, <1>4, <2>2, <2>3, Interpolation
  <1> QED
    BY <1>3, <1>4

\* The closest rank below and how far, in hundredths, it is to the next.
Between(s, size, r, a, f) ==
    /\ a <= size - 1 /\ r = 100 * a + f /\ (f # 0 => a < size - 1)
    /\ 100 * s[a + 1] <= AtRank(s, r)
    /\ f = 0 => AtRank(s, r) = 100 * s[a + 1]
    /\ f # 0 => AtRank(s, r) <= 100 * s[a + 2]

LEMMA AtRankBetween ==
    ASSUME NEW size \in Nat, NEW s, Rising(s, size), NEW r \in 0..100 * (size - 1)
    PROVE  \E a \in Nat, f \in 0..99 : Between(s, size, r, a, f)
  <1>1. PICK a \in Nat, f \in 0..99 : /\ a = r \div 100 /\ f = r % 100 /\ a <= size - 1 /\ r = 100 * a + f
                                      /\ f # 0 => a < size - 1
    BY RankSplit
  <1>2. /\ 100 * s[r \div 100 + 1] <= AtRank(s, r)
        /\ r % 100 = 0 => AtRank(s, r) = 100 * s[r \div 100 + 1]
        /\ r % 100 # 0 => AtRank(s, r) <= 100 * s[r \div 100 + 2]
    BY AtRankBounds
  <1>3. Between(s, size, r, a, f)
    BY <1>1, <1>2, Zenon DEF Between
  <1> QED
    BY <1>3

\* A higher rank has no lower value.
LEMMA AtRankRises ==
    ASSUME NEW size \in Nat, NEW s, Rising(s, size),
           NEW r \in 0..100 * (size - 1), NEW t \in 0..100 * (size - 1), r <= t
    PROVE  AtRank(s, r) <= AtRank(s, t)
  <1>1. PICK a \in Nat, f \in 0..99 : /\ a = r \div 100 /\ f = r % 100 /\ a <= size - 1 /\ r = 100 * a + f
                                      /\ f # 0 => a < size - 1
    BY RankSplit
  <1>2. PICK b \in Nat, g \in 0..99 : /\ b = t \div 100 /\ g = t % 100 /\ b <= size - 1 /\ t = 100 * b + g
                                      /\ g # 0 => b < size - 1
    BY RankSplit
  <1>3. /\ AtRank(s, r) \in Int /\ (f = 0 => AtRank(s, r) = 100 * s[a + 1]) /\ (f # 0 => AtRank(s, r) <= 100 * s[a + 2])
        /\ AtRank(s, t) \in Int /\ 100 * s[b + 1] <= AtRank(s, t)
    BY <1>1, <1>2, AtRankBounds
  <1>4. a + 1 \in 1..size /\ b + 1 \in 1..size /\ s[a + 1] \in Int /\ s[b + 1] \in Int
    <2>1. a + 1 \in 1..size /\ b + 1 \in 1..size
      BY <1>1, <1>2
    <2> QED
      BY <2>1 DEF Rising
  <1>5. a <= b
    BY <1>1, <1>2
  <1>6. CASE a < b
    <2>1. CASE f = 0
      <3>1. s[a + 1] <= s[b + 1]
        BY <1>4, <1>6 DEF Rising
      <3> QED
        BY <1>3, <1>4, <2>1, <3>1
    <2>2. CASE f # 0
      <3>1. a + 2 \in 1..size /\ a + 2 <= b + 1
        BY <1>1, <1>6, <2>2
      <3>2. s[a + 2] <= s[b + 1] /\ s[a + 2] \in Int
        BY <1>4, <3>1 DEF Rising
      <3> QED
        BY <1>3, <1>4, <2>2, <3>2
    <2> QED
      BY <2>1, <2>2
  <1>7. CASE a = b
    <2>1. f <= g
      BY <1>1, <1>2, <1>7
    <2>2. CASE f = 0
      BY <1>3, <1>7, <2>2
    <2>3. CASE f # 0
      <3>1. g # 0
        BY <2>1, <2>3
      <3>2. a + 2 \in 1..size
        BY <1>1, <2>3
      <3>3. s[a + 2] \in Int /\ s[a + 1] <= s[a + 2]
        BY <1>1, <1>4, <3>2 DEF Rising
      <3>4. AtRank(s, r) = s[a + 1] * (100 - f) + s[a + 2] * f /\ AtRank(s, t) = s[a + 1] * (100 - g) + s[a + 2] * g
        BY <1>1, <1>2, <1>7, <2>3, <3>1 DEF AtRank
      <3>5. PICK z \in Int, w \in Int : z = s[a + 1] /\ w = s[a + 2] /\ z <= w
        BY <1>4, <3>3
      <3>6. z * (100 - f) + w * f <= z * (100 - g) + w * g
        BY <2>1, <3>5, FurtherBetween
      <3> QED
        BY <3>4, <3>5, <3>6
    <2> QED
      BY <2>2, <2>3
  <1> QED
    BY <1>1, <1>2, <1>5, <1>6, <1>7

\* The places of the first elements in the order.
LEMMA Firsts ==
    ASSUME NEW size \in Nat, NEW o \in Bijection(1..size, 1..size), NEW m \in 0..size
    PROVE  IsFiniteSet({o[k] : k \in 1..m}) /\ Cardinality({o[k] : k \in 1..m}) = m
  <1> DEFINE T == {o[k] : k \in 1..m}
             g == [k \in 1..m |-> o[k]]
  <1>1. m \in Nat /\ \A k \in 1..m : k \in 1..size
    OBVIOUS
  <1>2. o \in [1..size -> 1..size] /\ \A j, k \in 1..size : o[j] = o[k] => j = k
    BY DEF Bijection, Injection, IsInjective
  <1>3. g \in Bijection(1..m, T)
    <2>1. \A k \in 1..m : g[k] \in T /\ g[k] = o[k]
      OBVIOUS
    <2>2. \A z \in T : \E k \in 1..m : g[k] = z
      OBVIOUS
    <2>3. g \in [1..m -> T]
      BY <2>1
    <2>4. \A j, k \in 1..m : g[j] = g[k] => j = k
      BY <1>1, <1>2, <2>1
    <2> HIDE DEF g, T
    <2> QED
      BY <2>2, <2>3, <2>4 DEF Bijection, Injection, Surjection, IsInjective
  <1>4. ExistsBijection(1..m, T)
    BY <1>3 DEF ExistsBijection
  <1>5. IsFiniteSet(1..m) /\ Cardinality(1..m) = m
    <2>1. 1 \in Int /\ m \in Int
      BY <1>1
    <2>2. IsFiniteSet(1..m) /\ Cardinality(1..m) = IF 1 > m THEN 0 ELSE m - 1 + 1
      BY <2>1, FS_Interval
    <2> QED
      BY <1>1, <2>2
  <1> HIDE DEF T
  <1>6. IsFiniteSet(T) /\ Cardinality(T) = m
    BY <1>4, <1>5, FS_Bijection
  <1> QED
    BY <1>6 DEF T

LEMMA NothingIn ==
    ASSUME NEW f, NEW S, f \in [1..0 -> S]
    PROVE  f = <<>>
  OBVIOUS

LEMMA SampleFacts ==
    ASSUME OperatorsTypeOK
    PROVE  \E size \in Nat : Sample \in [1..size -> Int] /\ (Sample # <<>> => size # 0)
  <1>1. CASE subject = "latency"
    <2>1. DOMAIN pairs = 1..Len(pairs) /\ Len(pairs) \in Nat /\ \A k \in DOMAIN pairs : Duration(pairs[k]) \in Int
      <3>1. \A k \in DOMAIN pairs : from[pairs[k][1]].ts \in Int /\ to[pairs[k][2]].ts \in Int
        BY StreamFacts
      <3> QED
        BY <3>1, StreamFacts DEF Duration
    <2>2. Latencies \in [1..Len(pairs) -> Int]
      BY <2>1 DEF Latencies
    <2>3. Sample = Latencies
      BY <1>1 DEF Sample
    <2>4. Len(pairs) = 0 => Latencies = <<>>
      BY <2>2, NothingIn, Zenon
    <2> QED
      BY <2>1, <2>2, <2>3, <2>4, Zenon
  <1>2. CASE subject # "latency"
    <2>1. list \in Seq(Values) /\ \A v \in Values : v.v \in Int
      BY CheckOperatorsAssumption DEF OperatorsTypeOK, Element
    <2>2. DOMAIN list = 1..Len(list) /\ Len(list) \in Nat /\ \A i \in DOMAIN list : list[i].v \in Int
      BY <2>1
    <2>3. Numbers \in [1..Len(list) -> Int]
      BY <2>2 DEF Numbers
    <2>4. Sample = Numbers
      BY <1>2 DEF Sample
    <2>5. Len(list) = 0 => Numbers = <<>>
      BY <2>3, NothingIn, Zenon
    <2> QED
      BY <2>2, <2>3, <2>4, <2>5, Zenon
  <1> QED
    BY <1>1, <1>2, Zenon

LEMMA ClampedRank ==
    ASSUME NEW p \in Int, NEW k \in Nat
    PROVE  Clamp(p) \in 0..100 /\ Clamp(p) * k \in 0..100 * k
  <1>1. Clamp(p) \in 0..100
    BY DEF Clamp
  <1>2. \A c \in 0..100 : c * k \in 0..100 * k
    OBVIOUS
  <1> QED
    BY <1>1, <1>2

\* Of numbers put in order, each percentile sits at its rank.
LEMMA PercentilesSit ==
    ASSUME OperatorsTypeOK, Sample # <<>>, order \in Orders(Sample)
    PROVE  PercentileRanks
  <1>1. PICK size \in Nat : Sample \in [1..size -> Int] /\ size # 0
    BY SampleFacts
  <1>2. DOMAIN Sample = 1..size /\ size \in Nat \ {0} /\ \A i \in 1..size : Sample[i] \in Int
    BY <1>1
  <1>3. order \in Bijection(1..size, 1..size) /\ \A i, j \in 1..size : i < j => Sample[order[i]] <= Sample[order[j]]
    BY <1>2 DEF Orders
  <1>4. order \in [1..size -> 1..size] /\ \A z \in 1..size : \E k \in 1..size : order[k] = z
    BY <1>3 DEF Bijection, Injection, Surjection
  <1> DEFINE s == [k \in DOMAIN Sample |-> Sample[order[k]]]
  <1>5. s \in [1..size -> Int] /\ \A k \in 1..size : s[k] = Sample[order[k]]
    BY <1>2, <1>4
  <1>6. Len(s) = size
    BY <1>2
  <1>7. Rising(s, size)
    <2>1. ASSUME NEW j \in 1..size, NEW k \in 1..size, j <= k
          PROVE  s[j] <= s[k]
      <3>1. CASE j = k
        BY <1>5, <3>1
      <3>2. CASE j < k
        BY <1>3, <1>5, <3>2
      <3> QED
        BY <2>1, <3>1, <3>2
    <2> QED
      BY <1>5, <2>1 DEF Rising
  <1>8. ASSUME NEW p
        PROVE  FnPercentileDouble(p) = AtRank(s, Clamp(p) * (size - 1))
    <2>1. FnPercentileDouble(p) = Percentile(s, p)
      BY DEF FnPercentileDouble
    <2> HIDE DEF s
    <2>2. Percentile(s, p) = AtRank(s, Clamp(p) * (size - 1))
      BY <1>6 DEF Percentile, Rank, AtRank
    <2> QED
      BY <2>1, <2>2
  <1> HIDE DEF s
  <1>9. Cardinality(1..size) - 1 = size - 1 /\ IsFiniteSet(1..size)
    <2>1. 1 \in Int /\ size \in Int
      BY <1>2
    <2>2. IsFiniteSet(1..size) /\ Cardinality(1..size) = IF 1 > size THEN 0 ELSE size - 1 + 1
      BY <2>1, FS_Interval
    <2> QED
      BY <1>2, <2>2
  <1>10. \A p \in Percents : p \in Int
    BY CheckOperatorsAssumption
  <1>11. ASSUME NEW p \in Percents
         PROVE  LET v == FnPercentileDouble(p)
                IN  /\ 100 * Cardinality({i \in 1..size : 100 * Sample[i] <= v}) >= Clamp(p) * (size - 1)
                    /\ 100 * Cardinality({i \in 1..size : 100 * Sample[i] < v}) < Clamp(p) * (size - 1) + 100
                    /\ \A q \in Percents : p <= q => v <= FnPercentileDouble(q)
                    /\ p >= 100 => \A i \in 1..size : v >= 100 * Sample[i]
                    /\ p <= 0 => \A i \in 1..size : v <= 100 * Sample[i]
                    /\ subject = "latency" => 100 * FnPercentileDuration(p) \in v - 99 .. v
    <2>1. PICK r \in 0..100 * (size - 1) : r = Clamp(p) * (size - 1) /\ size - 1 \in Nat
      <3>1. p \in Int /\ size - 1 \in Nat
        BY <1>2, <1>10
      <3> QED
        BY <3>1, ClampedRank
    <2>2. PICK v \in Int : v = FnPercentileDouble(p) /\ v = AtRank(s, r)
      <3>1. AtRank(s, r) \in Int
        BY <1>2, <1>7, AtRankBounds
      <3>2. FnPercentileDouble(p) = AtRank(s, r)
        BY <1>8, <2>1
      <3> QED
        BY <3>1, <3>2
    <2>3. PICK a \in Nat, f \in 0..99 : /\ a <= size - 1 /\ r = 100 * a + f /\ (f # 0 => a < size - 1)
                                        /\ 100 * s[a + 1] <= v
                                        /\ f = 0 => v = 100 * s[a + 1]
                                        /\ f # 0 => v <= 100 * s[a + 2]
      <3>1. \E a \in Nat, f \in 0..99 : Between(s, size, r, a, f)
        BY <1>2, <1>7, AtRankBetween
      <3> QED
        BY <2>2, <3>1 DEF Between
    <2>4. a + 1 \in 1..size /\ s[a + 1] \in Int /\ 100 * s[a + 1] <= v
      <3>1. a + 1 \in 1..size
        BY <1>2, <2>1, <2>3
      <3> QED
        BY <1>5, <2>3, <3>1
    <2>5. 100 * Cardinality({i \in 1..size : 100 * Sample[i] <= v}) >= r
      <3> DEFINE B == {i \in 1..size : 100 * Sample[i] <= v}
                 T == {order[k] : k \in 1..a + 1}
      <3>1. T \subseteq B
        <4>1. ASSUME NEW k \in 1..a + 1
              PROVE  order[k] \in B
          <5>1. k \in 1..size /\ k <= a + 1
            BY <2>4
          <5>2. s[k] <= s[a + 1] /\ s[k] \in Int
            BY <1>7, <2>4, <5>1 DEF Rising
          <5>3. 100 * s[k] <= v
            BY <2>4, <5>2
          <5> QED
            BY <1>4, <1>5, <5>1, <5>3
        <4> QED
          BY <4>1
      <3>2. Cardinality(T) = a + 1
        <4>1. PICK m \in 0..size : m = a + 1
          BY <2>4
        <4>2. Cardinality({order[k] : k \in 1..m}) = m
          BY <1>2, <1>3, Firsts
        <4> QED
          BY <4>1, <4>2
      <3>3. IsFiniteSet(B)
        BY <1>9, FS_Subset
      <3> HIDE DEF B, T
      <3>4. a + 1 <= Cardinality(B) /\ Cardinality(B) \in Nat
        BY <3>1, <3>2, <3>3, FS_Subset, FS_CardinalityType
      <3>5. 100 * Cardinality(B) >= r
        BY <2>3, <3>4
      <3> QED
        BY <3>5 DEF B
    <2>6. 100 * Cardinality({i \in 1..size : 100 * Sample[i] < v}) < r + 100
      <3> DEFINE B == {i \in 1..size : 100 * Sample[i] < v}
      <3>1. PICK m \in 0..size : /\ m = IF f = 0 THEN a ELSE a + 1
                                 /\ m + 1 \in 1..size /\ v <= 100 * s[m + 1]
        <4>1. CASE f = 0
          <5>1. a \in 0..size /\ v <= 100 * s[a + 1]
            BY <2>3, <2>4, <4>1
          <5> QED
            BY <2>4, <4>1, <5>1
        <4>2. CASE f # 0
          <5>1. a < size - 1
            BY <2>3, <4>2
          <5>2. a + 1 \in 0..size /\ a + 2 \in 1..size /\ (a + 1) + 1 = a + 2
            BY <1>2, <5>1
          <5>3. v <= 100 * s[a + 2]
            BY <2>3, <4>2
          <5> QED
            BY <4>2, <5>2, <5>3
        <4> QED
          BY <4>1, <4>2
      <3> DEFINE T == {order[k] : k \in 1..m}
      <3>2. B \subseteq T
        <4>1. ASSUME NEW i \in B
              PROVE  i \in T
          <5>1. PICK k \in 1..size : order[k] = i
            BY <1>4
          <5>2. 100 * s[k] < v
            BY <1>5, <5>1
          <5>3. ~(m + 1 <= k)
            <6>1. ASSUME m + 1 <= k
                  PROVE  FALSE
              <7>1. s[m + 1] <= s[k] /\ s[m + 1] \in Int /\ s[k] \in Int
                BY <1>5, <1>7, <3>1, <6>1 DEF Rising
              <7> QED
                BY <3>1, <5>2, <7>1
            <6> QED
              BY <6>1
          <5>4. k \in 1..m
            BY <3>1, <5>3
          <5> QED
            BY <5>1, <5>4
        <4> QED
          BY <4>1
      <3>3. IsFiniteSet(T) /\ Cardinality(T) = m
        BY <1>3, <3>1, Firsts
      <3> HIDE DEF B, T
      <3>4. Cardinality(B) <= m /\ Cardinality(B) \in Nat
        BY <3>2, <3>3, FS_Subset, FS_CardinalityType
      <3>5. 100 * Cardinality(B) < r + 100
        BY <2>3, <3>1, <3>4
      <3> QED
        BY <3>5 DEF B
    <2>7. ASSUME NEW q \in Percents, p <= q
          PROVE  v <= FnPercentileDouble(q)
      <3>1. p \in Int /\ q \in Int /\ size - 1 \in Nat
        BY <1>2, <1>10
      <3>2. Clamp(p) <= Clamp(q) /\ Clamp(p) \in 0..100 /\ Clamp(q) \in 0..100
        BY <2>7, <3>1 DEF Clamp
      <3>3. PICK t \in 0..100 * (size - 1) : t = Clamp(q) * (size - 1)
        BY <3>1, ClampedRank
      <3>4. \A c, d \in 0..100, k \in Nat : c <= d => c * k <= d * k
        OBVIOUS
      <3>5. r <= t
        BY <2>1, <3>1, <3>2, <3>3, <3>4
      <3>6. AtRank(s, r) <= AtRank(s, t)
        BY <1>7, <3>5, AtRankRises
      <3> QED
        BY <1>8, <2>2, <3>3, <3>6
    <2>8. ASSUME p >= 100, NEW i \in 1..size
          PROVE  v >= 100 * Sample[i]
      <3>1. p \in Int
        BY <1>10
      <3>2. Clamp(p) = 100
        BY <2>8, <3>1 DEF Clamp
      <3>3. a = size - 1
        <4>1. size \in Nat /\ 100 * a + f = 100 * (size - 1) /\ a <= size - 1
          BY <1>2, <2>1, <2>3, <3>2
        <4> QED
          BY <4>1
      <3>4. PICK k \in 1..size : order[k] = i
        BY <1>4
      <3>5. s[k] <= s[a + 1] /\ s[k] = Sample[i] /\ s[k] \in Int
        <4>1. k <= a + 1
          BY <1>2, <3>3
        <4> QED
          BY <1>5, <1>7, <2>4, <3>4, <4>1 DEF Rising
      <3> QED
        BY <2>4, <3>5
    <2>9. ASSUME p <= 0, NEW i \in 1..size
          PROVE  v <= 100 * Sample[i]
      <3>1. p \in Int
        BY <1>10
      <3>2. Clamp(p) = 0
        BY <2>9, <3>1 DEF Clamp
      <3>3. r = 0
        BY <2>1, <3>2
      <3>4. a = 0 /\ f = 0
        BY <2>3, <3>3
      <3>5. v = 100 * s[1]
        BY <2>2, <2>3, <3>4
      <3>6. PICK k \in 1..size : order[k] = i
        BY <1>4
      <3>7. s[1] <= s[k] /\ s[k] = Sample[i] /\ s[k] \in Int /\ s[1] \in Int
        <4>1. 1 <= k /\ 1 \in 1..size
          BY <1>2
        <4> QED
          BY <1>5, <1>7, <3>6, <4>1 DEF Rising
      <3> QED
        BY <3>5, <3>7
    <2>10. 100 * FnPercentileDuration(p) \in v - 99 .. v
      <3>1. FnPercentileDuration(p) = v \div 100
        BY <2>2 DEF FnPercentileDuration
      <3>2. \A z \in Int : 100 * (z \div 100) \in z - 99 .. z
        OBVIOUS
      <3> QED
        BY <3>1, <3>2
    <2> QED
      BY <2>1, <2>2, <2>5, <2>6, <2>7, <2>8, <2>9, <2>10
  <1> QED
    BY <1>2, <1>9, <1>11 DEF PercentileRanks

LEMMA ShareOfAll ==
    ASSUME NEW bools, NEW size \in Nat, DOMAIN bools = 1..size, Len(bools) = size
    PROVE  0 <= FnRate(bools)[1] /\ FnRate(bools)[1] <= FnRate(bools)[2]
  <1> DEFINE T == {i \in DOMAIN bools : bools[i]}
  <1>1. 1 \in Int /\ size \in Int
    OBVIOUS
  <1>2. IsFiniteSet(1..size) /\ Cardinality(1..size) = IF 1 > size THEN 0 ELSE size - 1 + 1
    BY <1>1, FS_Interval
  <1>3. T \subseteq 1..size
    OBVIOUS
  <1>4. FnRate(bools) = IF bools = <<>> THEN <<0, 1>> ELSE <<Cardinality(T), size>>
    BY DEF FnRate
  <1> HIDE DEF T
  <1>5. Cardinality(T) \in Nat /\ Cardinality(T) <= size
    <2>1. Cardinality(1..size) = size
      BY <1>2
    <2>2. IsFiniteSet(T) /\ Cardinality(T) <= Cardinality(1..size)
      BY <1>2, <1>3, FS_Subset
    <2> QED
      BY <2>1, <2>2, FS_CardinalityType
  <1> QED
    BY <1>4, <1>5

\* For every stream, list, pattern and path the operators return what they are
\* for: see OperatorsMatchReference.
THEOREM OperatorsMatchReferenceHolds == OperatorsSpec => []OperatorsMatchReference
  <1>1. OperatorsInv => OperatorsMatchReference
    <2> SUFFICES ASSUME OperatorsInv
                 PROVE  OperatorsMatchReference
      OBVIOUS
    <2>1. OperatorsTypeOK /\ LatencyInv /\ PercentileInv /\ GlobInv
      BY DEF OperatorsInv
    <2>2. subject = "latency" /\ doing \in {"paired", "refused", "sorted"} => LatencyIsPairing
      BY <2>1, LatencyPairs DEF LatencyInv
    <2>3. doing = "sorted" => ~NotNum /\ Sample # <<>> /\ PercentileRanks
      BY <2>1, PercentilesSit DEF PercentileInv
    <2> DEFINE bools == [i \in DOMAIN list |-> list[i].num]
    <2>4. 0 <= FnRate(bools)[1] /\ FnRate(bools)[1] <= FnRate(bools)[2]
      <3>1. DOMAIN list = 1..Len(list) /\ Len(list) \in Nat
        BY <2>1 DEF OperatorsTypeOK
      <3>2. DOMAIN bools = 1..Len(list) /\ Len(bools) = Len(list)
        BY <3>1
      <3> HIDE DEF bools
      <3> QED
        BY <3>1, <3>2, ShareOfAll
    <2> HIDE DEF bools
    <2>5. /\ doing = "refused" => NotNum \/ Sample = <<>>
          /\ doing = "read" => ShellMatch
          /\ doing = "skipped" /\ ShellMatch => TailRecurs
      BY <2>1 DEF PercentileInv, GlobInv
    <2> QED
      BY <2>2, <2>3, <2>4, <2>5 DEF OperatorsMatchReference, bools
  <1> QED
    BY <1>1, OperatorsInvariance, PTL
-----------------------------------------------------------------------------
(* What a run of a scenario is made of, put together                       *)

\* The parts keep their own state: a step of one leaves the others alone, and
\* the whole does what each of them may do.
LEMMA PartsBegin == Init => RunInit /\ KafkaInit /\ CodecInit /\ OperatorsInit /\ SseInit
  BY DEF Init

LEMMA PartsStep ==
    ASSUME [Next]_<<part, runVars, kafkaVars, codecVars, operatorVars, sseVars>>
    PROVE  /\ [RunNext]_runVars /\ [KafkaNext]_kafkaVars /\ [CodecNext]_codecVars
           /\ [OperatorsNext]_operatorVars /\ [SseNext]_sseVars
  BY DEF Next

\* runner, kafka, schemaregistry, checks and the sse client: what is proved of
\* each of them alone holds of all of them together.
THEOREM PartsImplemented == Spec => RunSpec /\ KafkaSpec /\ CodecSpec /\ OperatorsSpec /\ SseSpec
  BY PartsBegin, PartsStep, PTL DEF Spec, RunSpec, KafkaSpec, CodecSpec, OperatorsSpec, SseSpec

\* The report and the exit code, the offsets, the caches, the lists the
\* operators build and the frames of a stream keep their types.
THEOREM TypeCorrect == Spec => []TypeOK
  <1>1. KafkaInv => KafkaTypeOK
    BY DEF KafkaInv
  <1>2. CodecInv => CodecTypeOK
    BY DEF CodecInv
  <1>3. OperatorsInv => OperatorsTypeOK
    BY DEF OperatorsInv
  <1>4. SseInv => SseTypeOK
    BY DEF SseInv
  <1>5. (RunTypeOK /\ KafkaTypeOK /\ CodecTypeOK /\ OperatorsTypeOK /\ SseTypeOK) => TypeOK
    BY DEF TypeOK
  <1> QED
    BY <1>1, <1>2, <1>3, <1>4, <1>5, PartsImplemented, RunTypeCorrect, KafkaInvariance, CodecInvariance,
       OperatorsInvariance, SseInvariance, PTL
=============================================================================
