---------------------------- MODULE MCScenarioRun ----------------------------
(***************************************************************************)
(* Instances, for model checking, of what a run of a scenario is made of:  *)
(* the run and its verdict, the Kafka client, the codec, the operators of  *)
(* checks and an sse step.  Their state is disjoint; the initial state     *)
(* decides which of them runs, and the others stay as they began.          *)
(***************************************************************************)
EXTENDS ScenarioRun, KafkaConsumer, SchemaCodec, CheckOperators, SseStream, TLC

CONSTANTS g1, c1, c2, k1, k2, x, y

VARIABLE part

Parts == {"run", "kafka", "codec", "operators", "sse"}

Chk(sev, at, other) == [severity |-> sev, step |-> at, otherwise |-> other]
Crit(at, other) == Chk("critical", at, other)

Doc(kafka, len, cs) == [valid |-> TRUE, kafka |-> kafka, steps |-> len, checks |-> cs]
Invalid   == [valid |-> FALSE, kafka |-> "none", steps |-> 0, checks |-> <<>>]
Plain     == Doc("ok", 2, <<Chk(Unset, 3, "false"), Crit(2, "true")>>)
Sensitive == Doc("none", 2, <<Crit(2, "false")>>)
Undefined == Doc("ok", 1, <<Chk("warning", 2, "NaN"), Crit(1, "error")>>)
Never3    == Doc("none", 1, <<Crit(3, "error"), Crit(2, "NaN")>>)
NoBroker  == Doc("bad", 1, <<Crit(1, "false")>>)
Docs      == {Invalid, Plain, Sensitive, Undefined, Never3, NoBroker}

Job(mode, files, more) ==
    {[mode |-> mode, files |-> files, keepGoing |-> k, reportTo |-> r, json |-> j, postgres |-> p] :
        k \in more.keepGoing, r \in more.reportTo, j \in more.json, p \in more.postgres}

No == {FALSE}
MCJobs ==
    UNION {Job("run", <<d>>, [keepGoing |-> No, reportTo |-> BOOLEAN, json |-> BOOLEAN, postgres |-> No]) : d \in Docs}
    \cup UNION {Job("batch", <<d, e>>, [keepGoing |-> BOOLEAN, reportTo |-> {TRUE}, json |-> No, postgres |-> No]) :
                    d \in Docs, e \in Docs \ {Undefined}}
    \cup UNION {Job("adhoc", <<d>>, [keepGoing |-> No, reportTo |-> No, json |-> No, postgres |-> BOOLEAN]) : d \in Docs}

Number(v) == [num |-> TRUE, v |-> v]
MCValues == {Number(0), Number(1), Number(4), [num |-> FALSE, v |-> 0]}
MCPercents == {-1, 0, 1, 50, 90, 99, 100, 101}
MCSseSteps == {[rules |-> TRUE, count |-> 2], [rules |-> FALSE, count |-> 0]}

Init ==
    /\ part \in Parts
    /\ IF part = "run" THEN RunInit ELSE RunInit /\ job = CHOOSE j \in Jobs : TRUE
    /\ KafkaInit
    /\ CodecInit /\ (part = "codec" \/ ttl = 0)
    /\ OperatorsInit /\ (part = "operators" \/ subject = "list")
    /\ SseInit /\ (part = "sse" \/ sse = [rules |-> FALSE, count |-> 0])

Next ==
    /\ UNCHANGED part
    /\ \/ part = "run" /\ RunNext /\ UNCHANGED <<kafkaVars, codecVars, operatorVars, sseVars>>
       \/ part = "kafka" /\ KafkaNext /\ UNCHANGED <<runVars, codecVars, operatorVars, sseVars>>
       \/ part = "codec" /\ CodecNext /\ UNCHANGED <<runVars, kafkaVars, operatorVars, sseVars>>
       \/ part = "operators" /\ OperatorsNext /\ UNCHANGED <<runVars, kafkaVars, codecVars, sseVars>>
       \/ part = "sse" /\ SseNext /\ UNCHANGED <<runVars, kafkaVars, codecVars, operatorVars>>

Spec == Init /\ [][Next]_<<part, runVars, kafkaVars, codecVars, operatorVars, sseVars>>

\* Goroutines that share a codec are interchangeable.
CallerSymmetry == Permutations(Callers)

\* Types of all parts.
TypeOK == RunTypeOK /\ KafkaTypeOK /\ CodecTypeOK /\ OperatorsTypeOK /\ SseTypeOK
=============================================================================
