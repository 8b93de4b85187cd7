---------------------------- MODULE KafkaConsumer ----------------------------
(***************************************************************************)
(* pkg/kafka/client.go as consume steps use it: subscribers cached by      *)
(* group and topic, batches, matches that end a step in the middle of a    *)
(* batch, fetch errors, and the commit on Close.  A process is one life of *)
(* the client; the next run of the scenario is the next life.              *)
(*                                                                         *)
(* One topic, one partition.  External is what franz-go does: a subscriber *)
(* of a group starts at the committed offset, one without a group at 0; a  *)
(* background commit covers what was polled before the last poll.          *)
(***************************************************************************)
EXTENDS Integers, Sequences, FiniteSets, SequencesExt

CONSTANTS
    Groups,         \* consumer groups the steps name
    NoGroup,        \* a step without a group
    MaxLog,         \* bound: records in the topic
    MaxBatch,       \* bound: records of one fetch
    MaxLives        \* bound: processes

ASSUME KafkaConsumerAssumption ==
    /\ NoGroup \notin Groups
    /\ MaxLog \in Nat /\ MaxBatch \in Nat \ {0} /\ MaxLives \in Nat \ {0}

VARIABLES
    log,        \* end offset of the topic
    life,       \* processes started
    up,         \* the client of this process is open
    subs,       \* cache: key -> [pos, before]: next offset to fetch, and before the last poll
    committed,  \* group -> committed offset, kept by the broker
    call,       \* the Consume that runs: [who, batch]
    got,        \* history: group -> offsets handed to its steps in this life, in order
    settled     \* history: group -> offsets handed to its steps in any life, or
                \* fetched for them and dropped

kafkaVars == <<log, life, up, subs, committed, call, got, settled>>

Who     == Groups \cup {NoGroup}
NoCall  == [who |-> NoGroup, batch |-> <<>>, on |-> FALSE]

KafkaInit ==
    /\ log = 0 /\ life = 1 /\ up = TRUE
    /\ subs = <<>> /\ committed = [g \in Groups |-> 0]
    /\ call = NoCall
    /\ got = [g \in Who |-> <<>>] /\ settled = [g \in Who |-> {}]

\* Plausible bug: subscribers are cached by topic alone.
KeyOfTopic(who) == NoGroup

\* req.Group + "|" + req.Topic.
Key(who) == who

\* The group a subscriber joined is the one its key was built for.
Start(who) == IF who \in Groups THEN committed[who] ELSE 0
-----------------------------------------------------------------------------
\* ProduceSync returned, or failed after the broker had written the record.
Produce ==
    /\ log < MaxLog /\ log' = log + 1
    /\ UNCHANGED <<life, up, subs, committed, call, got, settled>>

\* subscriberFor: the cached subscriber, or a new one.
SubscriberFor(who) ==
    subs' = IF Key(who) \in DOMAIN subs THEN subs
            ELSE [k \in DOMAIN subs \cup {Key(who)} |->
                     IF k \in DOMAIN subs THEN subs[k]
                     ELSE [pos |-> Start(who), before |-> Start(who)]]

\* A consume step begins; the steps of a run follow each other.
Consume(who) ==
    /\ up /\ ~call.on
    /\ SubscriberFor(who)
    /\ call' = [who |-> who, batch |-> <<>>, on |-> TRUE]
    /\ UNCHANGED <<log, life, up, committed, got, settled>>

Sub == subs[Key(call.who)]

\* PollFetches: the records at the position, which moves behind them.
PollFetches ==
    /\ call.on /\ call.batch = <<>> /\ Sub.pos < log
    /\ \E size \in 1..MaxBatch :
         /\ Sub.pos + size <= log
         /\ call' = [call EXCEPT !.batch = [i \in 1..size |-> Sub.pos + i - 1]]
         /\ subs' = [subs EXCEPT ![Key(call.who)] = [pos |-> Sub.pos + size, before |-> Sub.pos]]
    /\ UNCHANGED <<log, life, up, committed, got, settled>>

\* fn returned nil: the record is no match, the step goes on.
Deliver ==
    /\ call.on /\ call.batch # <<>>
    /\ got' = [got EXCEPT ![call.who] = Append(@, Head(call.batch))]
    /\ settled' = [settled EXCEPT ![call.who] = @ \cup {Head(call.batch)}]
    /\ call' = [call EXCEPT !.batch = Tail(@)]
    /\ UNCHANGED <<log, life, up, subs, committed>>

\* fn returned errMatched, or an error: Consume returns, and the rest of the
\* batch is gone for the cached subscriber.
Match ==
    /\ call.on /\ call.batch # <<>>
    /\ got' = [got EXCEPT ![call.who] = Append(@, Head(call.batch))]
    /\ settled' = [settled EXCEPT ![call.who] = @ \cup Range(call.batch)]
    /\ call' = NoCall
    /\ UNCHANGED <<log, life, up, subs, committed>>

\* A fetch error of one partition ends the step before the records that came
\* with it are looked at.
FetchError ==
    /\ call.on /\ call.batch = <<>>
    /\ \E size \in 0..MaxBatch :
         /\ Sub.pos + size <= log
         /\ subs' = [subs EXCEPT ![Key(call.who)] = [pos |-> Sub.pos + size, before |-> Sub.pos]]
         /\ settled' = [settled EXCEPT ![call.who] = @ \cup (Sub.pos .. Sub.pos + size - 1)]
    /\ call' = NoCall
    /\ UNCHANGED <<log, life, up, committed, got>>

\* The step's timeout or the run's context, looked at between two batches.
ContextEnds ==
    /\ call.on /\ call.batch = <<>>
    /\ call' = NoCall
    /\ UNCHANGED <<log, life, up, subs, committed, got, settled>>

\* franz-go commits in the background, up to the poll before the last.
AutoCommit(g) ==
    /\ up /\ Key(g) \in DOMAIN subs /\ committed[g] < subs[Key(g)].before
    /\ committed' = [committed EXCEPT ![g] = subs[Key(g)].before]
    /\ UNCHANGED <<log, life, up, subs, call, got, settled>>

\* Plausible bug: what is committed is one past the next offset.
CloseSubscriberLate(g) == IF g \in DOMAIN subs THEN subs[g].pos + 1 ELSE committed[g]

\* Only subscribers with a group commit.
CloseSubscriber(g) == IF g \in DOMAIN subs THEN subs[g].pos ELSE committed[g]

\* Close, deferred in doRun: every subscriber commits what was polled, within
\* five seconds and without looking at errors.
Close ==
    /\ up /\ ~call.on
    /\ up' = FALSE /\ subs' = <<>>
    /\ \/ committed' = [g \in Groups |-> CloseSubscriber(g)]
       \/ UNCHANGED committed
    /\ UNCHANGED <<log, life, call, got, settled>>

\* The process is killed.
Crash ==
    /\ up /\ up' = FALSE
    /\ subs' = <<>> /\ call' = NoCall
    /\ UNCHANGED <<log, life, committed, got, settled>>

NextLife ==
    /\ ~up /\ life < MaxLives
    /\ up' = TRUE /\ life' = life + 1
    /\ got' = [g \in Who |-> <<>>]
    /\ UNCHANGED <<log, subs, committed, call, settled>>

KafkaNext ==
    \/ Produce \/ PollFetches \/ Deliver \/ Match \/ FetchError \/ ContextEnds
    \/ \E g \in Who : Consume(g)
    \/ \E g \in Groups : AutoCommit(g)
    \/ Close \/ Crash \/ NextLife

KafkaSpec == KafkaInit /\ [][KafkaNext]_kafkaVars
-----------------------------------------------------------------------------
(* Properties                                                              *)

KafkaTypeOK ==
    /\ log \in 0..MaxLog /\ life \in 1..MaxLives /\ up \in BOOLEAN
    /\ DOMAIN subs \subseteq Who
    /\ \A k \in DOMAIN subs : subs[k].pos \in 0..log /\ subs[k].before \in 0..subs[k].pos
    /\ committed \in [Groups -> 0..log]
    /\ call \in [who : Who, batch : Seq(0..MaxLog), on : BOOLEAN]
    /\ got \in [Who -> Seq(0..MaxLog)] /\ settled \in [Who -> SUBSET (0..MaxLog)]

\* What consume steps can rely on: within a run the steps of a group get each
\* record at most once and in order, and what they get or the broker holds as
\* consumed leaves no gap, over restarts and crashes too: every smaller offset
\* was handed to a step of the same group, or was fetched behind a match or
\* with a failing fetch.  Those are lost: the next step never sees them.
NoSilentGap ==
    \A g \in Who :
        /\ \A i, j \in DOMAIN got[g] : i < j => got[g][i] < got[g][j]
        /\ \A o \in Range(got[g]) : 0..o \subseteq settled[g]
        /\ g \in Groups => 0..(committed[g] - 1) \subseteq settled[g]

\* Why: the offset the next record of g has, the batch being handed out
\* included, bounds what its steps got, and everything below it is settled.
Pending(g)    == IF call.on /\ call.who = g THEN Len(call.batch) ELSE 0
NextOffset(g) == subs[g].pos - Pending(g)

CallInv ==
    /\ call.on => up /\ call.who \in DOMAIN subs
    /\ ~call.on => call.batch = <<>>
    /\ ~up => DOMAIN subs = {}
    /\ \A g \in Who : up /\ got[g] # <<>> => g \in DOMAIN subs
    /\ \A i \in 1..Len(call.batch) :
           call.batch[i] = NextOffset(call.who) + i - 1 /\ call.batch[i] >= 0

SubscriberInv == \A g \in DOMAIN subs :
    /\ NextOffset(g) >= 0 /\ 0..(NextOffset(g) - 1) \subseteq settled[g]
    /\ 0..(subs[g].before - 1) \subseteq settled[g]
    /\ \A i \in DOMAIN got[g] : got[g][i] < NextOffset(g)

KafkaInv == KafkaTypeOK /\ CallInv /\ SubscriberInv /\ NoSilentGap
=============================================================================
