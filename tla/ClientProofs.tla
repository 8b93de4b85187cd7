---------------------------- MODULE ClientProofs -----------------------------
(***************************************************************************)
(* Proofs about what steps talk through: the Kafka client (KafkaConsumer), *)
(* the codec (SchemaCodec) and an sse step (SseStream), for all groups,    *)
(* callers, logs, clocks, steps and numbers of lines.                      *)
(***************************************************************************)
EXTENDS KafkaConsumer, SchemaCodec, SseStream, FiniteSetTheorems, TLAPS

LEMMA SeqElements ==
    ASSUME NEW S, NEW s \in Seq(S)
    PROVE  Len(s) \in Nat /\ DOMAIN s = 1..Len(s) /\ \A i \in 1..Len(s) : s[i] \in S
  OBVIOUS

\* What appending and taking the head off do, element by element.
LEMMA SeqAppend ==
    ASSUME NEW S, NEW s \in Seq(S), NEW e \in S
    PROVE  /\ Append(s, e) \in Seq(S) /\ Len(Append(s, e)) = Len(s) + 1
           /\ DOMAIN Append(s, e) = 1..(Len(s) + 1) /\ Append(s, e) # <<>>
           /\ Append(s, e)[Len(s) + 1] = e
           /\ \A i \in 1..Len(s) : Append(s, e)[i] = s[i]
  OBVIOUS

LEMMA SeqHead ==
    ASSUME NEW S, NEW s \in Seq(S), s # <<>>
    PROVE  /\ Head(s) = s[1] /\ Head(s) \in S /\ Len(s) > 0
           /\ Tail(s) \in Seq(S) /\ Len(Tail(s)) = Len(s) - 1
           /\ \A i \in 1..(Len(s) - 1) : Tail(s)[i] = s[i + 1]
  OBVIOUS
-----------------------------------------------------------------------------
(* The Kafka client                                                        *)

\* What KafkaInv says of the numbers a step of the proof computes with.
LEMMA KafkaFacts ==
    ASSUME KafkaInv
    PROVE  /\ log \in Nat /\ MaxLog \in Nat /\ log <= MaxLog /\ call.who \in Who
           /\ call.batch \in Seq(0..MaxLog) /\ Len(call.batch) \in Nat /\ call.on \in BOOLEAN
           /\ \A g \in Who : /\ got[g] \in Seq(0..MaxLog) /\ Len(got[g]) \in Nat
                             /\ \A i \in 1..Len(got[g]) : got[g][i] \in Nat
                             /\ settled[g] \in SUBSET (0..MaxLog)
                             /\ Pending(g) \in Nat
           /\ \A g \in DOMAIN subs : /\ g \in Who /\ subs[g].pos \in Nat /\ subs[g].before \in Nat
                                     /\ subs[g].before <= subs[g].pos /\ subs[g].pos <= log
                                     /\ NextOffset(g) \in Nat /\ NextOffset(g) <= subs[g].pos
           /\ \A g \in Groups : g \in Who /\ committed[g] \in 0..log
  <1>1. /\ log \in Nat /\ MaxLog \in Nat /\ log <= MaxLog /\ call.who \in Who
        /\ call.batch \in Seq(0..MaxLog) /\ Len(call.batch) \in Nat /\ call.on \in BOOLEAN
    BY KafkaConsumerAssumption DEF KafkaInv, KafkaTypeOK
  <1>2. ASSUME NEW g \in Who
        PROVE  /\ got[g] \in Seq(0..MaxLog) /\ Len(got[g]) \in Nat
               /\ \A i \in 1..Len(got[g]) : got[g][i] \in Nat
               /\ settled[g] \in SUBSET (0..MaxLog) /\ Pending(g) \in Nat
    <2>1. got[g] \in Seq(0..MaxLog)
      BY DEF KafkaInv, KafkaTypeOK
    <2>2. Len(got[g]) \in Nat /\ \A i \in 1..Len(got[g]) : got[g][i] \in 0..MaxLog
      BY <2>1, SeqElements
    <2>3. settled[g] \in SUBSET (0..MaxLog)
      BY DEF KafkaInv, KafkaTypeOK
    <2>4. Pending(g) \in Nat
      BY <1>1 DEF Pending
    <2> QED
      BY <1>1, <2>1, <2>2, <2>3, <2>4
  <1>3. ASSUME NEW g \in DOMAIN subs
        PROVE  /\ g \in Who /\ subs[g].pos \in Nat /\ subs[g].before \in Nat
               /\ subs[g].before <= subs[g].pos /\ subs[g].pos <= log
               /\ NextOffset(g) \in Nat /\ NextOffset(g) <= subs[g].pos
    <2>1. /\ g \in Who /\ subs[g].pos \in Nat /\ subs[g].before \in Nat
          /\ subs[g].before <= subs[g].pos /\ subs[g].pos <= log
      BY <1>1 DEF KafkaInv, KafkaTypeOK
    <2>2. NextOffset(g) >= 0 /\ Pending(g) \in Nat
      BY <1>2, <2>1 DEF KafkaInv, SubscriberInv
    <2> QED
      BY <2>1, <2>2 DEF NextOffset
  <1>4. \A g \in Groups : g \in Who /\ committed[g] \in 0..log
    BY DEF KafkaInv, KafkaTypeOK, Who
  <1> QED
    BY <1>1, <1>2, <1>3, <1>4

LEMMA SubscriberFacts ==
    ASSUME KafkaInv, NEW g \in DOMAIN subs
    PROVE  /\ g \in Who /\ subs[g].pos \in Nat /\ subs[g].before \in Nat /\ log \in Nat
           /\ subs[g].before <= subs[g].pos /\ subs[g].pos <= log
           /\ NextOffset(g) \in Nat /\ NextOffset(g) <= subs[g].pos
  BY KafkaFacts

LEMMA ProduceKeeps ==
    ASSUME KafkaInv, Produce
    PROVE  KafkaInv'
  <1>1. log' = log + 1 /\ log' <= MaxLog /\ UNCHANGED <<life, up, subs, committed, call, got, settled>>
    BY KafkaFacts DEF Produce
  <1>2. KafkaTypeOK'
    BY <1>1, KafkaFacts DEF KafkaInv, KafkaTypeOK
  <1>3. CallInv' /\ SubscriberInv' /\ NoSilentGap'
    BY <1>1 DEF KafkaInv, CallInv, SubscriberInv, NoSilentGap, NextOffset, Pending
  <1> QED
    BY <1>2, <1>3 DEF KafkaInv

\* A call that returns with nothing pending leaves every subscriber where it was.
LEMMA ContextEndsKeeps ==
    ASSUME KafkaInv, ContextEnds
    PROVE  KafkaInv'
  <1>1. /\ call.batch = <<>> /\ call'.batch = <<>> /\ ~call'.on /\ call'.who \in Who
        /\ call' \in [who : Who, batch : Seq(0..MaxLog), on : BOOLEAN]
        /\ UNCHANGED <<log, life, up, subs, committed, got, settled>>
    BY DEF ContextEnds, NoCall, Who
  <1>2. KafkaTypeOK'
    BY <1>1 DEF KafkaInv, KafkaTypeOK
  <1>3. \A g \in Who : Pending(g) = 0 /\ Pending(g)' = 0
    BY <1>1 DEF Pending
  <1>4. \A g \in DOMAIN subs : NextOffset(g)' = NextOffset(g)
    BY <1>1, <1>3, KafkaFacts DEF NextOffset
  <1>5. CallInv'
    BY <1>1 DEF KafkaInv, CallInv
  <1>6. SubscriberInv'
    BY <1>1, <1>4 DEF KafkaInv, SubscriberInv
  <1>7. NoSilentGap'
    BY <1>1 DEF KafkaInv, NoSilentGap
  <1> QED
    BY <1>2, <1>5, <1>6, <1>7 DEF KafkaInv

LEMMA AutoCommitKeeps ==
    ASSUME KafkaInv, NEW g \in Groups, AutoCommit(g)
    PROVE  KafkaInv'
  <1>1. /\ g \in DOMAIN subs /\ committed' = [committed EXCEPT ![g] = subs[g].before]
        /\ UNCHANGED <<log, life, up, subs, call, got, settled>>
    BY DEF AutoCommit, Key
  <1>2. subs[g].before \in 0..log /\ 0..(subs[g].before - 1) \subseteq settled[g]
    <2>1. subs[g].before \in 0..log
      BY <1>1, SubscriberFacts
    <2>2. 0..(subs[g].before - 1) \subseteq settled[g]
      BY <1>1 DEF KafkaInv, SubscriberInv
    <2> QED
      BY <2>1, <2>2
  <1>3. KafkaTypeOK'
    BY <1>1, <1>2 DEF KafkaInv, KafkaTypeOK
  <1>4. CallInv' /\ SubscriberInv'
    BY <1>1 DEF KafkaInv, CallInv, SubscriberInv, NextOffset, Pending
  <1>5. \A h \in Groups : 0..(committed'[h] - 1) \subseteq settled[h]
    BY <1>1, <1>2, KafkaFacts DEF KafkaInv, KafkaTypeOK, NoSilentGap
  <1>6. NoSilentGap'
    BY <1>1, <1>5 DEF KafkaInv, NoSilentGap
  <1> QED
    BY <1>3, <1>4, <1>6 DEF KafkaInv

\* The client is gone, by Close or with its process: only what the broker and
\* the steps hold is left, and that has no gap.
LEMMA DownKeeps ==
    ASSUME KafkaInv, Close \/ Crash
    PROVE  KafkaInv'
  <1>1. /\ up' = FALSE /\ subs' = <<>> /\ call'.batch = <<>> /\ ~call'.on
        /\ call' \in [who : Who, batch : Seq(0..MaxLog), on : BOOLEAN]
        /\ UNCHANGED <<log, life, got, settled>>
    <2>1. (UNCHANGED call /\ ~call.on) \/ call' = NoCall
      BY DEF Close, Crash
    <2>2. NoCall \in [who : Who, batch : Seq(0..MaxLog), on : BOOLEAN] /\ ~NoCall.on /\ NoCall.batch = <<>>
      BY DEF NoCall, Who
    <2>3. call'.batch = <<>> /\ ~call'.on /\ call' \in [who : Who, batch : Seq(0..MaxLog), on : BOOLEAN]
      BY <2>1, <2>2 DEF KafkaInv, CallInv, KafkaTypeOK
    <2> QED
      BY <2>3 DEF Close, Crash
  <1>2. DOMAIN subs' = {}
    BY <1>1
  <1>3. /\ committed' \in [Groups -> 0..log]
        /\ \A h \in Groups : 0..(committed'[h] - 1) \subseteq settled[h]
    <2>1. CASE UNCHANGED committed
      BY <2>1 DEF KafkaInv, KafkaTypeOK, NoSilentGap, Who
    <2>2. CASE ~call.on /\ committed' = [g \in Groups |-> CloseSubscriber(g)]
      <3>1. \A g \in Groups \cap DOMAIN subs : NextOffset(g) = subs[g].pos
        BY <2>2, KafkaFacts DEF NextOffset, Pending
      <3>2. \A g \in Groups \cap DOMAIN subs :
                subs[g].pos \in 0..log /\ 0..(subs[g].pos - 1) \subseteq settled[g]
        BY <3>1, KafkaFacts DEF KafkaInv, SubscriberInv
      <3>3. \A g \in Groups : committed[g] \in 0..log /\ 0..(committed[g] - 1) \subseteq settled[g]
        BY KafkaFacts DEF KafkaInv, NoSilentGap
      <3> QED
        BY <2>2, <3>2, <3>3 DEF CloseSubscriber
    <2> QED
      BY <2>1, <2>2 DEF Close, Crash
  <1>4. KafkaTypeOK'
    BY <1>1, <1>2, <1>3 DEF KafkaInv, KafkaTypeOK
  <1>5. CallInv' /\ SubscriberInv'
    BY <1>1, <1>2 DEF CallInv, SubscriberInv
  <1>6. NoSilentGap'
    BY <1>1, <1>3 DEF KafkaInv, NoSilentGap
  <1> QED
    BY <1>4, <1>5, <1>6 DEF KafkaInv

LEMMA NextLifeKeeps ==
    ASSUME KafkaInv, NextLife
    PROVE  KafkaInv'
  <1>1. /\ ~up /\ up' = TRUE /\ life' = life + 1 /\ life' <= MaxLives
        /\ got' = [g \in Who |-> <<>>] /\ UNCHANGED <<log, subs, committed, call, settled>>
    BY KafkaConsumerAssumption DEF NextLife, KafkaInv, KafkaTypeOK
  <1>2. DOMAIN subs = {} /\ ~call.on /\ call.batch = <<>>
    BY <1>1 DEF KafkaInv, CallInv
  <1>3. got' \in [Who -> Seq(0..MaxLog)]
    <2>1. <<>> \in Seq(0..MaxLog)
      OBVIOUS
    <2> QED
      BY <1>1, <2>1
  <1>4. KafkaTypeOK'
    BY <1>1, <1>3, KafkaConsumerAssumption DEF KafkaInv, KafkaTypeOK
  <1>5. CallInv' /\ SubscriberInv'
    BY <1>1, <1>2 DEF CallInv, SubscriberInv
  <1>6. NoSilentGap'
    BY <1>1 DEF KafkaInv, NoSilentGap, Range
  <1> QED
    BY <1>4, <1>5, <1>6 DEF KafkaInv

LEMMA ConsumeKeeps ==
    ASSUME KafkaInv, NEW who \in Who, Consume(who)
    PROVE  KafkaInv'
  <1> DEFINE start == [pos |-> Start(who), before |-> Start(who)]
  <1>1. /\ up /\ ~call.on /\ call.batch = <<>>
        /\ call' = [who |-> who, batch |-> <<>>, on |-> TRUE]
        /\ UNCHANGED <<log, life, up, committed, got, settled>>
    BY DEF Consume, KafkaInv, CallInv
  <1>2. /\ Start(who) \in 0..log /\ 0..(Start(who) - 1) \subseteq settled[who]
    <2>1. CASE who \in Groups
      BY <2>1, KafkaFacts DEF Start, KafkaInv, NoSilentGap
    <2>2. CASE who \notin Groups
      BY <2>2, KafkaFacts DEF Start
    <2> QED
      BY <2>1, <2>2
  <1>3. /\ DOMAIN subs' = DOMAIN subs \cup {who}
        /\ \A g \in DOMAIN subs : subs'[g] = subs[g]
        /\ who \notin DOMAIN subs => subs'[who] = start
    BY DEF Consume, SubscriberFor, Key
  <1>4. KafkaTypeOK'
    <2>1. call' \in [who : Who, batch : Seq(0..MaxLog), on : BOOLEAN]
      BY <1>1
    <2>2. \A k \in DOMAIN subs' : subs'[k].pos \in 0..log /\ subs'[k].before \in 0..subs'[k].pos
      <3>1. \A k \in DOMAIN subs : subs'[k].pos \in 0..log /\ subs'[k].before \in 0..subs'[k].pos
        BY <1>3 DEF KafkaInv, KafkaTypeOK
      <3>2. start.pos \in 0..log /\ start.before \in 0..start.pos
        BY <1>2, KafkaFacts
      <3> HIDE DEF start
      <3> QED
        BY <1>3, <3>1, <3>2
    <2> QED
      BY <1>1, <1>3, <2>1, <2>2 DEF KafkaInv, KafkaTypeOK
  <1>5. \A g \in Who : Pending(g) = 0 /\ Pending(g)' = 0
    BY <1>1 DEF Pending
  <1>6. \A g \in DOMAIN subs : NextOffset(g)' = NextOffset(g)
    BY <1>1, <1>3, <1>5, KafkaFacts DEF NextOffset
  <1>7. CallInv'
    BY <1>1, <1>3 DEF KafkaInv, CallInv
  <1>8. SubscriberInv'
    <2>1. ASSUME who \notin DOMAIN subs
          PROVE  /\ NextOffset(who)' = Start(who) /\ subs'[who].before = Start(who)
                 /\ got[who] = <<>> /\ Start(who) \in Nat
      BY <1>1, <1>2, <1>3, <1>5, <2>1, KafkaFacts DEF NextOffset, KafkaInv, CallInv
    <2>2. ASSUME NEW g \in DOMAIN subs'
          PROVE  /\ NextOffset(g)' >= 0 /\ 0..(NextOffset(g)' - 1) \subseteq settled'[g]
                 /\ 0..(subs'[g].before - 1) \subseteq settled'[g]
                 /\ \A i \in DOMAIN got'[g] : got'[g][i] < NextOffset(g)'
      <3>1. CASE g \in DOMAIN subs
        BY <1>1, <1>3, <1>6, <3>1 DEF KafkaInv, SubscriberInv
      <3>2. CASE g = who /\ who \notin DOMAIN subs
        BY <1>1, <1>2, <2>1, <3>2
      <3> QED
        BY <1>3, <3>1, <3>2
    <2> QED
      BY <2>2 DEF SubscriberInv
  <1>9. NoSilentGap'
    BY <1>1 DEF KafkaInv, NoSilentGap
  <1> QED
    BY <1>4, <1>7, <1>8, <1>9 DEF KafkaInv

\* A subscriber with nothing pending moves to a new position: with a batch
\* that starts where it stood, or past records that are dropped.
LEMMA PollKeeps ==
    ASSUME KafkaInv, PollFetches
    PROVE  KafkaInv'
  <1>0. PICK w \in Who, p \in Int : w = call.who /\ p = subs[w].pos
    <2>1. call.who \in DOMAIN subs
      BY DEF PollFetches, KafkaInv, CallInv
    <2> QED
      BY <2>1, SubscriberFacts
  <1>1. /\ call.on /\ call.batch = <<>> /\ w \in DOMAIN subs /\ up
        /\ UNCHANGED <<log, life, up, committed, got, settled>>
    BY <1>0 DEF PollFetches, KafkaInv, CallInv
  <1>2. w \in Who /\ p \in Nat /\ Pending(w) = 0 /\ NextOffset(w) = p /\ log \in Nat /\ MaxLog \in Nat /\ log <= MaxLog
    BY <1>0, <1>1, SubscriberFacts, KafkaFacts DEF Pending, NextOffset
  <1>3. PICK size \in 1..MaxBatch :
            /\ p + size <= log
            /\ call' = [call EXCEPT !.batch = [i \in 1..size |-> p + i - 1]]
            /\ subs' = [subs EXCEPT ![w] = [pos |-> p + size, before |-> p]]
    BY <1>0 DEF PollFetches, Sub, Key
  <1> DEFINE batch == [i \in 1..size |-> p + i - 1]
  <1>4. size \in Nat /\ size > 0
    BY <1>3, KafkaConsumerAssumption
  <1>5. batch \in Seq(0..MaxLog) /\ Len(batch) = size /\ \A i \in 1..size : batch[i] = p + i - 1
    <2>1. batch \in [1..size -> 0..MaxLog]
      BY <1>2, <1>3, <1>4
    <2> QED
      BY <1>4, <2>1
  <1> HIDE DEF batch
  <1>6. /\ call' = [call EXCEPT !.batch = batch] /\ call'.on /\ call'.who = w /\ call'.batch = batch
        /\ call' \in [who : Who, batch : Seq(0..MaxLog), on : BOOLEAN]
    BY <1>0, <1>1, <1>3, <1>5 DEF KafkaInv, KafkaTypeOK, batch
  <1>7. /\ DOMAIN subs' = DOMAIN subs /\ \A g \in DOMAIN subs \ {w} : subs'[g] = subs[g]
        /\ subs'[w].pos = p + size /\ subs'[w].before = p
    BY <1>1, <1>3
  <1>8. KafkaTypeOK'
    <2>1. p + size \in 0..log /\ p \in 0..(p + size)
      BY <1>2, <1>3, <1>4
    <2>2. \A k \in DOMAIN subs' : subs'[k].pos \in 0..log /\ subs'[k].before \in 0..subs'[k].pos
      BY <1>7, <2>1 DEF KafkaInv, KafkaTypeOK
    <2> QED
      BY <1>1, <1>6, <1>7, <2>2 DEF KafkaInv, KafkaTypeOK
  <1>9. NextOffset(w)' = p
    BY <1>2, <1>4, <1>5, <1>6, <1>7 DEF NextOffset, Pending
  <1>10. \A g \in DOMAIN subs \ {w} : NextOffset(g)' = NextOffset(g)
    BY <1>1, <1>6, <1>7 DEF NextOffset, Pending
  <1>11. CallInv'
    <2>1. NextOffset(call.who)' = p
      BY <1>2, <1>4, <1>5, <1>6, <1>7 DEF NextOffset, Pending
    <2>2. \A i \in 1..Len(call'.batch) : call'.batch[i] = p + i - 1 /\ call'.batch[i] >= 0
      BY <1>2, <1>4, <1>5, <1>6
    <2> QED
      BY <1>1, <1>6, <1>7, <2>1, <2>2 DEF KafkaInv, CallInv
  <1>12. SubscriberInv'
    <2>1. /\ p >= 0 /\ 0..(p - 1) \subseteq settled[w] /\ \A i \in DOMAIN got[w] : got[w][i] < p
      BY <1>1, <1>2 DEF KafkaInv, SubscriberInv
    <2>2. ASSUME NEW g \in DOMAIN subs'
          PROVE  /\ NextOffset(g)' >= 0 /\ 0..(NextOffset(g)' - 1) \subseteq settled'[g]
                 /\ 0..(subs'[g].before - 1) \subseteq settled'[g]
                 /\ \A i \in DOMAIN got'[g] : got'[g][i] < NextOffset(g)'
      <3>1. CASE g = w
        BY <1>1, <1>7, <1>9, <2>1, <3>1
      <3>2. CASE g # w
        BY <1>1, <1>7, <1>10, <3>2 DEF KafkaInv, SubscriberInv
      <3> QED
        BY <3>1, <3>2
    <2> QED
      BY <2>2 DEF SubscriberInv
  <1>13. NoSilentGap'
    BY <1>1 DEF KafkaInv, NoSilentGap
  <1> QED
    BY <1>8, <1>11, <1>12, <1>13 DEF KafkaInv

\* The head of a batch is the next offset of its group; delivering it, alone or
\* with the rest of the batch dropped, settles a prefix.
LEMMA HeadOfBatch ==
    ASSUME KafkaInv, call.on, call.batch # <<>>
    PROVE  \E w \in Who, o \in Nat, len \in Nat :
               /\ w = call.who /\ w \in DOMAIN subs /\ up
               /\ len = Len(call.batch) /\ len > 0
               /\ o = NextOffset(w) /\ o = Head(call.batch) /\ o \in 0..MaxLog
               /\ subs[w].pos = o + len
               /\ \A i \in 1..len : call.batch[i] = o + i - 1
               /\ 0..(o - 1) \subseteq settled[w]
               /\ \A i \in 1..Len(got[w]) : got[w][i] < o
  <1>1. call.who \in DOMAIN subs /\ up
    BY DEF KafkaInv, CallInv
  <1>2. PICK w \in Who, o \in Nat, len \in Nat :
            w = call.who /\ o = NextOffset(call.who) /\ len = Len(call.batch)
    BY <1>1, SubscriberFacts, KafkaFacts
  <1>3. call.batch \in Seq(0..MaxLog)
    BY KafkaFacts
  <1>4. len > 0 /\ Head(call.batch) = call.batch[1] /\ Head(call.batch) \in 0..MaxLog
    BY <1>2, <1>3, SeqHead
  <1>5. \A i \in 1..len : call.batch[i] = o + i - 1
    BY <1>2 DEF KafkaInv, CallInv
  <1>6. o = Head(call.batch)
    <2>1. 1 \in 1..len
      BY <1>4
    <2>2. call.batch[1] = o + 1 - 1
      BY <1>5, <2>1
    <2> QED
      BY <1>4, <2>2
  <1>7. subs[w].pos = o + len
    BY <1>1, <1>2, SubscriberFacts DEF NextOffset, Pending
  <1>8. 0..(o - 1) \subseteq settled[w] /\ \A i \in DOMAIN got[w] : got[w][i] < o
    BY <1>1, <1>2 DEF KafkaInv, SubscriberInv
  <1>9. DOMAIN got[w] = 1..Len(got[w])
    BY <1>2, KafkaFacts, SeqElements
  <1> QED
    BY <1>1, <1>2, <1>4, <1>5, <1>6, <1>7, <1>8, <1>9

\* What a step gets next leaves its history in order and without a gap.
LEMMA GotMore ==
    ASSUME KafkaInv, NEW w \in Who, NEW o \in 0..MaxLog, 0..(o - 1) \subseteq settled[w],
           \A i \in 1..Len(got[w]) : got[w][i] < o,
           got' = [got EXCEPT ![w] = Append(@, o)],
           NEW more \in SUBSET (0..MaxLog), o \in more,
           settled' = [settled EXCEPT ![w] = @ \cup more],
           UNCHANGED committed
    PROVE  /\ got' \in [Who -> Seq(0..MaxLog)] /\ settled' \in [Who -> SUBSET (0..MaxLog)]
           /\ NoSilentGap'
           /\ \A i \in DOMAIN got'[w] : got'[w][i] < o + 1
           /\ got'[w] # <<>>
           /\ \A g \in Who : settled[g] \subseteq settled'[g]
           /\ settled'[w] = settled[w] \cup more
           /\ \A g \in Who \ {w} : got'[g] = got[g]
  <1> DEFINE s == got[w]
             n == Len(s)
  <1>1. s \in Seq(0..MaxLog) /\ n \in Nat /\ MaxLog \in Nat /\ o \in Nat
        /\ \A i \in 1..n : s[i] \in Nat
    BY KafkaFacts
  <1>2. /\ Append(s, o) \in Seq(0..MaxLog) /\ Len(Append(s, o)) = n + 1
        /\ Append(s, o)[n + 1] = o /\ \A i \in 1..n : Append(s, o)[i] = s[i]
        /\ DOMAIN Append(s, o) = 1..(n + 1) /\ Append(s, o) # <<>>
    <2> HIDE DEF s
    <2> QED
      BY <1>1, SeqAppend
  <1>3. got \in [Who -> Seq(0..MaxLog)] /\ settled \in [Who -> SUBSET (0..MaxLog)]
    BY DEF KafkaInv, KafkaTypeOK
  <1> DEFINE t == Append(s, o)
  <1>4. /\ got'[w] = t /\ \A g \in Who \ {w} : got'[g] = got[g]
        /\ got' \in [Who -> Seq(0..MaxLog)]
    BY <1>2, <1>3
  <1>5. /\ settled'[w] = settled[w] \cup more /\ \A g \in Who \ {w} : settled'[g] = settled[g]
        /\ settled' \in [Who -> SUBSET (0..MaxLog)]
    BY <1>3
  <1>6. /\ t[n + 1] = o /\ \A i \in 1..n : t[i] = s[i]
        /\ DOMAIN t = 1..(n + 1) /\ t # <<>> /\ DOMAIN s = 1..n
        /\ \A i \in 1..n : s[i] < o
    BY <1>1, <1>2, SeqElements
  <1> HIDE DEF t, n
  <1>7. \A i, j \in DOMAIN s : i < j => s[i] < s[j]
    BY DEF KafkaInv, NoSilentGap
  <1>8. \A i \in DOMAIN s : 0..s[i] \subseteq settled[w]
    BY DEF KafkaInv, NoSilentGap, Range
  <1> HIDE DEF s
  <1>n. n \in Nat
    BY <1>1 DEF n
  <1>9. \A i, j \in DOMAIN t : i < j => t[i] < t[j]
    <2> SUFFICES ASSUME NEW i \in 1..(n + 1), NEW j \in 1..(n + 1), i < j PROVE t[i] < t[j]
      BY <1>6
    <2>1. i \in 1..n
      BY <1>n
    <2>2. CASE j = n + 1
      BY <1>6, <2>1, <2>2
    <2>3. CASE j # n + 1
      <3>1. j \in 1..n /\ i \in DOMAIN s /\ j \in DOMAIN s
        BY <1>6, <1>n, <2>1, <2>3
      <3>2. s[i] < s[j]
        BY <1>7, <3>1
      <3> QED
        BY <1>6, <2>1, <3>1, <3>2
    <2> QED
      BY <2>2, <2>3
  <1>10. \A i \in DOMAIN t : t[i] < o + 1 /\ 0..t[i] \subseteq settled'[w]
    <2> SUFFICES ASSUME NEW i \in 1..(n + 1) PROVE t[i] < o + 1 /\ 0..t[i] \subseteq settled'[w]
      BY <1>6
    <2>1. CASE i = n + 1
      <3>1. 0..o \subseteq settled'[w]
        BY <1>1, <1>5
      <3> QED
        BY <1>1, <1>6, <2>1, <3>1
    <2>2. CASE i # n + 1
      <3>1. i \in 1..n /\ t[i] = s[i] /\ s[i] \in Nat /\ s[i] < o
        BY <1>1, <1>6, <1>n, <2>2
      <3>2. 0..s[i] \subseteq settled[w]
        BY <1>6, <1>8, <3>1
      <3> QED
        BY <1>1, <1>5, <3>1, <3>2
    <2> QED
      BY <2>1, <2>2
  <1>11. NoSilentGap'
    <2>1. \A g \in Groups : 0..(committed[g] - 1) \subseteq settled'[g]
      BY <1>5 DEF KafkaInv, NoSilentGap, Who
    <2>2. ASSUME NEW g \in Who
          PROVE  /\ \A i, j \in DOMAIN got'[g] : i < j => got'[g][i] < got'[g][j]
                 /\ \A x \in Range(got'[g]) : 0..x \subseteq settled'[g]
      <3>1. CASE g = w
        BY <1>4, <1>9, <1>10, <3>1 DEF Range
      <3>2. CASE g # w
        BY <1>4, <1>5, <3>2 DEF KafkaInv, NoSilentGap
      <3> QED
        BY <3>1, <3>2
    <2> QED
      BY <2>1, <2>2 DEF NoSilentGap
  <1>12. \A g \in Who : settled[g] \subseteq settled'[g]
    BY <1>5
  <1> QED
    BY <1>4, <1>5, <1>6, <1>10, <1>11, <1>12

\* fn returned nil: the rest of the batch is pending, one offset further.
LEMMA DeliverKeeps ==
    ASSUME KafkaInv, Deliver
    PROVE  KafkaInv'
  <1>1. call.on /\ call.batch # <<>> /\ UNCHANGED <<log, life, up, subs, committed>>
    BY DEF Deliver
  <1>2. PICK w \in Who, o \in Nat, len \in Nat :
            /\ w = call.who /\ w \in DOMAIN subs /\ up
            /\ len = Len(call.batch) /\ len > 0
            /\ o = NextOffset(w) /\ o = Head(call.batch) /\ o \in 0..MaxLog
            /\ subs[w].pos = o + len
            /\ \A i \in 1..len : call.batch[i] = o + i - 1
            /\ 0..(o - 1) \subseteq settled[w]
            /\ \A i \in 1..Len(got[w]) : got[w][i] < o
    BY <1>1, HeadOfBatch
  <1>3. /\ got' = [got EXCEPT ![w] = Append(@, o)]
        /\ settled' = [settled EXCEPT ![w] = @ \cup {o}]
        /\ call' = [call EXCEPT !.batch = Tail(@)]
    BY <1>2 DEF Deliver
  <1>4. /\ got' \in [Who -> Seq(0..MaxLog)] /\ settled' \in [Who -> SUBSET (0..MaxLog)]
        /\ NoSilentGap' /\ \A i \in DOMAIN got'[w] : got'[w][i] < o + 1
        /\ \A g \in Who : settled[g] \subseteq settled'[g]
        /\ settled'[w] = settled[w] \cup {o}
        /\ \A g \in Who \ {w} : got'[g] = got[g]
    <2> DEFINE more == {o}
    <2>1. more \in SUBSET (0..MaxLog) /\ o \in more
      BY <1>2
    <2>2. settled' = [settled EXCEPT ![w] = @ \cup more]
      BY <1>3
    <2> HIDE DEF more
    <2>3. /\ got' \in [Who -> Seq(0..MaxLog)] /\ settled' \in [Who -> SUBSET (0..MaxLog)]
          /\ NoSilentGap' /\ \A i \in DOMAIN got'[w] : got'[w][i] < o + 1
          /\ \A g \in Who : settled[g] \subseteq settled'[g]
          /\ settled'[w] = settled[w] \cup more
          /\ \A g \in Who \ {w} : got'[g] = got[g]
      BY <1>1, <1>2, <1>3, <2>1, <2>2, GotMore
    <2> QED
      BY <2>3 DEF more
  <1>5. PICK rest \in Seq(0..MaxLog) :
            /\ rest = Tail(call.batch) /\ Len(rest) = len - 1
            /\ \A i \in 1..(len - 1) : rest[i] = call.batch[i + 1]
    <2>1. call.batch \in Seq(0..MaxLog)
      BY KafkaFacts
    <2> DEFINE b == call.batch
    <2>2. b \in Seq(0..MaxLog) /\ b # <<>> /\ len = Len(b)
      BY <1>1, <1>2, <2>1
    <2> HIDE DEF b
    <2>3. /\ Tail(b) \in Seq(0..MaxLog) /\ Len(Tail(b)) = len - 1
          /\ \A i \in 1..(len - 1) : Tail(b)[i] = b[i + 1]
      BY <2>2, SeqHead
    <2> QED
      BY <2>3 DEF b
  <1>6. /\ call'.on /\ call'.who = w /\ call'.batch = rest
        /\ call' \in [who : Who, batch : Seq(0..MaxLog), on : BOOLEAN]
    BY <1>1, <1>2, <1>3, <1>5 DEF KafkaInv, KafkaTypeOK
  <1>7. KafkaTypeOK'
    BY <1>1, <1>4, <1>6 DEF KafkaInv, KafkaTypeOK
  <1>8. NextOffset(w)' = o + 1
    BY <1>1, <1>2, <1>5, <1>6 DEF NextOffset, Pending
  <1>9. \A g \in DOMAIN subs \ {w} : NextOffset(g)' = NextOffset(g)
    BY <1>1, <1>2, <1>6 DEF NextOffset, Pending
  <1>10. CallInv'
    <2>1. NextOffset(call.who)' = o + 1
      BY <1>6, <1>8 DEF NextOffset, Pending
    <2>2. \A i \in 1..Len(call'.batch) : call'.batch[i] = o + 1 + i - 1 /\ call'.batch[i] >= 0
      <3> SUFFICES ASSUME NEW i \in 1..(len - 1) PROVE rest[i] = o + 1 + i - 1 /\ rest[i] >= 0
        BY <1>5, <1>6
      <3>1. i + 1 \in 1..len /\ i \in Nat /\ o \in Nat
        BY <1>2
      <3>2. call.batch[i + 1] = o + (i + 1) - 1
        BY <1>2, <3>1
      <3>3. rest[i] = o + (i + 1) - 1
        BY <1>5, <3>2
      <3> QED
        BY <3>1, <3>3
    <2>3. \A g \in Who : up' /\ got'[g] # <<>> => g \in DOMAIN subs'
      BY <1>1, <1>2, <1>4 DEF KafkaInv, CallInv
    <2> QED
      BY <1>1, <1>2, <1>6, <2>1, <2>2, <2>3 DEF CallInv
  <1>11. SubscriberInv'
    <2>1. 0..o \subseteq settled'[w]
      BY <1>2, <1>4
    <2>2. ASSUME NEW g \in DOMAIN subs'
          PROVE  /\ NextOffset(g)' >= 0 /\ 0..(NextOffset(g)' - 1) \subseteq settled'[g]
                 /\ 0..(subs'[g].before - 1) \subseteq settled'[g]
                 /\ \A i \in DOMAIN got'[g] : got'[g][i] < NextOffset(g)'
      <3>1. g \in Who /\ settled[g] \subseteq settled'[g]
        BY <1>1, <1>4, SubscriberFacts
      <3>2. CASE g = w
        <4>1. NextOffset(g)' = o + 1 /\ o + 1 >= 0 /\ (o + 1) - 1 = o
          BY <1>2, <1>8, <3>2 DEF NextOffset, Pending
        <4>0. subs' = subs /\ g \in DOMAIN subs
          BY <1>1
        <4>2. 0..(subs[g].before - 1) \subseteq settled[g]
          BY <4>0 DEF KafkaInv, SubscriberInv
        <4>3. 0..(NextOffset(g)' - 1) \subseteq settled'[g]
          BY <2>1, <3>2, <4>1
        <4>4. 0..(subs'[g].before - 1) \subseteq settled'[g]
          BY <3>1, <4>0, <4>2
        <4>5. \A i \in DOMAIN got'[g] : got'[g][i] < NextOffset(g)'
          BY <1>4, <3>2, <4>1
        <4> QED
          BY <4>1, <4>3, <4>4, <4>5
      <3>3. CASE g # w
        BY <1>1, <1>4, <1>9, <3>1, <3>3 DEF KafkaInv, SubscriberInv
      <3> QED
        BY <3>2, <3>3
    <2> QED
      BY <2>2 DEF SubscriberInv
  <1> QED
    BY <1>4, <1>7, <1>10, <1>11 DEF KafkaInv

\* A call that returned: nothing is pending, and each subscriber of the cache
\* stands where all that is below is settled.
LEMMA Returned ==
    ASSUME KafkaInv, KafkaTypeOK', NoSilentGap', call' = NoCall, UNCHANGED up,
           DOMAIN subs' = DOMAIN subs, \A g \in Who : settled[g] \subseteq settled'[g],
           NEW w \in DOMAIN subs,
           \A g \in DOMAIN subs \ {w} : subs'[g] = subs[g] /\ Pending(g) = 0,
           \A g \in Who \ {w} : got'[g] = got[g],
           subs'[w].pos \in Nat, subs'[w].before <= subs'[w].pos,
           0..(subs'[w].pos - 1) \subseteq settled'[w],
           \A i \in DOMAIN got'[w] : got'[w][i] < subs'[w].pos
    PROVE  KafkaInv'
  <1>1. call'.batch = <<>> /\ ~call'.on
    BY DEF NoCall
  <1>2. \A g \in Who : Pending(g)' = 0
    BY <1>1 DEF Pending
  <1>3. CallInv'
    BY <1>1 DEF KafkaInv, CallInv
  <1>4. ASSUME NEW g \in DOMAIN subs'
        PROVE  /\ NextOffset(g)' >= 0 /\ 0..(NextOffset(g)' - 1) \subseteq settled'[g]
               /\ 0..(subs'[g].before - 1) \subseteq settled'[g]
               /\ \A i \in DOMAIN got'[g] : got'[g][i] < NextOffset(g)'
    <2>1. g \in Who /\ settled[g] \subseteq settled'[g]
      BY SubscriberFacts
    <2>2. CASE g = w
      <3>1. NextOffset(g)' = subs'[w].pos
        BY <1>2, <2>1, <2>2 DEF NextOffset
      <3>2. subs'[w].before \in Nat
        BY DEF KafkaTypeOK
      <3> QED
        BY <2>2, <3>1, <3>2
    <2>3. CASE g # w
      <3>1. NextOffset(g)' = NextOffset(g) /\ subs'[g] = subs[g] /\ got'[g] = got[g]
        BY <1>2, <2>1, <2>3 DEF NextOffset
      <3> QED
        BY <2>1, <2>3, <3>1 DEF KafkaInv, SubscriberInv
    <2> QED
      BY <2>2, <2>3
  <1> QED
    BY <1>3, <1>4 DEF KafkaInv, SubscriberInv

\* A match: the rest of the batch is settled, and dropped.
LEMMA MatchKeeps ==
    ASSUME KafkaInv, Match
    PROVE  KafkaInv'
  <1>1. call.on /\ call.batch # <<>> /\ call' = NoCall /\ UNCHANGED <<log, life, up, subs, committed>>
    BY DEF Match
  <1>2. PICK w \in Who, o \in Nat, len \in Nat :
            /\ w = call.who /\ w \in DOMAIN subs /\ up
            /\ len = Len(call.batch) /\ len > 0
            /\ o = NextOffset(w) /\ o = Head(call.batch) /\ o \in 0..MaxLog
            /\ subs[w].pos = o + len
            /\ \A i \in 1..len : call.batch[i] = o + i - 1
            /\ 0..(o - 1) \subseteq settled[w]
            /\ \A i \in 1..Len(got[w]) : got[w][i] < o
    BY <1>1, HeadOfBatch
  <1> DEFINE more == Range(call.batch)
  <1>3. /\ got' = [got EXCEPT ![w] = Append(@, o)]
        /\ settled' = [settled EXCEPT ![w] = @ \cup more]
    BY <1>2 DEF Match
  <1>4. more \in SUBSET (0..MaxLog) /\ o..(o + len - 1) \subseteq more
    <2>1. DOMAIN call.batch = 1..len /\ \A i \in 1..len : call.batch[i] \in 0..MaxLog
      BY <1>2, KafkaFacts, SeqElements
    <2>2. ASSUME NEW x \in o..(o + len - 1)
          PROVE  x \in more
      <3>1. PICK i \in 1..len : o + i - 1 = x
        <4>1. x \in Int /\ o <= x /\ x <= o + len - 1
          BY <2>2
        <4> DEFINE i == x - o + 1
        <4>2. i \in 1..len /\ o + i - 1 = x
          BY <4>1
        <4> QED
          BY <4>2
      <3>2. call.batch[i] = x
        BY <1>2, <3>1
      <3> QED
        BY <2>1, <3>2 DEF Range
    <2> QED
      BY <2>1, <2>2 DEF Range
  <1>5. o \in more
    BY <1>2, <1>4
  <1> HIDE DEF more
  <1>6. /\ got' \in [Who -> Seq(0..MaxLog)] /\ settled' \in [Who -> SUBSET (0..MaxLog)]
        /\ NoSilentGap' /\ \A i \in DOMAIN got'[w] : got'[w][i] < o + 1
        /\ \A g \in Who : settled[g] \subseteq settled'[g]
        /\ settled'[w] = settled[w] \cup more
        /\ \A g \in Who \ {w} : got'[g] = got[g]
    BY <1>1, <1>2, <1>3, <1>4, <1>5, GotMore
  <1>7. KafkaTypeOK'
    <2>1. NoCall \in [who : Who, batch : Seq(0..MaxLog), on : BOOLEAN]
      BY DEF NoCall, Who
    <2> QED
      BY <1>1, <1>6, <2>1 DEF KafkaInv, KafkaTypeOK
  <1>8. 0..(subs'[w].pos - 1) \subseteq settled'[w] /\ subs'[w].pos \in Nat
    <2>1. subs'[w].pos = o + len
      BY <1>1, <1>2
    <2>2. settled'[w] = settled[w] \cup more /\ 0..(o - 1) \subseteq settled[w] /\ o..(o + len - 1) \subseteq more
      BY <1>2, <1>4, <1>6
    <2>3. ASSUME NEW x \in 0..(o + len - 1)
          PROVE  x \in 0..(o - 1) \/ x \in o..(o + len - 1)
      BY <1>2
    <2> QED
      BY <1>2, <2>1, <2>2, <2>3
  <1>9. \A i \in DOMAIN got'[w] : got'[w][i] < subs'[w].pos
    <2>1. DOMAIN got'[w] = 1..Len(got'[w]) /\ \A i \in 1..Len(got'[w]) : got'[w][i] \in Nat
      <3>1. got'[w] \in Seq(0..MaxLog)
        BY <1>6
      <3> DEFINE s == got'[w]
      <3> HIDE DEF s
      <3>2. DOMAIN s = 1..Len(s) /\ \A i \in 1..Len(s) : s[i] \in 0..MaxLog
        BY <3>1, SeqElements DEF s
      <3> QED
        BY <3>2 DEF s
    <2>2. subs'[w].pos = o + len
      BY <1>1, <1>2
    <2>3. ASSUME NEW i \in DOMAIN got'[w]
          PROVE  got'[w][i] < o + len
      <3>1. got'[w][i] \in Nat /\ got'[w][i] < o + 1
        BY <1>6, <2>1
      <3> QED
        BY <1>2, <3>1
    <2> QED
      BY <2>2, <2>3
  <1>10. \A g \in DOMAIN subs \ {w} : subs'[g] = subs[g] /\ Pending(g) = 0
    BY <1>1, <1>2 DEF Pending
  <1>11. subs'[w].before <= subs'[w].pos
    BY <1>1, <1>2, SubscriberFacts
  <1> QED
    BY <1>1, <1>2, <1>6, <1>7, <1>8, <1>9, <1>10, <1>11, Returned

\* A failing fetch: the records that came with it are settled, and dropped.
LEMMA FetchErrorKeeps ==
    ASSUME KafkaInv, FetchError
    PROVE  KafkaInv'
  <1>1. /\ call.on /\ call.batch = <<>> /\ call' = NoCall /\ call.who \in DOMAIN subs
        /\ UNCHANGED <<log, life, up, committed, got>>
    BY DEF FetchError, KafkaInv, CallInv
  <1>2. PICK w \in Who, p \in Nat : w = call.who /\ p = subs[w].pos
    BY <1>1, SubscriberFacts
  <1>3. PICK size \in 0..MaxBatch :
            /\ p + size <= log
            /\ subs' = [subs EXCEPT ![w] = [pos |-> p + size, before |-> p]]
            /\ settled' = [settled EXCEPT ![w] = @ \cup (p .. p + size - 1)]
    BY <1>2 DEF FetchError, Sub, Key
  <1>4. size \in Nat /\ log \in Nat /\ MaxLog \in Nat /\ log <= MaxLog
    BY <1>3, KafkaConsumerAssumption, KafkaFacts
  <1>5. Pending(w) = 0 /\ NextOffset(w) = p
    BY <1>1, <1>2 DEF Pending, NextOffset
  <1>6. /\ DOMAIN subs' = DOMAIN subs /\ \A g \in DOMAIN subs \ {w} : subs'[g] = subs[g]
        /\ subs'[w].pos = p + size /\ subs'[w].before = p
    BY <1>1, <1>2, <1>3
  <1>7. /\ settled' \in [Who -> SUBSET (0..MaxLog)] /\ \A g \in Who : settled[g] \subseteq settled'[g]
        /\ settled'[w] = settled[w] \cup (p .. p + size - 1)
    <2>1. settled \in [Who -> SUBSET (0..MaxLog)]
      BY DEF KafkaInv, KafkaTypeOK
    <2>2. (p .. p + size - 1) \in SUBSET (0..MaxLog)
      BY <1>3, <1>4
    <2> QED
      BY <1>3, <2>1, <2>2
  <1>8. KafkaTypeOK'
    <2>1. p + size \in 0..log /\ p \in 0..(p + size)
      BY <1>3, <1>4
    <2>2. \A k \in DOMAIN subs' : subs'[k].pos \in 0..log /\ subs'[k].before \in 0..subs'[k].pos
      BY <1>6, <2>1 DEF KafkaInv, KafkaTypeOK
    <2>3. NoCall \in [who : Who, batch : Seq(0..MaxLog), on : BOOLEAN]
      BY DEF NoCall, Who
    <2> QED
      BY <1>1, <1>6, <1>7, <2>2, <2>3 DEF KafkaInv, KafkaTypeOK
  <1>9. NoSilentGap'
    BY <1>1, <1>7, KafkaFacts DEF KafkaInv, NoSilentGap
  <1>10. 0..(p - 1) \subseteq settled[w] /\ \A i \in DOMAIN got[w] : got[w][i] < p
    BY <1>1, <1>2, <1>5 DEF KafkaInv, SubscriberInv
  <1>11. 0..(subs'[w].pos - 1) \subseteq settled'[w]
    BY <1>4, <1>6, <1>7, <1>10
  <1>12. \A i \in DOMAIN got'[w] : got'[w][i] < subs'[w].pos
    <2>1. DOMAIN got[w] = 1..Len(got[w]) /\ \A i \in 1..Len(got[w]) : got[w][i] \in Nat
      BY KafkaFacts, SeqElements
    <2> QED
      BY <1>1, <1>4, <1>6, <1>10, <2>1
  <1>13. \A g \in DOMAIN subs \ {w} : subs'[g] = subs[g] /\ Pending(g) = 0
    BY <1>2, <1>6 DEF Pending
  <1>14. w \in DOMAIN subs /\ subs'[w].pos \in Nat /\ subs'[w].before <= subs'[w].pos
    BY <1>1, <1>2, <1>4, <1>6
  <1> QED
    BY <1>1, <1>6, <1>7, <1>8, <1>9, <1>11, <1>12, <1>13, <1>14, Returned
-----------------------------------------------------------------------------
LEMMA KafkaStart == KafkaInit => KafkaInv
  <1> SUFFICES ASSUME KafkaInit PROVE KafkaInv
    OBVIOUS
  <1>1. <<>> \in Seq(0..MaxLog) /\ NoCall \in [who : Who, batch : Seq(0..MaxLog), on : BOOLEAN]
        /\ DOMAIN subs = {} /\ call.batch = <<>> /\ ~call.on
    BY DEF KafkaInit, NoCall, Who
  <1>2. KafkaTypeOK
    BY <1>1, KafkaConsumerAssumption DEF KafkaInit, KafkaTypeOK
  <1>3. CallInv /\ SubscriberInv
    BY <1>1 DEF KafkaInit, CallInv, SubscriberInv
  <1>4. NoSilentGap
    BY DEF KafkaInit, NoSilentGap, Range, Who
  <1> QED
    BY <1>2, <1>3, <1>4 DEF KafkaInv

LEMMA KafkaStep == KafkaInv /\ [KafkaNext]_kafkaVars => KafkaInv'
  <1> SUFFICES ASSUME KafkaInv, [KafkaNext]_kafkaVars PROVE KafkaInv'
    OBVIOUS
  <1>1. CASE UNCHANGED kafkaVars
    <2>1. KafkaTypeOK'
      BY <1>1 DEF kafkaVars, KafkaInv, KafkaTypeOK
    <2>2. CallInv' /\ SubscriberInv' /\ NoSilentGap'
      BY <1>1 DEF kafkaVars, KafkaInv, CallInv, SubscriberInv, NoSilentGap, NextOffset, Pending
    <2> QED
      BY <2>1, <2>2 DEF KafkaInv
  <1> QED
    BY <1>1, ProduceKeeps, PollKeeps, DeliverKeeps, MatchKeeps, FetchErrorKeeps, ContextEndsKeeps,
       ConsumeKeeps, AutoCommitKeeps, DownKeeps, NextLifeKeeps DEF KafkaNext

\* The inductive invariant of the Kafka client, types included.
THEOREM KafkaInvariance == KafkaSpec => []KafkaInv
  <1> QED
    BY KafkaStart, KafkaStep, PTL DEF KafkaSpec

\* Consume and Close (client.go): over matches in the middle of a batch, fetch
\* errors, restarts and crashes, a group's steps get each record at most once
\* and in order, and no offset below one handed out or committed was skipped.
THEOREM NoSilentGapHolds == KafkaSpec => []NoSilentGap
  <1>1. KafkaInv => NoSilentGap
    BY DEF KafkaInv
  <1> QED
    BY <1>1, KafkaInvariance, PTL
-----------------------------------------------------------------------------
(* The codec                                                               *)

LEMMA CodecFacts ==
    ASSUME CodecTypeOK
    PROVE  /\ clock \in Nat /\ clock <= MaxClock /\ MaxClock \in Nat /\ MaxSchema \in Nat
           /\ latest \in 1..MaxSchema /\ latest \in Nat /\ latest >= 1 /\ latest <= MaxSchema
           /\ ttl \in Nat /\ Never \in Nat /\ Never = MaxClock + MaxClock
           /\ \A i \in 1..MaxSchema : superseded[i] \in 0..Never /\ superseded[i] \in Nat
           /\ NoMsg \in Message /\ Idle \in CallerType
  <1>1. /\ clock \in Nat /\ clock <= MaxClock /\ MaxClock \in Nat /\ MaxSchema \in Nat
        /\ latest \in 1..MaxSchema /\ latest \in Nat /\ latest >= 1 /\ latest <= MaxSchema
        /\ ttl \in Nat /\ Never \in Nat /\ Never = MaxClock + MaxClock
    BY SchemaCodecAssumption DEF CodecTypeOK, Never
  <1>2. \A i \in 1..MaxSchema : superseded[i] \in 0..Never /\ superseded[i] \in Nat
    BY <1>1 DEF CodecTypeOK
  <1>3. NoMsg \in Message
    BY <1>1 DEF NoMsg, Message
  <1>4. Idle \in CallerType
    BY <1>1, <1>3 DEF Idle, CallerType, Ended
  <1> QED
    BY <1>1, <1>2, <1>3, <1>4

LEMMA CallerFacts ==
    ASSUME CodecInv, NEW c \in Callers
    PROVE  /\ caller[c] \in CallerType /\ caller[c].now \in 0..clock /\ caller[c].id \in 0..latest
           /\ caller[c].handler \in 0..MaxSchema /\ caller[c].msg \in Message
           /\ HasItsHandler(caller[c]) /\ YoungEnough(caller[c])
  <1>1. caller[c] \in CallerType /\ HasItsHandler(caller[c]) /\ YoungEnough(caller[c])
    BY DEF CodecInv, CodecTypeOK, HandlerInv, AgeInv
  <1> QED
    BY <1>1 DEF CallerType

\* A step of one caller that leaves caches and registry alone.
LEMMA CallerMoves ==
    ASSUME CodecInv, NEW c \in Callers, NEW r \in CallerType, HasItsHandler(r), YoungEnough(r),
           caller' = [caller EXCEPT ![c] = r],
           UNCHANGED <<clock, latest, superseded, ttl, bySub, byID>>,
           NEW m, wire' = wire \cup m, m \subseteq Message,
           \A msg \in m : msg.id = msg.body /\ msg.id \in 1..latest
    PROVE  CodecInv'
  <1>1. caller' \in [Callers -> CallerType] /\ CallerType' = CallerType
    BY DEF CodecInv, CodecTypeOK, CallerType
  <1>2. CodecTypeOK'
    BY <1>1 DEF CodecInv, CodecTypeOK
  <1>3. \A d \in Callers : HasItsHandler(caller'[d]) /\ YoungEnough(caller'[d])
    BY DEF CodecInv, CodecTypeOK, HandlerInv, AgeInv
  <1>4. HandlerInv'
    BY <1>3 DEF CodecInv, HandlerInv, HasItsHandler
  <1>5. AgeInv'
    BY <1>3 DEF CodecInv, AgeInv, YoungEnough
  <1> QED
    BY <1>2, <1>4, <1>5 DEF CodecInv

\* The same, with nothing sent.
LEMMA CallerGoes ==
    ASSUME CodecInv, NEW c \in Callers, NEW r \in CallerType, HasItsHandler(r), YoungEnough(r),
           caller' = [caller EXCEPT ![c] = r],
           UNCHANGED <<clock, latest, superseded, ttl, bySub, byID, wire>>
    PROVE  CodecInv'
  <1>1. PICK m : m = {}
    OBVIOUS
  <1>2. wire' = wire \cup m /\ m \subseteq Message
    BY <1>1
  <1>3. \A msg \in m : msg.id = msg.body /\ msg.id \in 1..latest
    BY <1>1
  <1> QED
    BY <1>2, <1>3, CallerMoves

\* An idle caller has nothing to answer for.
LEMMA CallerIdles ==
    ASSUME CodecInv, NEW c \in Callers, GivesUp(c),
           UNCHANGED <<clock, latest, superseded, ttl, bySub, byID, wire>>
    PROVE  CodecInv'
  <1>1. HasItsHandler(Idle) /\ YoungEnough(Idle) /\ Idle \in CallerType
    BY CodecFacts DEF Idle, HasItsHandler, YoungEnough, CodecInv
  <1> QED
    BY <1>1, CallerGoes DEF GivesUp

LEMMA EncodeBeginKeeps ==
    ASSUME CodecInv, NEW c \in Callers, EncodeBegin(c)
    PROVE  CodecInv'
  <1>1. UNCHANGED <<clock, latest, superseded, ttl, bySub, byID, wire>>
    BY DEF EncodeBegin
  <1>2. CASE Fresh(bySub)
    <2>1. PICK r : r = [Idle EXCEPT !.at = "body", !.now = clock, !.id = bySub.id, !.handler = bySub.handler]
      OBVIOUS
    <2>2. caller' = [caller EXCEPT ![c] = r]
      BY <1>2, <2>1 DEF EncodeBegin
    <2>3. /\ r.at = "body" /\ r.now = clock /\ r.id = bySub.id /\ r.handler = bySub.handler
          /\ r = [at |-> "body", now |-> clock, id |-> bySub.id, handler |-> bySub.handler, msg |-> NoMsg]
      BY <2>1 DEF Idle
    <2>4. bySub # NoEntry /\ bySub.id \in 0..latest /\ bySub.id \in 1..MaxSchema
          /\ bySub.handler \in 0..MaxSchema /\ bySub.handler = bySub.id /\ bySub.expires \in Int
      BY <1>2, CodecFacts DEF Fresh, CodecInv, CodecTypeOK, HandlerInv
    <2>5. r \in CallerType
      BY <2>3, <2>4, CodecFacts DEF CodecInv, CallerType
    <2>6. HasItsHandler(r)
      BY <2>3, <2>4 DEF HasItsHandler
    <2>7. ttl > 0 => superseded[bySub.id] > clock - ttl
      <3>1. SUFFICES ASSUME ttl > 0 PROVE superseded[bySub.id] > clock - ttl
        OBVIOUS
      <3>2. bySub.expires \in ttl..(clock + ttl) /\ bySub.expires - ttl <= superseded[bySub.id]
        BY <3>1, <2>4 DEF CodecInv, AgeInv
      <3>3. clock < bySub.expires
        BY <1>2, <3>1, <3>2, CodecFacts DEF Fresh, CodecInv
      <3> QED
        BY <2>4, <3>2, <3>3, CodecFacts DEF CodecInv
    <2>8. YoungEnough(r)
      BY <2>3, <2>7 DEF YoungEnough
    <2> QED
      BY <1>1, <2>2, <2>5, <2>6, <2>8, CallerGoes
  <1>3. CASE ~Fresh(bySub)
    <2>1. PICK r : r = [Idle EXCEPT !.at = "latest", !.now = clock]
      OBVIOUS
    <2>2. caller' = [caller EXCEPT ![c] = r]
      BY <1>3, <2>1 DEF EncodeBegin
    <2>3. r = [at |-> "latest", now |-> clock, id |-> 0, handler |-> 0, msg |-> NoMsg]
      BY <2>1 DEF Idle
    <2>4. r \in CallerType
      BY <2>3, CodecFacts DEF CodecInv, CallerType
    <2>5. HasItsHandler(r) /\ YoungEnough(r)
      BY <2>3 DEF HasItsHandler, YoungEnough
    <2> QED
      BY <1>1, <2>2, <2>4, <2>5, CallerGoes
  <1> QED
    BY <1>2, <1>3

\* What the registry calls the latest is not superseded yet.
LEMMA GetLatestVersionKeeps ==
    ASSUME CodecInv, NEW c \in Callers, GetLatestVersion(c)
    PROVE  CodecInv'
  <1>1. PICK r : r = [caller[c] EXCEPT !.at = "store", !.id = latest, !.handler = BuildHandler(latest)]
    OBVIOUS
  <1>2. caller' = [caller EXCEPT ![c] = r]
        /\ UNCHANGED <<clock, latest, superseded, ttl, bySub, byID, wire>>
    BY <1>1 DEF GetLatestVersion
  <1>3. r \in CallerType /\ r.at = "store" /\ r.id = latest /\ r.handler = latest /\ r.now \in 0..clock
    <2>1. caller[c] \in CallerType
      BY CallerFacts
    <2>2. latest \in 0..latest /\ latest \in 0..MaxSchema
      BY CodecFacts DEF CodecInv
    <2> QED
      BY <1>1, <2>1, <2>2 DEF CallerType, BuildHandler
  <1>4. HasItsHandler(r)
    BY <1>3, CodecFacts DEF HasItsHandler, CodecInv
  <1>5. superseded[latest] = Never
    BY CodecFacts DEF CodecInv, AgeInv
  <1>6. YoungEnough(r)
    BY <1>3, <1>5, CodecFacts DEF YoungEnough, CodecInv
  <1> QED
    BY <1>2, <1>3, <1>4, <1>6, CallerGoes

LEMMA EncodeBodyKeeps ==
    ASSUME CodecInv, NEW c \in Callers, EncodeBody(c)
    PROVE  CodecInv'
  <1>1. PICK r : r = [caller[c] EXCEPT !.at = "encoded"]
    OBVIOUS
  <1>2. PICK sent : sent = [EncodeHeader(caller[c].id) EXCEPT !.body = caller[c].handler]
    OBVIOUS
  <1> DEFINE m == {sent}
  <1>3. /\ caller[c].at = "body" /\ caller' = [caller EXCEPT ![c] = r] /\ wire' = wire \cup m
        /\ UNCHANGED <<clock, latest, superseded, ttl, bySub, byID>>
    BY <1>1, <1>2 DEF EncodeBody, At, Goes
  <1>4. caller[c].id = caller[c].handler /\ caller[c].id \in 1..latest /\ caller[c].handler \in 0..MaxSchema
    <2>1. caller[c].id = caller[c].handler /\ caller[c].id >= 1
      BY <1>3, CallerFacts DEF HasItsHandler
    <2>2. caller[c].id \in 0..latest /\ latest \in Nat /\ caller[c].handler \in 0..MaxSchema
      BY CallerFacts, CodecFacts DEF CodecInv
    <2> QED
      BY <2>1, <2>2
  <1>5. sent = [magic |-> TRUE, id |-> caller[c].id, body |-> caller[c].handler]
    BY <1>2 DEF EncodeHeader
  <1>6. m \subseteq Message
    BY <1>4, <1>5, CodecFacts DEF Message, CodecInv
  <1>7. \A msg \in m : msg.id = msg.body /\ msg.id \in 1..latest
    BY <1>4, <1>5
  <1>8. r \in CallerType /\ HasItsHandler(r) /\ YoungEnough(r)
    BY <1>1, <1>3, <1>4, CallerFacts DEF CallerType, Ended, HasItsHandler, YoungEnough
  <1>9. wire' = wire \cup m
    BY <1>2, <1>3
  <1> HIDE DEF m
  <1> QED
    BY <1>3, <1>6, <1>7, <1>8, <1>9, CallerMoves

\* One caller's step, which stores its handler in the cache by id.
LEMMA HandlerStored ==
    ASSUME CodecInv, NEW c \in Callers, caller[c].at \in {"store", "put"},
           byID' = [i \in DOMAIN byID \cup {caller[c].id} |->
                       IF i = caller[c].id THEN caller[c].handler ELSE byID[i]]
    PROVE  DOMAIN byID' \subseteq 1..latest /\ \A i \in DOMAIN byID' : byID'[i] = i
  <1>1. caller[c].id = caller[c].handler /\ caller[c].id >= 1
    BY CallerFacts DEF HasItsHandler
  <1>2. caller[c].id \in 1..latest
    BY <1>1, CallerFacts, CodecFacts DEF CodecInv
  <1> QED
    BY <1>1, <1>2 DEF CodecInv, CodecTypeOK, HandlerInv

\* The entry counts from the beginning of the call, when what the registry
\* answered later was, or was yet to become, the latest.
LEMMA StoreLatestKeeps ==
    ASSUME CodecInv, NEW c \in Callers, StoreLatest(c)
    PROVE  CodecInv'
  <1>1. PICK r : r = [caller[c] EXCEPT !.at = "body"]
    OBVIOUS
  <1>2. /\ caller[c].at = "store" /\ caller' = [caller EXCEPT ![c] = r]
        /\ UNCHANGED <<clock, latest, superseded, ttl, wire>>
        /\ bySub' = [id |-> caller[c].id, handler |-> caller[c].handler, expires |-> Expires(c)]
    BY <1>1 DEF StoreLatest, At, Goes
  <1>3. DOMAIN byID' \subseteq 1..latest /\ \A i \in DOMAIN byID' : byID'[i] = i
    BY <1>2, HandlerStored DEF StoreLatest
  <1>4. /\ caller[c].id = caller[c].handler /\ caller[c].id >= 1 /\ caller[c].now \in Nat /\ caller[c].now <= clock
        /\ caller[c].id \in 0..latest /\ caller[c].handler \in 0..MaxSchema /\ caller[c].id \in 1..MaxSchema
        /\ clock \in Nat /\ ttl \in Nat /\ latest \in Nat
    <2>1. caller[c].id = caller[c].handler /\ caller[c].id >= 1
      BY <1>2, CallerFacts DEF HasItsHandler
    <2>2. clock \in Nat /\ ttl \in Nat /\ latest \in Nat /\ MaxSchema \in Nat /\ latest <= MaxSchema
      BY CodecFacts DEF CodecInv
    <2>3. caller[c].now \in 0..clock /\ caller[c].id \in 0..latest /\ caller[c].handler \in 0..MaxSchema
      BY CallerFacts
    <2> QED
      BY <2>1, <2>2, <2>3
  <1>5. superseded[caller[c].id] \in Nat /\ (ttl > 0 => superseded[caller[c].id] >= caller[c].now)
    BY <1>2, <1>4, CallerFacts, CodecFacts DEF YoungEnough, CodecInv
  <1>6. /\ r.at = "body" /\ r.id = caller[c].id /\ r.now = caller[c].now /\ r.handler = caller[c].handler
        /\ r \in CallerType
    BY <1>1, CallerFacts DEF CallerType
  <1>7. HasItsHandler(r) /\ YoungEnough(r)
    BY <1>4, <1>5, <1>6 DEF HasItsHandler, YoungEnough
  <1>8. Expires(c) \in Int /\ (ttl > 0 => Expires(c) = caller[c].now + ttl)
    BY <1>4, CodecFacts DEF Expires, CodecInv
  <1>9. CodecTypeOK'
    <2>1. bySub' \in [id : 0..latest, handler : 0..MaxSchema, expires : Int]
      BY <1>2, <1>4, <1>8
    <2>2. caller' \in [Callers -> CallerType] /\ CallerType' = CallerType
      BY <1>2, <1>6 DEF CodecInv, CodecTypeOK, CallerType
    <2> QED
      BY <1>2, <1>3, <2>1, <2>2 DEF CodecInv, CodecTypeOK
  <1>10. \A d \in Callers : HasItsHandler(caller'[d]) /\ YoungEnough(caller'[d])
    BY <1>2, <1>7 DEF CodecInv, CodecTypeOK, HandlerInv, AgeInv
  <1>11. HandlerInv'
    BY <1>2, <1>3, <1>4, <1>10 DEF CodecInv, HandlerInv, HasItsHandler
  <1>12. \A d \in Callers : YoungEnough(caller[d])'
    BY <1>2, <1>10 DEF YoungEnough
  <1>13. ttl > 0 => bySub'.expires \in ttl..(clock + ttl) /\ bySub'.expires - ttl <= superseded[bySub'.id]
    BY <1>2, <1>4, <1>5, <1>8
  <1>14. AgeInv'
    BY <1>2, <1>12, <1>13 DEF CodecInv, AgeInv
  <1> QED
    BY <1>9, <1>11, <1>14 DEF CodecInv

LEMMA DecodeBeginKeeps ==
    ASSUME CodecInv, NEW c \in Callers, DecodeBegin(c)
    PROVE  CodecInv'
  <1>1. UNCHANGED <<clock, latest, superseded, ttl, bySub, byID, wire>>
    BY DEF DecodeBegin
  <1>2. PICK msg \in wire \cup Foreign :
         caller' = [caller EXCEPT ![c] =
             IF ~ParseHeader(msg) THEN Idle
             ELSE IF msg.id \in DOMAIN byID
             THEN [Idle EXCEPT !.at = "read", !.msg = msg, !.id = msg.id, !.handler = byID[msg.id]]
             ELSE [Idle EXCEPT !.at = "fetch", !.msg = msg, !.id = msg.id]]
    BY Zenon DEF DecodeBegin
  <1>3. CASE ~ParseHeader(msg)
    BY <1>1, <1>2, <1>3, CallerIdles DEF GivesUp
  <1>4. CASE ParseHeader(msg)
    <2>1. msg \in Message /\ msg.id \in 1..latest
      <3>1. CASE msg \in wire
        BY <3>1 DEF CodecInv, CodecTypeOK, HandlerInv
      <3>2. CASE msg = [magic |-> TRUE, id |-> 1, body |-> 0]
        BY <3>2, CodecFacts DEF Message, CodecInv
      <3> QED
        BY <1>2, <1>4, <3>1, <3>2 DEF Foreign, ParseHeader, NoMsg
    <2>2. msg.id \in 0..latest /\ msg.id \in 0..MaxSchema /\ msg.id >= 1
      BY <2>1, CodecFacts DEF CodecInv
    <2>3. CASE msg.id \in DOMAIN byID
      <3>1. PICK r : r = [Idle EXCEPT !.at = "read", !.msg = msg, !.id = msg.id, !.handler = byID[msg.id]]
        OBVIOUS
      <3>2. caller' = [caller EXCEPT ![c] = r]
        BY <1>2, <1>4, <2>3, <3>1
      <3>3. byID[msg.id] = msg.id
        BY <2>3 DEF CodecInv, HandlerInv
      <3>4. r = [at |-> "read", now |-> 0, id |-> msg.id, handler |-> msg.id, msg |-> msg]
        BY <3>1, <3>3 DEF Idle
      <3>5. r \in CallerType
        BY <2>1, <2>2, <3>4, CodecFacts DEF CallerType, CodecInv
      <3>6. HasItsHandler(r) /\ YoungEnough(r)
        BY <2>2, <3>4 DEF HasItsHandler, YoungEnough
      <3> QED
        BY <1>1, <3>2, <3>5, <3>6, CallerGoes
    <2>4. CASE msg.id \notin DOMAIN byID
      <3>1. PICK r : r = [Idle EXCEPT !.at = "fetch", !.msg = msg, !.id = msg.id]
        OBVIOUS
      <3>2. caller' = [caller EXCEPT ![c] = r]
        BY <1>2, <1>4, <2>4, <3>1
      <3>4. r = [at |-> "fetch", now |-> 0, id |-> msg.id, handler |-> 0, msg |-> msg]
        BY <3>1 DEF Idle
      <3>5. r \in CallerType
        BY <2>1, <2>2, <3>4, CodecFacts DEF CallerType, CodecInv
      <3>6. HasItsHandler(r) /\ YoungEnough(r)
        BY <2>2, <3>4 DEF HasItsHandler, YoungEnough
      <3> QED
        BY <1>1, <3>2, <3>5, <3>6, CallerGoes
    <2> QED
      BY <2>3, <2>4
  <1> QED
    BY <1>3, <1>4

LEMMA GetSchemaByIDKeeps ==
    ASSUME CodecInv, NEW c \in Callers, GetSchemaByID(c)
    PROVE  CodecInv'
  <1>1. PICK r : r = [caller[c] EXCEPT !.at = "put", !.handler = BuildHandler(caller[c].id)]
    OBVIOUS
  <1>2. /\ caller[c].at = "fetch" /\ caller' = [caller EXCEPT ![c] = r]
        /\ UNCHANGED <<clock, latest, superseded, ttl, bySub, byID, wire>>
    BY <1>1 DEF GetSchemaByID, At
  <1>3. caller[c] \in CallerType /\ caller[c].id >= 1 /\ caller[c].id = caller[c].msg.id
    BY <1>2, CallerFacts DEF HasItsHandler
  <1>4. caller[c].id \in 0..MaxSchema
    BY CallerFacts, CodecFacts DEF CodecInv
  <1>5. /\ r \in CallerType
        /\ r.at = "put" /\ r.id = caller[c].id /\ r.handler = caller[c].id /\ r.msg = caller[c].msg
    BY <1>1, <1>3, <1>4 DEF CallerType, BuildHandler
  <1>6. HasItsHandler(r) /\ YoungEnough(r)
    BY <1>3, <1>5 DEF HasItsHandler, YoungEnough
  <1> QED
    BY <1>2, <1>5, <1>6, CallerGoes

LEMMA StoreByIDKeeps ==
    ASSUME CodecInv, NEW c \in Callers, StoreByID(c)
    PROVE  CodecInv'
  <1>1. PICK r : r = [caller[c] EXCEPT !.at = "read"]
    OBVIOUS
  <1>2. /\ caller[c].at = "put" /\ caller' = [caller EXCEPT ![c] = r]
        /\ UNCHANGED <<clock, latest, superseded, ttl, bySub, wire>>
    BY <1>1 DEF StoreByID, At, Goes
  <1>3. DOMAIN byID' \subseteq 1..latest /\ \A i \in DOMAIN byID' : byID'[i] = i
    BY <1>2, HandlerStored DEF StoreByID
  <1>4. r \in CallerType /\ HasItsHandler(r) /\ YoungEnough(r)
    BY <1>1, <1>2, CallerFacts DEF CallerType, HasItsHandler, YoungEnough
  <1>5. CodecTypeOK'
    <2>1. caller' \in [Callers -> CallerType] /\ CallerType' = CallerType
      BY <1>2, <1>4 DEF CodecInv, CodecTypeOK, CallerType
    <2> QED
      BY <1>2, <1>3, <2>1 DEF CodecInv, CodecTypeOK
  <1>6. \A d \in Callers : HasItsHandler(caller'[d]) /\ YoungEnough(caller'[d])
    BY <1>2, <1>4 DEF CodecInv, CodecTypeOK, HandlerInv, AgeInv
  <1>7. HandlerInv'
    BY <1>2, <1>3, <1>6 DEF CodecInv, HandlerInv, HasItsHandler
  <1>8. AgeInv'
    BY <1>2, <1>6 DEF CodecInv, AgeInv, YoungEnough
  <1> QED
    BY <1>5, <1>7, <1>8 DEF CodecInv

LEMMA DecodeBodyKeeps ==
    ASSUME CodecInv, NEW c \in Callers, DecodeBody(c)
    PROVE  CodecInv'
  <1>1. caller[c].at = "read" /\ UNCHANGED <<clock, latest, superseded, ttl, bySub, byID, wire>>
    BY DEF DecodeBody, At
  <1>2. CASE GivesUp(c)
    BY <1>1, <1>2, CallerIdles
  <1>3. CASE Goes(c, "decoded")
    <2>1. PICK r : r = [caller[c] EXCEPT !.at = "decoded"]
      OBVIOUS
    <2>2. caller' = [caller EXCEPT ![c] = r]
      BY <1>3, <2>1 DEF Goes
    <2>3. r \in CallerType /\ HasItsHandler(r) /\ YoungEnough(r)
      BY <1>1, <2>1, CallerFacts DEF CallerType, Ended, HasItsHandler, YoungEnough
    <2> QED
      BY <1>1, <2>2, <2>3, CallerGoes
  <1> QED
    BY <1>2, <1>3 DEF DecodeBody

\* A version is superseded now, which no call under way nor any entry is ahead of.
LEMMA RegisterKeeps ==
    ASSUME CodecInv, Register
    PROVE  CodecInv'
  <1>1. /\ latest < MaxSchema /\ latest' = latest + 1 /\ superseded' = [superseded EXCEPT ![latest] = clock]
        /\ UNCHANGED <<clock, ttl, bySub, byID, caller, wire>>
    BY DEF Register
  <1>2. /\ clock \in 0..Never /\ latest \in Nat /\ latest >= 1 /\ MaxSchema \in Nat /\ clock \in Nat /\ ttl \in Nat
        /\ latest \in 1..MaxSchema /\ latest' \in 1..MaxSchema
    BY <1>1, CodecFacts DEF CodecInv
  <1>3. /\ superseded \in [1..MaxSchema -> 0..Never]
        /\ \A i \in 1..MaxSchema : superseded'[i] = IF i = latest THEN clock ELSE superseded[i]
    BY <1>1 DEF CodecInv, CodecTypeOK
  <1>4. \A c \in Callers : caller[c] \in CallerType /\ caller[c] \in CallerType'
    <2>1. 0..latest \subseteq 0..latest'
      BY <1>1, <1>2
    <2> QED
      BY <1>1, <2>1, CallerFacts DEF CallerType
  <1>5. CodecTypeOK'
    <2>1. superseded' \in [1..MaxSchema -> 0..Never]
      BY <1>1, <1>2, <1>3
    <2>2. bySub \in [id : 0..latest', handler : 0..MaxSchema, expires : Int]
      <3>1. 0..latest \subseteq 0..latest'
        BY <1>1, <1>2
      <3> QED
        BY <3>1 DEF CodecInv, CodecTypeOK
    <2>3. DOMAIN byID \subseteq 1..latest'
      <3>1. 1..latest \subseteq 1..latest'
        BY <1>1, <1>2
      <3> QED
        BY <3>1 DEF CodecInv, CodecTypeOK
    <2>4. caller' \in [Callers -> CallerType']
      BY <1>1, <1>4 DEF CodecInv, CodecTypeOK
    <2> QED
      BY <1>1, <1>2, <2>1, <2>2, <2>3, <2>4 DEF CodecInv, CodecTypeOK, Never
  <1>6. HandlerInv'
    <2>1. 1..latest \subseteq 1..latest'
      BY <1>1, <1>2
    <2>2. \A msg \in wire : msg.id = msg.body /\ msg.id \in 1..latest'
      BY <2>1 DEF CodecInv, HandlerInv
    <2> QED
      BY <1>1, <2>2 DEF CodecInv, HandlerInv, HasItsHandler
  <1>7. \A i \in 1..MaxSchema : i >= latest' => superseded'[i] = Never
    BY <1>1, <1>2, <1>3 DEF CodecInv, AgeInv
  <1>8. ttl > 0 /\ bySub # NoEntry =>
          bySub.expires \in ttl..(clock + ttl) /\ bySub.expires - ttl <= superseded'[bySub.id]
    <2>1. SUFFICES ASSUME ttl > 0, bySub # NoEntry
                   PROVE  bySub.expires \in ttl..(clock + ttl) /\ bySub.expires - ttl <= superseded'[bySub.id]
      OBVIOUS
    <2>2. bySub.expires \in ttl..(clock + ttl) /\ bySub.expires - ttl <= superseded[bySub.id]
          /\ bySub.id \in 0..latest /\ bySub.id >= 1
      BY <2>1 DEF CodecInv, AgeInv, CodecTypeOK, HandlerInv
    <2>3. bySub.id \in 1..MaxSchema
      BY <1>2, <2>2
    <2>4. CASE bySub.id = latest
      <3>1. superseded'[bySub.id] = clock
        BY <1>3, <2>3, <2>4
      <3>2. bySub.expires \in Int /\ bySub.expires <= clock + ttl
        BY <1>2, <2>2
      <3> QED
        BY <1>2, <2>2, <3>1, <3>2
    <2>5. CASE bySub.id # latest
      BY <1>3, <2>2, <2>3, <2>5
    <2> QED
      BY <2>4, <2>5
  <1>9. \A c \in Callers : YoungEnough(caller[c])'
    <2>1. SUFFICES ASSUME NEW c \in Callers, ttl > 0
                   PROVE  /\ caller[c].at = "store" => superseded'[caller[c].id] >= caller[c].now
                          /\ caller[c].at \in {"body", "encoded"} =>
                                 superseded'[caller[c].id] > caller[c].now - ttl
      BY <1>1 DEF YoungEnough
    <2>2. caller[c].now \in 0..clock /\ caller[c].id \in 0..latest
      BY CallerFacts
    <2>3. SUFFICES ASSUME caller[c].at \in {"store", "body", "encoded"}
                   PROVE  /\ caller[c].at = "store" => superseded'[caller[c].id] >= caller[c].now
                          /\ caller[c].at \in {"body", "encoded"} =>
                                 superseded'[caller[c].id] > caller[c].now - ttl
      OBVIOUS
    <2>4. caller[c].id >= 1
      BY <2>3, CallerFacts DEF HasItsHandler
    <2>5. caller[c].id \in 1..MaxSchema
      BY <1>2, <2>2, <2>4
    <2>6. CASE caller[c].id = latest
      BY <1>2, <1>3, <2>1, <2>2, <2>6
    <2>7. CASE caller[c].id # latest
      <3>1. superseded'[caller[c].id] = superseded[caller[c].id]
        BY <1>3, <2>5, <2>7
      <3> QED
        BY <2>1, <3>1, CallerFacts DEF YoungEnough
    <2> QED
      BY <2>6, <2>7
  <1>10. AgeInv'
    BY <1>1, <1>7, <1>8, <1>9 DEF CodecInv, AgeInv, Never
  <1> QED
    BY <1>5, <1>6, <1>10 DEF CodecInv

LEMMA TickKeeps ==
    ASSUME CodecInv, Tick
    PROVE  CodecInv'
  <1>1. /\ clock < MaxClock /\ clock' = clock + 1
        /\ UNCHANGED <<latest, superseded, ttl, bySub, byID, caller, wire>>
    BY DEF Tick
  <1>2. clock \in Nat /\ MaxClock \in Nat /\ ttl \in Nat
    BY CodecFacts DEF CodecInv
  <1>3. 0..clock \subseteq 0..clock' /\ clock' \in 0..MaxClock /\ ttl..(clock + ttl) \subseteq ttl..(clock' + ttl)
    BY <1>1, <1>2
  <1>4. \A c \in Callers : caller[c] \in CallerType'
    BY <1>1, <1>3, CallerFacts DEF CallerType
  <1>5. CodecTypeOK'
    <2>1. caller' \in [Callers -> CallerType']
      BY <1>1, <1>4 DEF CodecInv, CodecTypeOK
    <2> QED
      BY <1>1, <1>3, <2>1 DEF CodecInv, CodecTypeOK
  <1>6. HandlerInv'
    BY <1>1 DEF CodecInv, HandlerInv, HasItsHandler
  <1>7. ttl > 0 /\ bySub # NoEntry => bySub.expires \in ttl..(clock' + ttl)
    BY <1>3 DEF CodecInv, AgeInv
  <1>8. AgeInv'
    BY <1>1, <1>7 DEF CodecInv, AgeInv, YoungEnough
  <1> QED
    BY <1>5, <1>6, <1>8 DEF CodecInv
-----------------------------------------------------------------------------
LEMMA CodecStart == CodecInit => CodecInv
  <1> SUFFICES ASSUME CodecInit PROVE CodecInv
    OBVIOUS
  <1>1. MaxClock \in Nat /\ MaxSchema \in Nat /\ MaxSchema >= 1 /\ Never \in Nat /\ Never = MaxClock + MaxClock
    BY SchemaCodecAssumption DEF Never
  <1>2. NoMsg \in Message
    BY <1>1 DEF NoMsg, Message
  <1>3. Idle \in CallerType
    BY <1>1, <1>2 DEF Idle, CallerType, Ended, CodecInit
  <1>4. NoEntry \in [id : 0..latest, handler : 0..MaxSchema, expires : Int]
    BY <1>1 DEF NoEntry, CodecInit
  <1>5. DOMAIN byID = {}
    BY DEF CodecInit
  <1>6. clock \in 0..MaxClock /\ latest \in 1..MaxSchema
    BY <1>1 DEF CodecInit
  <1>7. superseded \in [1..MaxSchema -> 0..Never]
    BY <1>1 DEF CodecInit
  <1>8. CodecTypeOK
    BY <1>3, <1>4, <1>5, <1>6, <1>7 DEF CodecInit, CodecTypeOK
  <1>9. HasItsHandler(Idle) /\ YoungEnough(Idle)
    BY DEF HasItsHandler, YoungEnough, Idle
  <1>10. HandlerInv
    BY <1>5, <1>9 DEF CodecInit, HandlerInv
  <1>11. AgeInv
    BY <1>9 DEF CodecInit, AgeInv
  <1> QED
    BY <1>8, <1>10, <1>11 DEF CodecInv

LEMMA CodecStep == CodecInv /\ [CodecNext]_codecVars => CodecInv'
  <1> SUFFICES ASSUME CodecInv, [CodecNext]_codecVars PROVE CodecInv'
    OBVIOUS
  <1>1. CASE UNCHANGED codecVars
    <2>1. CodecTypeOK'
      BY <1>1 DEF codecVars, CodecInv, CodecTypeOK, CallerType
    <2>2. HandlerInv' /\ AgeInv'
      BY <1>1 DEF codecVars, CodecInv, HandlerInv, AgeInv, HasItsHandler, YoungEnough
    <2> QED
      BY <2>1, <2>2 DEF CodecInv
  <1>2. ASSUME NEW c \in Callers, GetLatestFails(c) \/ EncodeBodyFails(c) \/ GetSchemaFails(c)
        PROVE  CodecInv'
    BY <1>2, CallerIdles DEF GetLatestFails, EncodeBodyFails, GetSchemaFails
  <1> QED
    BY <1>1, <1>2, EncodeBeginKeeps, GetLatestVersionKeeps, StoreLatestKeeps, EncodeBodyKeeps, DecodeBeginKeeps,
       GetSchemaByIDKeeps, StoreByIDKeeps, DecodeBodyKeeps, RegisterKeeps, TickKeeps DEF CodecNext

\* The inductive invariant of the codec, types included.
THEOREM CodecInvariance == CodecSpec => []CodecInv
  <1> QED
    BY CodecStart, CodecStep, PTL DEF CodecSpec

\* Encode and Decode (codec.go): however callers, the registry and the clock
\* interleave, a value is encoded with a version no older than the ttl allows,
\* and with the one its header names, which is the one it is read with.
THEOREM FreshWithinTTLHolds == CodecSpec => []FreshWithinTTL
  <1>1. CodecInv => FreshWithinTTL
    <2> SUFFICES ASSUME CodecInv PROVE FreshWithinTTL
      OBVIOUS
    <2>1. \A c \in Callers : At(c, "encoded") /\ ttl > 0 => superseded[caller[c].id] > caller[c].now - ttl
      BY DEF CodecInv, AgeInv, YoungEnough, At
    <2>2. \A msg \in wire : msg.id = msg.body
      BY DEF CodecInv, HandlerInv
    <2>3. \A c \in Callers : At(c, "decoded") /\ caller[c].msg \in wire => caller[c].handler = caller[c].msg.body
      BY <2>2 DEF CodecInv, HandlerInv, HasItsHandler, At
    <2> QED
      BY <2>1, <2>2, <2>3 DEF FreshWithinTTL
  <1> QED
    BY <1>1, CodecInvariance, PTL
-----------------------------------------------------------------------------
(* An sse step: frames and the lines they are made of                      *)

LEMMA FrameOfType ==
    ASSUME NEW i \in Nat
    PROVE  FrameOf(i) \in Nat /\ IsFiniteSet({j \in 1..i-1 : lines[j] = "blank"})
  <1>1. IsFiniteSet(1..i-1)
    BY FS_Interval
  <1>2. {j \in 1..i-1 : lines[j] = "blank"} \in SUBSET (1..i-1)
    OBVIOUS
  <1>3. IsFiniteSet({j \in 1..i-1 : lines[j] = "blank"})
    BY <1>1, <1>2, FS_Subset
  <1> QED
    BY <1>3, FS_CardinalityType DEF FrameOf

\* A later line is in no earlier frame.
LEMMA FrameOfMonotone ==
    ASSUME NEW i \in Nat, NEW j \in Nat, i <= j
    PROVE  FrameOf(i) <= FrameOf(j)
  <1>1. IsFiniteSet({k \in 1..j-1 : lines[k] = "blank"})
    BY FrameOfType
  <1>2. {k \in 1..i-1 : lines[k] = "blank"} \in SUBSET {k \in 1..j-1 : lines[k] = "blank"}
    OBVIOUS
  <1> QED
    BY <1>1, <1>2, FS_Subset DEF FrameOf

\* Lines with no blank line between them are in one frame.
LEMMA FrameOfSame ==
    ASSUME NEW i \in Nat, NEW j \in Nat, 0 < i, i <= j, ~BlankIn(i, j - 1)
    PROVE  FrameOf(i) = FrameOf(j)
  <1>1. {k \in 1..i-1 : lines[k] = "blank"} = {k \in 1..j-1 : lines[k] = "blank"}
    BY DEF BlankIn
  <1> QED
    BY <1>1 DEF FrameOf

\* A blank line parts them.
LEMMA FrameOfApart ==
    ASSUME NEW i \in Nat, NEW j \in Nat, 0 < i, BlankIn(i, j - 1)
    PROVE  FrameOf(i) < FrameOf(j)
  <1>1. PICK b \in i..(j - 1) : lines[b] = "blank"
    BY DEF BlankIn
  <1>2. PICK S, T : S = {k \in 1..i-1 : lines[k] = "blank"} /\ T = {k \in 1..j-1 : lines[k] = "blank"}
    OBVIOUS
  <1>3. IsFiniteSet(S) /\ IsFiniteSet(T) /\ FrameOf(i) = Cardinality(S) /\ FrameOf(j) = Cardinality(T)
        /\ FrameOf(i) \in Nat /\ FrameOf(j) \in Nat
    BY <1>2, FrameOfType DEF FrameOf
  <1>4. b \notin S /\ S \cup {b} \in SUBSET T
    BY <1>1, <1>2
  <1>5. Cardinality(S \cup {b}) = Cardinality(S) + 1
    BY <1>3, <1>4, FS_AddElement
  <1>6. Cardinality(S \cup {b}) <= Cardinality(T)
    BY <1>3, <1>4, FS_Subset
  <1> QED
    BY <1>3, <1>5, <1>6

LEMMA AscendingBounds ==
    ASSUME NEW s \in Seq(Nat), s # <<>>, Ascending(s)
    PROVE  /\ Head(s) \in Range(s) /\ LastOf(s) \in Range(s) /\ Len(s) \in Nat /\ Len(s) >= 1
           /\ \A d \in Range(s) : d \in Nat /\ Head(s) <= d /\ d <= LastOf(s)
  <1>1. Len(s) \in Nat /\ Len(s) >= 1 /\ DOMAIN s = 1..Len(s) /\ Head(s) = s[1] /\ \A k \in 1..Len(s) : s[k] \in Nat
    OBVIOUS
  <1>2. Head(s) \in Range(s) /\ LastOf(s) \in Range(s)
    BY <1>1 DEF Range, LastOf
  <1>3. ASSUME NEW k \in 1..Len(s)
        PROVE  s[k] \in Nat /\ s[1] <= s[k] /\ s[k] <= s[Len(s)]
    BY <1>1, <1>3 DEF Ascending
  <1> QED
    BY <1>1, <1>2, <1>3 DEF Range, LastOf

LEMMA AscendingAppend ==
    ASSUME NEW s \in Seq(Nat), NEW n \in Nat, Ascending(s), \A d \in Range(s) : d < n
    PROVE  /\ Append(s, n) \in Seq(Nat) /\ Append(s, n) # <<>>
           /\ Ascending(Append(s, n)) /\ Range(Append(s, n)) = Range(s) \cup {n}
           /\ Head(Append(s, n)) = IF s = <<>> THEN n ELSE Head(s)
  <1>1. PICK t : t = Append(s, n)
    OBVIOUS
  <1>2. /\ t \in Seq(Nat) /\ t # <<>> /\ Len(t) = Len(s) + 1 /\ Len(s) \in Nat
        /\ DOMAIN t = 1..(Len(s) + 1) /\ DOMAIN s = 1..Len(s) /\ t[Len(s) + 1] = n
        /\ \A k \in 1..Len(s) : t[k] = s[k] /\ s[k] \in Nat
    BY <1>1
  <1>3. Range(t) = Range(s) \cup {n}
    BY <1>2 DEF Range
  <1>4. \A k \in 1..Len(s) : s[k] < n
    BY <1>2 DEF Range
  <1>5. ASSUME NEW j \in 1..Len(t), NEW k \in 1..Len(t), j < k
        PROVE  t[j] < t[k]
    <2>1. j \in 1..Len(s) /\ t[j] = s[j]
      BY <1>2, <1>5
    <2>2. CASE k = Len(s) + 1
      BY <1>2, <1>4, <2>1, <2>2
    <2>3. CASE k # Len(s) + 1
      <3>1. k \in 1..Len(s) /\ t[k] = s[k]
        BY <1>2, <2>3
      <3> QED
        BY <1>5, <2>1, <3>1 DEF Ascending
    <2> QED
      BY <2>2, <2>3
  <1>6. Head(t) = IF s = <<>> THEN n ELSE Head(s)
    <2>1. Head(t) = t[1]
      BY <1>2
    <2>2. CASE s = <<>>
      <3>1. Len(s) = 0
        BY <2>2
      <3> QED
        BY <1>2, <2>1, <2>2, <3>1
    <2>3. CASE s # <<>>
      <3>1. Head(s) = s[1] /\ Len(s) >= 1
        BY <2>3
      <3> QED
        BY <1>2, <2>1, <2>3, <3>1
    <2> QED
      BY <2>2, <2>3
  <1>7. Ascending(t)
    BY <1>5 DEF Ascending
  <1> QED
    BY <1>1, <1>2, <1>3, <1>6, <1>7
-----------------------------------------------------------------------------
(* Types                                                                   *)

LEMMA SseTypes == SseTypeOK /\ [SseNext]_sseVars => SseTypeOK'
  <1> SUFFICES ASSUME SseTypeOK, [SseNext]_sseVars PROVE SseTypeOK'
    OBVIOUS
  <1>1. Len(lines) \in Nat /\ read \in Nat /\ MaxLines \in Nat /\ Nothing \in Frames
    BY SseStreamAssumption DEF SseTypeOK, Nothing, Frames
  <1>2. CASE ServerWrites
    <2>1. PICK k \in Kinds : lines' = Append(lines, k)
      BY <1>2 DEF ServerWrites
    <2>2. lines' \in Seq(Kinds) /\ Len(lines') = Len(lines) + 1
      BY <2>1 DEF SseTypeOK
    <2> QED
      BY <1>1, <1>2, <2>2 DEF ServerWrites, SseTypeOK
  <1>3. CASE ServerCloses \/ TearDown \/ RunCancelled \/ DeadlinePasses \/ Open \/ OpenFails
    BY <1>3 DEF ServerCloses, TearDown, RunCancelled, DeadlinePasses, Open, OpenFails, SseTypeOK
  <1>4. CASE FieldLine
    <2>1. /\ read' = read + 1 /\ read < Len(lines)
          /\ UNCHANGED <<sse, lines, conn, openCtx, stepCtx, late, next, events>>
      BY <1>4 DEF FieldLine, Field, NextLine
    <2>2. frame \in Frames
      BY DEF SseTypeOK
    <2>3. frame' \in Frames
      <3>1. read + 1 \in Nat /\ Append(frame.data, read + 1) \in Seq(Nat)
        BY <1>1, <2>2 DEF Frames
      <3>2. \/ frame' = [frame EXCEPT !.name = read + 1] \/ frame' = [frame EXCEPT !.id = read + 1]
            \/ frame' = [frame EXCEPT !.data = Append(frame.data, read + 1)] \/ frame' = frame
        BY <1>4 DEF FieldLine
      <3> QED
        BY <2>2, <3>1, <3>2 DEF Frames
    <2> QED
      BY <1>1, <2>1, <2>3 DEF SseTypeOK
  <1>5. CASE BlankLine
    BY <1>1, <1>5 DEF BlankLine, Field, NextLine, SseTypeOK
  <1>6. CASE PartialFrame
    <2>1. frame' \in Frames
      BY <1>6 DEF PartialFrame, SseTypeOK, Frames
    <2> QED
      BY <1>6, <2>1 DEF PartialFrame, SseTypeOK
  <1>7. CASE LoopEnds \/ NextErr
    BY <1>7 DEF LoopEnds, NextErr, TimedOut, SseTypeOK
  <1>8. CASE CallNext
    BY <1>1, <1>8 DEF CallNext, SseTypeOK
  <1>9. ASSUME NEW hit \in BOOLEAN, Received(hit) PROVE SseTypeOK'
    <2>1. events' \in Seq(Frames)
      BY <1>9 DEF Received, SseTypeOK
    <2> QED
      BY <1>9, <2>1 DEF Received, SseTypeOK
  <1>10. CASE EventErr
    <2>1. events' \in Seq(Frames)
      BY <1>10 DEF EventErr, SseTypeOK
    <2> QED
      BY <1>10, <2>1 DEF EventErr, SseTypeOK
  <1>11. CASE UNCHANGED sseVars
    BY <1>11 DEF sseVars, SseTypeOK
  <1> QED
    BY <1>2, <1>3, <1>4, <1>5, <1>6, <1>7, <1>8, <1>9, <1>10, <1>11 DEF SseNext, EventMatches, EventPasses

LEMMA SseFacts ==
    ASSUME SseTypeOK
    PROVE  /\ read \in Nat /\ Len(lines) \in Nat /\ read <= Len(lines)
           /\ frame.name \in Nat /\ frame.id \in Nat /\ frame.data \in Seq(Nat) /\ frame.partial \in BOOLEAN
           /\ Len(events) \in Nat /\ DOMAIN events = 1..Len(events)
           /\ \A i \in DOMAIN events : /\ events[i].name \in Nat /\ events[i].id \in Nat
                                       /\ events[i].data \in Seq(Nat) /\ events[i].partial \in BOOLEAN
  <1>1. read \in Nat /\ Len(lines) \in Nat /\ read <= Len(lines)
    BY DEF SseTypeOK
  <1>2. events \in Seq(Frames) /\ frame \in Frames
    BY DEF SseTypeOK
  <1>3. Len(events) \in Nat /\ DOMAIN events = 1..Len(events) /\ \A i \in 1..Len(events) : events[i] \in Frames
    BY <1>2
  <1> QED
    BY <1>1, <1>2, <1>3 DEF Frames

\* What the invariant says of a recorded event.
LEMMA EventFacts ==
    ASSUME SseInv, NEW i \in DOMAIN events
    PROVE  /\ events[i].data \in Seq(Nat) /\ events[i].data # <<>>
           /\ Head(events[i].data) \in Nat /\ Head(events[i].data) > 0
           /\ Head(events[i].data) <= LastOf(events[i].data)
           /\ LastOf(events[i].data) \in Nat /\ LastOf(events[i].data) <= read
           /\ events[i].name \in Nat /\ events[i].id \in Nat /\ events[i].name <= read /\ events[i].id <= read
           /\ events[i].partial \/ BlankIn(LastOf(events[i].data) + 1, read)
           /\ events[i].partial => i = Len(events) /\ conn \in {"ended", "torn"}
  <1>1. /\ events[i].data \in Seq(Nat) /\ events[i].name \in Nat /\ events[i].id \in Nat
    BY SseFacts DEF SseInv
  <1>2. /\ events[i].data # <<>> /\ Ascending(events[i].data) /\ LastOf(events[i].data) <= read
        /\ events[i].name <= read /\ events[i].id <= read
        /\ events[i].partial \/ BlankIn(LastOf(events[i].data) + 1, read)
    BY DEF SseInv, EventInv, EndInv
  <1>3. /\ Range(events[i].data) \subseteq 1..Len(lines)
        /\ events[i].partial => i = Len(events) /\ conn \in {"ended", "torn"}
    BY DEF SseInv, FramesAreWhole, WholeFrame
  <1>4. /\ Head(events[i].data) \in Range(events[i].data) /\ Head(events[i].data) \in Nat
        /\ LastOf(events[i].data) \in Nat /\ Head(events[i].data) <= LastOf(events[i].data)
    BY <1>1, <1>2, AscendingBounds
  <1>5. Head(events[i].data) \in 1..Len(lines)
    BY <1>3, <1>4
  <1> QED
    BY <1>1, <1>2, <1>3, <1>4, <1>5

LEMMA LastDataFacts ==
    ASSUME SseInv
    PROVE  LastData \in Nat /\ LastData <= read
  <1>1. CASE events = <<>>
    BY <1>1, SseFacts DEF LastData, SseInv
  <1>2. CASE events # <<>>
    <2>1. Len(events) \in DOMAIN events
      BY <1>2 DEF SseInv, SseTypeOK
    <2> QED
      BY <1>2, <2>1, EventFacts DEF LastData
  <1> QED
    BY <1>1, <1>2
-----------------------------------------------------------------------------
(* Steps that read and record nothing                                      *)

\* Events that are not touched stay whole, while the lines they came from are.
LEMMA EventsStayWhole ==
    ASSUME SseInv, UNCHANGED <<lines, events>>, conn # "open" => conn' = conn
    PROVE  FramesAreWhole'
  <1>1. SUFFICES ASSUME NEW i \in DOMAIN events PROVE WholeFrame(i)'
    BY DEF FramesAreWhole
  <1>2. WholeFrame(i)
    BY DEF SseInv, FramesAreWhole
  <1>3. events[i].partial => i = Len(events') /\ conn' \in {"ended", "torn"}
    BY <1>2 DEF WholeFrame
  <1> QED
    BY <1>2, <1>3 DEF WholeFrame, FrameOf, LastOf

LEMMA QuietKeeps ==
    ASSUME SseInv, SseTypeOK', UNCHANGED <<lines, read, frame, events>>,
           conn # "open" => conn' = conn, next' \in {next, "done", "error"}
    PROVE  SseInv'
  <1>1. FramesAreWhole'
    BY EventsStayWhole
  <1>2. Over => Over'
    BY DEF Over
  <1>3. LastData' = LastData
    BY DEF LastData, LastOf
  <1>4. EventInv'
    <2>1. ASSUME NEW i \in DOMAIN events PROVE EndInv(events[i])'
      <3>1. EndInv(events[i])
        BY DEF SseInv, EventInv
      <3> QED
        BY <3>1 DEF EndInv, BlankIn, Ascending, LastOf
    <2>2. \A i \in DOMAIN events' : EndInv(events[i])'
      BY <2>1
    <2>3. Cut' => Over' /\ next' # "returned" /\ (next' = "next" => frame'.data = <<>>)
      BY <1>2 DEF SseInv, EventInv, Cut
    <2>4. next' = "open" => conn' = "none" /\ events' = <<>> /\ lines' = <<>>
      BY DEF SseInv, EventInv
    <2>5. next' = "loop" => \A j \in LastData' + 1 .. read' : lines'[j] # "data"
      BY <1>3 DEF SseInv, EventInv
    <2> QED
      BY <2>2, <2>3, <2>4, <2>5 DEF EventInv
  <1>5. FrameInv'
    <2>1. CASE next' = next
      <3>1. /\ \A f : \A k : NameInv(f, k) => NameInv(f, k)'
            /\ \A lo, hi : BlankIn(lo, hi)' = BlankIn(lo, hi)
        BY <1>3 DEF NameInv, FrameOf, BlankIn
      <3> QED
        BY <1>2, <1>3, <2>1, <3>1 DEF SseInv, FrameInv, Ascending, NameInv, FrameOf, BlankIn
    <2>2. CASE next' \in {"done", "error"}
      BY <2>2 DEF FrameInv
    <2> QED
      BY <2>1, <2>2
  <1> QED
    BY <1>1, <1>4, <1>5 DEF SseInv

LEMMA OpenKeeps ==
    ASSUME SseInv, SseTypeOK', Open
    PROVE  SseInv'
  <1>1. /\ next = "open" /\ conn = "none" /\ lines = <<>> /\ events = <<>>
        /\ UNCHANGED <<lines, events, read, frame>> /\ next' = "loop"
    BY DEF Open, SseInv, EventInv
  <1>2. Len(lines) = 0 /\ read = 0 /\ DOMAIN events = {}
    BY <1>1, SseFacts DEF SseInv
  <1>3. FramesAreWhole'
    BY <1>1, <1>2 DEF FramesAreWhole
  <1>4. EventInv'
    <2>1. \A j \in LastData' + 1 .. read' : FALSE
      BY <1>1, <1>2 DEF LastData
    <2> QED
      BY <1>1, <1>2, <2>1 DEF EventInv, Cut
  <1>5. FrameInv'
    BY <1>1 DEF FrameInv
  <1> QED
    BY <1>3, <1>4, <1>5 DEF SseInv

\* The frame is reset.
LEMMA CallNextKeeps ==
    ASSUME SseInv, SseTypeOK', CallNext
    PROVE  SseInv'
  <1>1. /\ next = "loop" /\ next' = "next" /\ frame' = Nothing
        /\ UNCHANGED <<sse, lines, conn, openCtx, stepCtx, late, read, events>>
    BY DEF CallNext
  <1>2. FramesAreWhole'
    BY <1>1, EventsStayWhole
  <1>3. LastData' = LastData /\ (Over => Over')
    BY <1>1 DEF LastData, LastOf, Over
  <1>4. frame'.data = <<>> /\ frame'.name = 0 /\ frame'.id = 0 /\ frame'.partial = FALSE
    BY <1>1 DEF Nothing
  <1>5. EventInv'
    <2>1. ASSUME NEW i \in DOMAIN events PROVE EndInv(events[i])'
      <3>1. EndInv(events[i])
        BY DEF SseInv, EventInv
      <3> QED
        BY <1>1, <3>1 DEF EndInv, BlankIn, Ascending, LastOf
    <2> QED
      BY <1>1, <1>3, <1>4, <2>1 DEF SseInv, EventInv, Cut
  <1>6. \A j \in LastData + 1 .. read : lines[j] # "data"
    BY <1>1 DEF SseInv, EventInv
  <1>7. Range(frame'.data) = {j \in LastData' + 1 .. read' : lines'[j] = "data"}
    <2>1. Range(frame'.data) = {}
      BY <1>4 DEF Range
    <2> QED
      BY <1>1, <1>3, <1>6, <2>1
  <1>8. Ascending(frame.data)' /\ NameInv(frame.name, "event")' /\ NameInv(frame.id, "id")'
    BY <1>4 DEF Ascending, NameInv
  <1>9. FrameInv'
    BY <1>1, <1>4, <1>7, <1>8 DEF FrameInv
  <1> QED
    BY <1>2, <1>5, <1>9 DEF SseInv
-----------------------------------------------------------------------------
(* A line arrives                                                          *)

\* It belongs to no frame that was recorded.
LEMMA ServerWritesKeeps ==
    ASSUME SseInv, SseTypeOK', ServerWrites
    PROVE  SseInv'
  <1>1. PICK k \in Kinds : lines' = Append(lines, k)
    BY DEF ServerWrites
  <1>2. conn = "open" /\ UNCHANGED <<sse, conn, openCtx, stepCtx, late, read, frame, next, events>>
    BY DEF ServerWrites
  <1>3. PICK len \in Nat : len = Len(lines)
    BY SseFacts DEF SseInv
  <1>4. /\ Len(lines') = len + 1 /\ lines'[len + 1] = k /\ read \in Nat /\ read <= len
        /\ \A j \in 1..len : lines'[j] = lines[j]
    BY <1>1, <1>3, SseFacts DEF SseInv, SseTypeOK
  <1>5. ASSUME NEW j \in 1..(len + 1) PROVE FrameOf(j)' = FrameOf(j)
    <2>1. {b \in 1..j-1 : lines'[b] = "blank"} = {b \in 1..j-1 : lines[b] = "blank"}
      BY <1>3, <1>4
    <2> QED
      BY <2>1 DEF FrameOf
  <1>6. ASSUME NEW lo \in Nat, NEW hi \in Nat, 0 < lo, hi <= len
        PROVE  BlankIn(lo, hi)' = BlankIn(lo, hi)
    BY <1>3, <1>4, <1>6 DEF BlankIn
  <1>7. LastData' = LastData /\ LastData \in Nat /\ LastData <= read
    BY <1>2, LastDataFacts DEF LastData, LastOf
  <1>8. ASSUME NEW i \in DOMAIN events PROVE WholeFrame(i)'
    <2>1. PICK ev : ev = events[i]
      OBVIOUS
    <2>2. PICK hd, before : hd = Head(ev.data) /\ before = IF i = 1 THEN 0 ELSE LastOf(events[i - 1].data)
      OBVIOUS
    <2>3. /\ ~ev.partial /\ hd \in 1..len /\ ev.name \in Nat /\ ev.id \in Nat /\ ev.name <= len /\ ev.id <= len
          /\ LastOf(ev.data) \in Nat /\ LastOf(ev.data) <= read /\ BlankIn(LastOf(ev.data) + 1, read)
          /\ hd <= LastOf(ev.data)
      <3>1. /\ hd \in Nat /\ hd > 0 /\ hd <= LastOf(ev.data) /\ LastOf(ev.data) \in Nat /\ LastOf(ev.data) <= read
            /\ ev.name \in Nat /\ ev.id \in Nat /\ ev.name <= read /\ ev.id <= read
            /\ ev.partial \/ BlankIn(LastOf(ev.data) + 1, read)
            /\ ev.partial => i = Len(events) /\ conn \in {"ended", "torn"}
        BY <2>1, <2>2, EventFacts
      <3> QED
        BY <1>2, <1>3, <1>4, <3>1
    <2>4. /\ ev.data # <<>>
          /\ Range(ev.data) = {j \in 1..len : lines[j] = "data" /\ FrameOf(j) = FrameOf(hd)}
          /\ \A j \in 1..Len(ev.data) - 1 : ev.data[j] < ev.data[j + 1]
          /\ \A j \in before + 1 .. hd - 1 : lines[j] # "data"
          /\ \A f \in {ev.name, ev.id} : f # 0 => f > before /\ FrameOf(f) <= FrameOf(hd)
          /\ ev.name # 0 => lines[ev.name] = "event"
          /\ ev.id # 0 => lines[ev.id] = "id"
      BY <1>3, <2>1, <2>2 DEF SseInv, FramesAreWhole, WholeFrame
    <2>5. before \in Nat
      <3>1. CASE i = 1
        BY <2>2, <3>1
      <3>2. CASE i # 1
        <4>1. i - 1 \in DOMAIN events
          BY <3>2, SseFacts DEF SseInv
        <4> QED
          BY <2>2, <3>2, <4>1, EventFacts
      <3> QED
        BY <3>1, <3>2
    <2>6. FrameOf(hd) # FrameOf(len + 1)
      <3>1. BlankIn(hd, (len + 1) - 1)
        <4>1. PICK b \in (LastOf(ev.data) + 1) .. read : lines[b] = "blank"
          BY <2>3 DEF BlankIn
        <4>2. b \in hd .. ((len + 1) - 1)
          BY <1>3, <1>4, <2>3, <4>1
        <4> QED
          BY <4>1, <4>2 DEF BlankIn
      <3>2. FrameOf(hd) < FrameOf(len + 1)
        <4>1. hd \in Nat /\ 0 < hd /\ len + 1 \in Nat
          BY <1>3, <2>3
        <4> QED
          BY <3>1, <4>1, FrameOfApart
      <3>3. hd \in Nat
        BY <2>3
      <3>4. FrameOf(hd) \in Nat
        BY <3>3, FrameOfType
      <3> QED
        BY <3>2, <3>4
    <2>7. {j \in 1..(len + 1) : lines'[j] = "data" /\ FrameOf(j)' = FrameOf(hd)'}
            = {j \in 1..len : lines[j] = "data" /\ FrameOf(j) = FrameOf(hd)}
      <3>1. FrameOf(hd)' = FrameOf(hd)
        BY <1>5, <2>3, <1>3
      <3>2. ASSUME NEW j \in 1..(len + 1)
            PROVE  (lines'[j] = "data" /\ FrameOf(j)' = FrameOf(hd)')
                     <=> j \in 1..len /\ lines[j] = "data" /\ FrameOf(j) = FrameOf(hd)
        BY <1>3, <1>4, <1>5, <2>6, <3>1
      <3> QED
        BY <1>3, <3>2
    <2>8. \A j \in before + 1 .. hd - 1 : lines'[j] # "data"
      <3>1. \A j \in before + 1 .. hd - 1 : j \in 1..len
        BY <1>3, <2>3, <2>5
      <3> QED
        BY <1>4, <2>4, <3>1
    <2>9. \A f \in {ev.name, ev.id} : f # 0 => f > before /\ FrameOf(f)' <= FrameOf(hd)'
      <3>1. SUFFICES ASSUME NEW f \in {ev.name, ev.id}, f # 0 PROVE f > before /\ FrameOf(f)' <= FrameOf(hd)'
        OBVIOUS
      <3>2. f \in 1..(len + 1) /\ hd \in 1..(len + 1)
        BY <1>3, <2>3, <3>1
      <3>3. FrameOf(f)' = FrameOf(f) /\ FrameOf(hd)' = FrameOf(hd)
        BY <1>5, <3>2
      <3> QED
        BY <2>4, <3>1, <3>3
    <2>10. (ev.name # 0 => lines'[ev.name] = "event") /\ (ev.id # 0 => lines'[ev.id] = "id")
      BY <1>3, <1>4, <2>3, <2>4
    <2> QED
      BY <1>2, <1>4, <2>1, <2>2, <2>3, <2>4, <2>7, <2>8, <2>9, <2>10 DEF WholeFrame, LastOf
  <1>9. FramesAreWhole'
    BY <1>2, <1>8 DEF FramesAreWhole
  <1>10. ~Cut /\ next # "open"
    BY <1>2 DEF SseInv, EventInv, Over
  <1>11. EventInv'
    <2>1. ASSUME NEW i \in DOMAIN events PROVE EndInv(events[i])'
      <3>1. EndInv(events[i])
        BY DEF SseInv, EventInv
      <3>2. PICK ev : ev = events[i]
        OBVIOUS
      <3>3. LastOf(ev.data) \in Nat
        BY <3>2, EventFacts
      <3>4. BlankIn(LastOf(ev.data) + 1, read) => BlankIn(LastOf(ev.data) + 1, read)'
        BY <1>2, <1>3, <1>4, <1>6, <3>3 DEF LastOf, BlankIn
      <3>5. EndInv(ev)'
        BY <1>2, <3>1, <3>2, <3>4 DEF EndInv, Ascending, LastOf
      <3> QED
        BY <1>2, <3>2, <3>5
    <2>2. next' = "loop" => \A j \in LastData' + 1 .. read' : lines'[j] # "data"
      <3>1. SUFFICES ASSUME next = "loop", NEW j \in LastData + 1 .. read PROVE lines'[j] # "data"
        BY <1>2, <1>7
      <3>2. lines[j] # "data" /\ j \in 1..len
        BY <1>3, <1>4, <1>7, <3>1 DEF SseInv, EventInv
      <3> QED
        BY <1>4, <3>2
    <2>3. ~Cut' /\ next' # "open"
      BY <1>2, <1>10 DEF Cut
    <2> QED
      BY <1>2, <2>1, <2>2, <2>3 DEF EventInv
  <1>12. ASSUME next \in {"next", "returned"}
         PROVE  /\ Range(frame.data) \subseteq 1..read
                /\ frame.data # <<>> => Head(frame.data) \in 1..read
    <2>1. Range(frame.data) \subseteq 1..read /\ Ascending(frame.data)
      BY <1>4, <1>7, <1>12 DEF SseInv, FrameInv
    <2>2. frame.data # <<>> => Head(frame.data) \in Range(frame.data)
      BY <2>1, SseFacts, AscendingBounds DEF SseInv
    <2> QED
      BY <2>1, <2>2
  <1>13. FrameInv'
    <2>1. CASE next \notin {"next", "returned"}
      BY <1>2, <2>1 DEF FrameInv
    <2>2. CASE next \in {"next", "returned"}
      <3>1. PICK hd, data : data = frame.data /\ hd = Head(data) /\ (data # <<>> => hd \in 1..read)
        BY <1>12, <2>2
      <3>2. Range(data) = {j \in LastData + 1 .. read : lines[j] = "data"} /\ Ascending(data)
        BY <2>2, <3>1 DEF SseInv, FrameInv
      <3>3. {j \in LastData + 1 .. read : lines'[j] = "data"} = {j \in LastData + 1 .. read : lines[j] = "data"}
        BY <1>3, <1>4, <1>7
      <3>4. ASSUME NEW f \in Nat, NEW kind, NameInv(f, kind)
            PROVE  NameInv(f, kind)'
        <4>1. SUFFICES ASSUME f # 0
                       PROVE  /\ f > LastData /\ f <= read /\ lines'[f] = kind
                              /\ data # <<>> => FrameOf(f)' <= FrameOf(hd)'
          BY <1>2, <1>7, <3>1 DEF NameInv
        <4>2. /\ f > LastData /\ f <= read /\ lines[f] = kind /\ f \in 1..len
              /\ data # <<>> => FrameOf(f) <= FrameOf(hd)
          BY <1>3, <1>4, <3>1, <3>4, <4>1 DEF NameInv
        <4>3. FrameOf(f)' = FrameOf(f)
          BY <1>3, <1>5, <4>2
        <4>4. data # <<>> => FrameOf(hd)' = FrameOf(hd)
          BY <1>3, <1>4, <1>5, <3>1
        <4> QED
          BY <1>3, <1>4, <4>2, <4>3, <4>4
      <3>5. NameInv(frame.name, "event")' /\ NameInv(frame.id, "id")'
        <4>1. NameInv(frame.name, "event") /\ NameInv(frame.id, "id") /\ frame.name \in Nat /\ frame.id \in Nat
          BY <2>2, SseFacts DEF SseInv, FrameInv
        <4>2. PICK name \in Nat, id \in Nat : name = frame.name /\ id = frame.id
          BY <4>1
        <4>3. NameInv(name, "event")' /\ NameInv(id, "id")'
          BY <3>4, <4>1, <4>2
        <4> QED
          BY <1>2, <4>2, <4>3 DEF NameInv
      <3>6. data # <<>> => /\ BlankIn(LastData + 1, hd - 1)' = BlankIn(LastData + 1, hd - 1)
                           /\ BlankIn(hd, read)' = BlankIn(hd, read)
                           /\ BlankIn(hd, read - 1)' = BlankIn(hd, read - 1)
        <4>1. SUFFICES ASSUME data # <<>>
                       PROVE  /\ BlankIn(LastData + 1, hd - 1)' = BlankIn(LastData + 1, hd - 1)
                              /\ BlankIn(hd, read)' = BlankIn(hd, read)
                              /\ BlankIn(hd, read - 1)' = BlankIn(hd, read - 1)
          OBVIOUS
        <4>2. PICK first \in Nat, r \in Nat : first = LastData + 1 /\ r = read /\ first > 0 /\ r <= len
          BY <1>3, <1>4, <1>7
        <4>3. hd \in Nat /\ 0 < hd /\ hd <= r
          BY <3>1, <4>1, <4>2
        <4>4. \A lo, hi \in Nat : 0 < lo /\ hi <= len => BlankIn(lo, hi)' = BlankIn(lo, hi)
          BY <1>6
        <4>5. /\ BlankIn(first, hd - 1)' = BlankIn(first, hd - 1)
              /\ BlankIn(hd, r)' = BlankIn(hd, r)
              /\ BlankIn(hd, r - 1)' = BlankIn(hd, r - 1)
          BY <1>3, <4>2, <4>3, <4>4
        <4> QED
          BY <1>2, <1>7, <4>2, <4>5 DEF BlankIn
      <3>7. data # <<>> /\ events' # <<>> => BlankIn(LastData + 1, Head(frame.data) - 1)'
        BY <1>2, <1>7, <2>2, <3>1, <3>6 DEF SseInv, FrameInv
      <3>8. next = "next" => ~frame.partial /\ (data # <<>> => ~BlankIn(hd, read)')
        BY <2>2, <3>1, <3>6 DEF SseInv, FrameInv
      <3>9. next = "returned" => /\ data # <<>> /\ ~frame.partial
                                 /\ read > 0 /\ lines'[read] = "blank" /\ ~BlankIn(hd, read - 1)'
        <4>1. SUFFICES ASSUME next = "returned"
                       PROVE  /\ data # <<>> /\ ~frame.partial
                              /\ read > 0 /\ lines'[read] = "blank" /\ ~BlankIn(hd, read - 1)'
          OBVIOUS
        <4>2. data # <<>> /\ ~frame.partial
          BY <1>2, <3>1, <4>1 DEF SseInv, FrameInv, Over
        <4>3. read > 0 /\ lines[read] = "blank" /\ ~BlankIn(hd, read - 1)
          BY <3>1, <4>1, <4>2 DEF SseInv, FrameInv
        <4> QED
          BY <1>3, <1>4, <3>6, <4>2, <4>3
      <3>10. Ascending(frame.data)' /\ Range(frame'.data) = {j \in LastData' + 1 .. read' : lines'[j] = "data"}
        BY <1>2, <1>7, <3>1, <3>2, <3>3 DEF Ascending
      <3>11. /\ next' = "next" => ~frame'.partial /\ (frame'.data # <<>> => ~BlankIn(Head(frame.data), read)')
             /\ next' = "returned" =>
                   frame'.data # <<>> /\ ~frame'.partial
                   /\ read' > 0 /\ lines'[read'] = "blank" /\ ~BlankIn(Head(frame.data), read - 1)'
        BY <1>2, <3>1, <3>8, <3>9 DEF BlankIn
      <3> QED
        BY <3>1, <1>2, <3>5, <3>7, <3>10, <3>11 DEF FrameInv
    <2> QED
      BY <2>1, <2>2
  <1> QED
    BY <1>9, <1>11, <1>13 DEF SseInv
-----------------------------------------------------------------------------
(* A line is read                                                          *)

LEMMA HeadOfFrame ==
    ASSUME SseInv, next \in {"next", "returned"}, frame.data # <<>>
    PROVE  /\ Head(frame.data) \in Range(frame.data) /\ Head(frame.data) \in Nat
           /\ Head(frame.data) > LastData /\ Head(frame.data) <= read /\ lines[Head(frame.data)] = "data"
           /\ LastOf(frame.data) \in Range(frame.data)
           /\ \A d \in Range(frame.data) : d \in Nat /\ Head(frame.data) <= d /\ d <= LastOf(frame.data)
  <1>1. frame.data \in Seq(Nat) /\ Ascending(frame.data)
        /\ Range(frame.data) = {j \in LastData + 1 .. read : lines[j] = "data"}
    BY SseFacts DEF SseInv, FrameInv
  <1>2. /\ Head(frame.data) \in Range(frame.data) /\ LastOf(frame.data) \in Range(frame.data)
        /\ \A d \in Range(frame.data) : d \in Nat /\ Head(frame.data) <= d /\ d <= LastOf(frame.data)
    BY <1>1, AscendingBounds
  <1>3. LastData \in Nat /\ read \in Nat
    BY LastDataFacts, SseFacts DEF SseInv
  <1> QED
    BY <1>1, <1>2, <1>3

\* Whatever the line: events stay as they ended, unless one was cut short,
\* and then there is no line left to read.
LEMMA ReadKeepsEvents ==
    ASSUME SseInv, SseTypeOK', NextLine, next = "next", read' = read + 1, UNCHANGED <<lines, conn, events>>,
           next' \in {"next", "returned"}
    PROVE  FramesAreWhole' /\ EventInv' /\ ~Cut /\ LastData' = LastData
  <1>1. read \in Nat /\ ~Cut
    BY SseFacts DEF SseInv, EventInv, Over, NextLine
  <1>2. FramesAreWhole'
    BY EventsStayWhole
  <1>3. LastData' = LastData /\ ~Cut'
    BY <1>1 DEF LastData, LastOf, Cut
  <1>4. ASSUME NEW i \in DOMAIN events PROVE EndInv(events[i])'
    <2>1. PICK ev : ev = events[i]
      OBVIOUS
    <2>2. EndInv(ev) /\ LastOf(ev.data) \in Nat /\ ev.name \in Nat /\ ev.id \in Nat
      BY <2>1, EventFacts DEF SseInv, EventInv
    <2>3. BlankIn(LastOf(ev.data) + 1, read) => BlankIn(LastOf(ev.data) + 1, read)'
      BY <1>1, <2>2 DEF BlankIn, LastOf
    <2>4. EndInv(ev)'
      BY <1>1, <2>2, <2>3 DEF EndInv, Ascending, LastOf
    <2> QED
      BY <2>1, <2>4
  <1>5. EventInv'
    BY <1>3, <1>4 DEF EventInv
  <1> QED
    BY <1>1, <1>2, <1>3, <1>5

\* A data line joins the frame.
LEMMA DataLineKeeps ==
    ASSUME SseInv, SseTypeOK', FieldLine, lines[read + 1] = "data"
    PROVE  SseInv'
  <1>1. /\ next = "next" /\ NextLine /\ read' = read + 1
        /\ UNCHANGED <<sse, lines, conn, openCtx, stepCtx, late, next, events>>
    BY DEF FieldLine, Field
  <1>2. frame' = [frame EXCEPT !.data = Append(@, read + 1)]
    BY DEF FieldLine, Field
  <1>3. FramesAreWhole' /\ EventInv' /\ ~Cut /\ LastData' = LastData
    BY <1>1, ReadKeepsEvents
  <1>4. PICK r \in Nat : r = read + 1
    BY SseFacts DEF SseInv
  <1>5. PICK data \in Seq(Nat) : data = frame.data
    BY SseFacts DEF SseInv
  <1>6. PICK last \in Nat : last = LastData
    BY LastDataFacts
  <1>7. /\ frame'.data = Append(data, r) /\ frame'.name = frame.name /\ frame'.id = frame.id
        /\ frame'.partial = frame.partial /\ lines[r] = "data" /\ read' = r /\ read \in Nat /\ last <= read
        /\ frame.name \in Nat /\ frame.id \in Nat
    BY <1>1, <1>2, <1>4, <1>5, <1>6, SseFacts, LastDataFacts DEF SseInv, SseTypeOK, Frames
  <1>8. /\ Range(data) = {j \in last + 1 .. read : lines[j] = "data"} /\ Ascending(data)
        /\ NameInv(frame.name, "event") /\ NameInv(frame.id, "id")
        /\ data # <<>> /\ events # <<>> => BlankIn(last + 1, Head(data) - 1)
        /\ ~frame.partial /\ (data # <<>> => ~BlankIn(Head(data), read))
    BY <1>1, <1>5, <1>6 DEF SseInv, FrameInv
  <1>9. \A d \in Range(data) : d < r
    BY <1>4, <1>6, <1>7, <1>8
  <1>10. PICK more, hd : more = Append(data, r) /\ hd = Head(more)
    OBVIOUS
  <1>11. /\ more # <<>> /\ Ascending(more) /\ Range(more) = Range(data) \cup {r}
         /\ hd = IF data = <<>> THEN r ELSE Head(data)
    BY <1>8, <1>9, <1>10, AscendingAppend
  <1>12. Range(more) = {j \in last + 1 .. r : lines[j] = "data"}
    BY <1>4, <1>6, <1>7, <1>8, <1>11
  <1>13. data # <<>> => Head(data) \in Nat /\ Head(data) <= read
    BY <1>1, <1>5, HeadOfFrame
  <1>14. ~BlankIn(hd, r)
    BY <1>4, <1>7, <1>8, <1>11, <1>13 DEF BlankIn
  <1>15. events # <<>> => BlankIn(last + 1, hd - 1)
    <2>1. CASE data # <<>>
      BY <1>8, <1>11, <2>1
    <2>2. ASSUME data = <<>>, events # <<>> PROVE BlankIn(last + 1, r - 1)
      <3>1. Len(events) \in DOMAIN events
        BY <2>2, SseFacts DEF SseInv, SseTypeOK
      <3>2. EndInv(events[Len(events)]) /\ ~events[Len(events)].partial
        BY <1>3, <2>2, <3>1 DEF SseInv, EventInv, Cut
      <3>3. BlankIn(last + 1, read)
        BY <1>6, <2>2, <3>2 DEF EndInv, LastData
      <3>4. r - 1 = read
        BY <1>4, <1>7
      <3> QED
        BY <3>3, <3>4
    <2> QED
      BY <1>11, <2>1, <2>2
  <1>16. ASSUME NEW f \in Nat, NEW k, NameInv(f, k)
         PROVE  f # 0 => f > last /\ f <= r /\ lines[f] = k /\ FrameOf(f) <= FrameOf(hd)
    <2>1. SUFFICES ASSUME f # 0 PROVE f > last /\ f <= r /\ lines[f] = k /\ FrameOf(f) <= FrameOf(hd)
      OBVIOUS
    <2>2. f > last /\ f <= read /\ lines[f] = k /\ (data # <<>> => FrameOf(f) <= FrameOf(Head(data)))
      BY <1>5, <1>6, <1>16, <2>1 DEF NameInv
    <2>3. f <= r
      BY <1>4, <1>7, <2>2
    <2>4. FrameOf(f) <= FrameOf(hd)
      BY <1>11, <2>2, <2>3, FrameOfMonotone
    <2> QED
      BY <2>2, <2>3, <2>4
  <1>17. NameInv(frame.name, "event")' /\ NameInv(frame.id, "id")'
    <2>1. PICK name \in Nat, id \in Nat : name = frame.name /\ id = frame.id
      BY <1>7
    <2>2. /\ name # 0 => name > last /\ name <= r /\ lines[name] = "event" /\ FrameOf(name) <= FrameOf(hd)
          /\ id # 0 => id > last /\ id <= r /\ lines[id] = "id" /\ FrameOf(id) <= FrameOf(hd)
      BY <1>8, <1>16, <2>1
    <2>3. \A i : FrameOf(i)' = FrameOf(i)
      BY <1>1 DEF FrameOf
    <2> QED
      BY <1>1, <1>3, <1>6, <1>7, <1>10, <2>1, <2>2, <2>3 DEF NameInv
  <1>18. /\ Range(frame'.data) = {j \in LastData' + 1 .. read' : lines'[j] = "data"} /\ Ascending(frame.data)'
         /\ events' # <<>> => BlankIn(LastData + 1, Head(frame.data) - 1)'
         /\ ~frame'.partial /\ ~BlankIn(Head(frame.data), read)'
    BY <1>1, <1>3, <1>6, <1>7, <1>8, <1>10, <1>11, <1>12, <1>14, <1>15 DEF Ascending, BlankIn
  <1>19. FrameInv'
    BY <1>1, <1>17, <1>18 DEF FrameInv
  <1> QED
    BY <1>3, <1>19 DEF SseInv

\* A line that is no data leaves the data alone.
LEMMA OtherLine ==
    ASSUME SseInv, SseTypeOK', next = "next", NextLine, read' = read + 1, lines[read + 1] # "data",
           UNCHANGED <<lines, conn, events>>, next' \in {"next", "returned"},
           frame'.data = frame.data, frame'.partial = frame.partial,
           frame'.name = frame.name \/ (frame'.name = read + 1 /\ lines[read + 1] = "event"),
           frame'.id = frame.id \/ (frame'.id = read + 1 /\ lines[read + 1] = "id")
    PROVE  /\ FramesAreWhole' /\ EventInv' /\ LastData' = LastData
           /\ Range(frame'.data) = {j \in LastData' + 1 .. read' : lines'[j] = "data"}
           /\ Ascending(frame.data)' /\ NameInv(frame.name, "event")' /\ NameInv(frame.id, "id")'
           /\ frame'.data # <<>> /\ events' # <<>> => BlankIn(LastData + 1, Head(frame.data) - 1)'
  <1>1. FramesAreWhole' /\ EventInv' /\ ~Cut /\ LastData' = LastData
    BY ReadKeepsEvents
  <1>2. PICK r \in Nat, data \in Seq(Nat), last \in Nat : r = read + 1 /\ data = frame.data /\ last = LastData
    BY SseFacts, LastDataFacts DEF SseInv
  <1>3. /\ lines[r] # "data" /\ read' = r /\ read \in Nat /\ last <= read
        /\ frame.name \in Nat /\ frame.id \in Nat
    BY <1>2, SseFacts, LastDataFacts DEF SseInv
  <1>4. /\ Range(data) = {j \in last + 1 .. read : lines[j] = "data"} /\ Ascending(data)
        /\ NameInv(frame.name, "event") /\ NameInv(frame.id, "id")
        /\ data # <<>> /\ events # <<>> => BlankIn(last + 1, Head(data) - 1)
        /\ ~frame.partial /\ (data # <<>> => ~BlankIn(Head(data), read))
    BY <1>2 DEF SseInv, FrameInv
  <1>5. Range(data) = {j \in last + 1 .. r : lines[j] = "data"}
    BY <1>2, <1>3, <1>4
  <1>6. data # <<>> => Head(data) \in Nat /\ Head(data) <= read /\ Head(data) > 0
    BY <1>2, HeadOfFrame
  <1>7. \A i : FrameOf(i)' = FrameOf(i)
    BY DEF FrameOf
  <1>8. data # <<>> => FrameOf(r) <= FrameOf(Head(data))
    <2>1. SUFFICES ASSUME data # <<>> PROVE FrameOf(r) <= FrameOf(Head(data))
      OBVIOUS
    <2>2. r - 1 = read /\ Head(data) <= r
      BY <1>2, <1>3, <1>6, <2>1
    <2>3. FrameOf(Head(data)) = FrameOf(r)
      BY <1>2, <1>4, <1>6, <2>1, <2>2, FrameOfSame
    <2>4. FrameOf(r) \in Nat
      BY FrameOfType
    <2> QED
      BY <2>3, <2>4
  <1>9. ASSUME NEW f \in Nat, NEW k, NameInv(f, k) \/ (f = r /\ lines[r] = k)
        PROVE  NameInv(f, k)'
    <2>1. CASE f = r /\ lines[r] = k
      <3>1. f > last /\ f <= r
        BY <1>2, <1>3, <2>1
      <3> QED
        BY <1>1, <1>2, <1>3, <1>7, <1>8, <2>1, <3>1 DEF NameInv
    <2>2. CASE NameInv(f, k)
      <3>1. f # 0 => f > last /\ f <= r /\ lines[f] = k /\ (data # <<>> => FrameOf(f) <= FrameOf(Head(data)))
        BY <1>2, <1>3, <2>2 DEF NameInv
      <3> QED
        BY <1>1, <1>2, <1>3, <1>7, <3>1 DEF NameInv
    <2> QED
      BY <1>9, <2>1, <2>2
  <1>10. NameInv(frame.name, "event")' /\ NameInv(frame.id, "id")'
    <2>1. PICK name \in Nat, id \in Nat : name = frame'.name /\ id = frame'.id
      BY <1>2, <1>3
    <2>2. NameInv(name, "event") \/ (name = r /\ lines[r] = "event")
      BY <1>2, <1>4, <2>1
    <2>3. NameInv(id, "id") \/ (id = r /\ lines[r] = "id")
      BY <1>2, <1>4, <2>1
    <2>4. NameInv(name, "event")' /\ NameInv(id, "id")'
      BY <1>9, <2>2, <2>3
    <2> QED
      BY <2>1, <2>4 DEF NameInv
  <1>11. Range(frame'.data) = {j \in LastData' + 1 .. read' : lines'[j] = "data"} /\ Ascending(frame.data)'
    BY <1>1, <1>2, <1>3, <1>4, <1>5 DEF Ascending
  <1>12. frame'.data # <<>> /\ events' # <<>> => BlankIn(LastData + 1, Head(frame.data) - 1)'
    BY <1>1, <1>2, <1>4 DEF BlankIn
  <1> QED
    BY <1>1, <1>10, <1>11, <1>12

LEMMA FieldLineKeeps ==
    ASSUME SseInv, SseTypeOK', FieldLine, lines[read + 1] # "data"
    PROVE  SseInv'
  <1>1. /\ next = "next" /\ NextLine /\ read' = read + 1
        /\ UNCHANGED <<sse, lines, conn, openCtx, stepCtx, late, next, events>>
        /\ lines[read + 1] # "blank"
    BY DEF FieldLine, Field
  <1>2. /\ frame'.data = frame.data /\ frame'.partial = frame.partial
        /\ frame'.name = frame.name \/ (frame'.name = read + 1 /\ lines[read + 1] = "event")
        /\ frame'.id = frame.id \/ (frame'.id = read + 1 /\ lines[read + 1] = "id")
    <2>1. frame \in Frames
      BY DEF SseInv, SseTypeOK
    <2> QED
      BY <2>1 DEF FieldLine, Field, Frames
  <1>3. /\ FramesAreWhole' /\ EventInv' /\ LastData' = LastData
        /\ Range(frame'.data) = {j \in LastData' + 1 .. read' : lines'[j] = "data"}
        /\ Ascending(frame.data)' /\ NameInv(frame.name, "event")' /\ NameInv(frame.id, "id")'
        /\ frame'.data # <<>> /\ events' # <<>> => BlankIn(LastData + 1, Head(frame.data) - 1)'
    BY <1>1, <1>2, OtherLine
  <1>4. ~frame.partial /\ (frame.data # <<>> => ~BlankIn(Head(frame.data), read))
    BY <1>1 DEF SseInv, FrameInv
  <1>5. frame.data # <<>> => Head(frame.data) \in Nat /\ read \in Nat
    BY <1>1, HeadOfFrame, SseFacts DEF SseInv
  <1>6. ~frame'.partial /\ (frame'.data # <<>> => ~BlankIn(Head(frame.data), read)')
    BY <1>1, <1>2, <1>4, <1>5 DEF BlankIn
  <1>7. FrameInv'
    BY <1>1, <1>3, <1>6 DEF FrameInv
  <1> QED
    BY <1>3, <1>7 DEF SseInv

\* A blank line ends a frame that has data.
LEMMA BlankLineKeeps ==
    ASSUME SseInv, SseTypeOK', BlankLine
    PROVE  SseInv'
  <1>1. /\ next = "next" /\ NextLine /\ read' = read + 1 /\ lines[read + 1] = "blank"
        /\ UNCHANGED <<sse, lines, conn, openCtx, stepCtx, late, frame, events>>
        /\ next' = IF frame.data = <<>> THEN "next" ELSE "returned"
    BY DEF BlankLine, Field
  <1>2. /\ FramesAreWhole' /\ EventInv' /\ LastData' = LastData
        /\ Range(frame'.data) = {j \in LastData' + 1 .. read' : lines'[j] = "data"}
        /\ Ascending(frame.data)' /\ NameInv(frame.name, "event")' /\ NameInv(frame.id, "id")'
        /\ frame'.data # <<>> /\ events' # <<>> => BlankIn(LastData + 1, Head(frame.data) - 1)'
    BY <1>1, OtherLine
  <1>3. ~frame.partial /\ (frame.data # <<>> => ~BlankIn(Head(frame.data), read)) /\ read \in Nat
    BY <1>1, SseFacts DEF SseInv, FrameInv
  <1>4. CASE frame.data = <<>>
    <2>1. next' = "next" /\ ~frame'.partial /\ frame'.data = <<>>
      BY <1>1, <1>3, <1>4
    <2>2. FrameInv'
      BY <1>2, <2>1 DEF FrameInv
    <2> QED
      BY <1>2, <2>2 DEF SseInv
  <1>5. CASE frame.data # <<>>
    <2>1. next' = "returned" /\ ~frame'.partial /\ frame'.data # <<>> /\ read' > 0 /\ lines'[read'] = "blank"
      BY <1>1, <1>3, <1>5
    <2>2. ~BlankIn(Head(frame.data), read - 1)'
      BY <1>1, <1>3, <1>5 DEF BlankIn
    <2>3. FrameInv'
      BY <1>2, <2>1, <2>2 DEF FrameInv
    <2> QED
      BY <1>2, <2>3 DEF SseInv
  <1> QED
    BY <1>4, <1>5

\* The end of the body ends one too, and the stream.
LEMMA PartialFrameKeeps ==
    ASSUME SseInv, SseTypeOK', PartialFrame
    PROVE  SseInv'
  <1>1. /\ next = "next" /\ ~NextLine /\ conn \in {"ended", "torn"} /\ frame.data # <<>> /\ next' = "returned"
        /\ frame' = [frame EXCEPT !.partial = TRUE]
        /\ UNCHANGED <<sse, lines, conn, openCtx, stepCtx, late, read, events>>
    BY DEF PartialFrame
  <1>2. /\ frame'.data = frame.data /\ frame'.name = frame.name /\ frame'.id = frame.id /\ frame'.partial
    BY <1>1 DEF SseInv, SseTypeOK, Frames
  <1>3. Over' /\ ~Cut' /\ LastData' = LastData
    BY <1>1, SseFacts DEF Over, NextLine, SseInv, EventInv, Cut, LastData, LastOf
  <1>4. FramesAreWhole'
    BY <1>1, EventsStayWhole
  <1>5. EventInv'
    <2>1. ASSUME NEW i \in DOMAIN events PROVE EndInv(events[i])'
      <3>1. EndInv(events[i])
        BY DEF SseInv, EventInv
      <3> QED
        BY <1>1, <3>1 DEF EndInv, BlankIn, Ascending, LastOf
    <2> QED
      BY <1>1, <1>3, <2>1 DEF EventInv
  <1>6. /\ Range(frame.data) = {j \in LastData + 1 .. read : lines[j] = "data"} /\ Ascending(frame.data)
        /\ NameInv(frame.name, "event") /\ NameInv(frame.id, "id")
        /\ events # <<>> => BlankIn(LastData + 1, Head(frame.data) - 1)
        /\ ~BlankIn(Head(frame.data), read)
    BY <1>1 DEF SseInv, FrameInv
  <1>7. NameInv(frame.name, "event")' /\ NameInv(frame.id, "id")'
    BY <1>1, <1>2, <1>3, <1>6 DEF NameInv, FrameOf
  <1>8. /\ Range(frame'.data) = {j \in LastData' + 1 .. read' : lines'[j] = "data"} /\ Ascending(frame.data)'
        /\ events' # <<>> => BlankIn(LastData + 1, Head(frame.data) - 1)'
        /\ ~BlankIn(Head(frame.data), read)'
    BY <1>1, <1>2, <1>3, <1>6 DEF Ascending, BlankIn
  <1>9. FrameInv'
    BY <1>1, <1>2, <1>3, <1>7, <1>8 DEF FrameInv
  <1> QED
    BY <1>4, <1>5, <1>9 DEF SseInv
-----------------------------------------------------------------------------
(* An event is recorded                                                    *)

\* The frame is whole: the lines that belong to it are those read since the
\* last event, and a blank line, or the end of the stream, follows them.
LEMMA FrameIsWhole ==
    ASSUME SseInv, next = "returned", events' = Append(events, frame), UNCHANGED <<lines, conn, read>>,
           NEW n \in Nat, n = Len(events)
    PROVE  WholeFrame(n + 1)'
  <1>1. n = Len(events)
    OBVIOUS
  <1>2. /\ events'[n + 1] = frame /\ Len(events') = n + 1
        /\ \A i \in 1..n : events'[i] = events[i]
    BY <1>1 DEF SseInv, SseTypeOK
  <1>3. LastData = IF n = 0 THEN 0 ELSE LastOf(events'[n].data)
    BY <1>1, <1>2 DEF LastData, SseInv, SseTypeOK
  <1>4. PICK data \in Seq(Nat), hd \in Nat, last \in Nat, len \in Nat :
            data = frame.data /\ hd = Head(data) /\ last = LastData /\ len = Len(lines)
    BY HeadOfFrame, LastDataFacts, SseFacts DEF SseInv, FrameInv
  <1>5. /\ data # <<>> /\ Range(data) = {j \in last + 1 .. read : lines[j] = "data"} /\ Ascending(data)
        /\ NameInv(frame.name, "event") /\ NameInv(frame.id, "id")
        /\ events # <<>> => BlankIn(last + 1, hd - 1)
        /\ IF frame.partial THEN Over /\ ~BlankIn(hd, read)
                            ELSE read > 0 /\ lines[read] = "blank" /\ ~BlankIn(hd, read - 1)
    BY <1>4 DEF SseInv, FrameInv
  <1>6. /\ hd \in Range(data) /\ hd > last /\ hd <= read /\ lines[hd] = "data" /\ read \in Nat /\ read <= len
        /\ \A d \in Range(data) : d \in Nat /\ hd <= d
    BY <1>4, <1>5, HeadOfFrame, SseFacts DEF SseInv
  <1>7. Range(data) = {j \in 1..len : lines[j] = "data" /\ FrameOf(j) = FrameOf(hd)}
    <2>1. ASSUME NEW j \in Range(data)
          PROVE  j \in 1..len /\ lines[j] = "data" /\ FrameOf(j) = FrameOf(hd)
      <3>1. j \in Nat /\ hd <= j /\ j <= read /\ lines[j] = "data" /\ j \in 1..len /\ hd > 0
        <4>1. j \in Nat /\ hd <= j
          BY <1>6, <2>1
        <4>2. j \in last + 1 .. read /\ lines[j] = "data"
          BY <1>5, <2>1
        <4>3. hd > 0 /\ read \in Nat /\ read <= len
          BY <1>4, <1>6
        <4> QED
          BY <1>4, <4>1, <4>2, <4>3
      <3>2. ~BlankIn(hd, j - 1)
        BY <1>4, <1>5, <1>6, <3>1 DEF BlankIn
      <3>3. FrameOf(hd) = FrameOf(j)
        BY <3>1, <3>2, FrameOfSame
      <3> QED
        BY <3>1, <3>3
    <2>2. ASSUME NEW j \in 1..len, lines[j] = "data", FrameOf(j) = FrameOf(hd)
          PROVE  j \in Range(data)
      <3>1. j \in Nat /\ hd \in Nat /\ j > 0 /\ hd > 0 /\ FrameOf(j) \in Nat /\ FrameOf(hd) \in Nat
        <4>1. j \in Nat /\ j > 0 /\ hd > 0
          BY <1>4, <1>6
        <4> QED
          BY <4>1, FrameOfType
      <3>2. CASE j <= last
        <4>1. events # <<>>
          BY <1>4, <3>1, <3>2 DEF LastData
        <4>2. BlankIn(j, hd - 1)
          <5>1. PICK b \in last + 1 .. hd - 1 : lines[b] = "blank"
            BY <1>5, <4>1 DEF BlankIn
          <5>2. b \in j .. hd - 1
            BY <3>1, <3>2, <5>1
          <5> QED
            BY <5>1, <5>2 DEF BlankIn
        <4>3. FrameOf(j) < FrameOf(hd)
          BY <3>1, <4>2, FrameOfApart
        <4> QED
          BY <2>2, <3>1, <4>3
      <3>3. CASE j > read
        <4>1. ~frame.partial
          BY <1>4, <1>5, <1>6, <3>3 DEF Over
        <4>2. lines[read] = "blank"
          BY <1>5, <4>1
        <4>3. read \in hd .. j - 1
          BY <1>6, <3>1, <3>3
        <4>4. BlankIn(hd, j - 1)
          BY <4>2, <4>3 DEF BlankIn
        <4>5. FrameOf(hd) < FrameOf(j)
          BY <3>1, <4>4, FrameOfApart
        <4> QED
          BY <2>2, <3>1, <4>5
      <3>4. CASE last < j /\ j <= read
        BY <1>4, <1>5, <1>6, <2>2, <3>1, <3>4
      <3> QED
        BY <1>4, <1>6, <3>1, <3>2, <3>3, <3>4
    <2> QED
      BY <2>1, <2>2
  <1>8. \A j \in 1..Len(data) - 1 : data[j] < data[j + 1]
    <2>1. SUFFICES ASSUME NEW j \in 1..Len(data) - 1 PROVE data[j] < data[j + 1]
      OBVIOUS
    <2>2. Len(data) \in Nat
      BY <1>4
    <2>3. j \in 1..Len(data) /\ j + 1 \in 1..Len(data) /\ j < j + 1
      BY <2>2
    <2> QED
      BY <1>5, <2>3 DEF Ascending
  <1>9. \A j \in last + 1 .. hd - 1 : lines[j] # "data"
    <2>1. SUFFICES ASSUME NEW j \in last + 1 .. hd - 1, lines[j] = "data" PROVE FALSE
      OBVIOUS
    <2>2. j \in last + 1 .. read /\ j \in Nat /\ j < hd
      BY <1>4, <1>6, <2>1
    <2>3. j \in Range(data)
      BY <1>5, <2>1, <2>2
    <2> QED
      BY <1>6, <2>2, <2>3
  <1>10. frame.partial => conn \in {"ended", "torn"}
    BY <1>5 DEF Over
  <1>11. \A f \in {frame.name, frame.id} : f # 0 => f > last /\ FrameOf(f) <= FrameOf(hd)
    BY <1>4, <1>5 DEF NameInv
  <1>12. (frame.name # 0 => lines[frame.name] = "event") /\ (frame.id # 0 => lines[frame.id] = "id")
    BY <1>5 DEF NameInv
  <1>13. \A i : FrameOf(i)' = FrameOf(i)
    BY DEF FrameOf
  <1>14. PICK at, before : at = n + 1 /\ before = IF at = 1 THEN 0 ELSE LastOf(events'[at - 1].data)
    OBVIOUS
  <1>15. before = last
    BY <1>1, <1>3, <1>4, <1>14
  <1>16. WholeFrame(at)'
    <2>1. events'[at] = frame /\ Head(frame.data) = hd /\ lines' = lines /\ conn' = conn /\ at = Len(events')
      BY <1>2, <1>4, <1>14
    <2>2. frame.data # <<>> /\ Range(frame.data) = {j \in 1..Len(lines) : lines[j] = "data" /\ FrameOf(j) = FrameOf(hd)}
          /\ \A j \in 1..Len(frame.data) - 1 : frame.data[j] < frame.data[j + 1]
      BY <1>4, <1>5, <1>7, <1>8
    <2>3. \A j \in before + 1 .. hd - 1 : lines[j] # "data"
      BY <1>9, <1>15
    <2>4. \A f \in {frame.name, frame.id} : f # 0 => f > before /\ FrameOf(f) <= FrameOf(hd)
      BY <1>11, <1>15
    <2>5. before = IF at = 1 THEN 0 ELSE events'[at - 1].data[Len(events'[at - 1].data)]
      BY <1>14 DEF LastOf
    <2>6. (Range(events[at].data)
             = {j \in 1..Len(lines) : lines[j] = "data" /\ FrameOf(j) = FrameOf(Head(events[at].data))})'
      <3>1. {k \in 1 .. Head(events'[at].data) - 1 : lines'[k] = "blank"} = {k \in 1..hd - 1 : lines[k] = "blank"}
        BY <2>1
      <3>2. FrameOf(Head(events[at].data))' = FrameOf(hd)
        BY <3>1 DEF FrameOf
      <3>3. \A j : FrameOf(j)' = FrameOf(j)
        BY <1>13
      <3> QED
        BY <2>1, <2>2, <3>2, <3>3
    <2>7. (\A f \in {events[at].name, events[at].id} :
              f # 0 => f > before /\ FrameOf(f) <= FrameOf(Head(events[at].data)))'
      BY <2>1, <2>4 DEF FrameOf
    <2>8. (\A j \in before + 1 .. Head(events[at].data) - 1 : lines[j] # "data")'
      BY <2>1, <2>3
    <2>9. before = (IF at = 1 THEN 0 ELSE LastOf(events[at - 1].data))'
      BY <2>5 DEF LastOf
    <2> QED
      BY <1>10, <1>12, <2>1, <2>2, <2>6, <2>7, <2>8, <2>9 DEF WholeFrame
  <1>17. at = n + 1
    BY <1>14
  <1> QED
    BY <1>16, <1>17 DEF WholeFrame

LEMMA EventRecorded ==
    ASSUME SseInv, SseTypeOK', next = "returned", events' = Append(events, frame),
           UNCHANGED <<lines, conn, read>>, next' \in {"loop", "done", "error"}
    PROVE  SseInv'
  <1>1. PICK n \in Nat : n = Len(events)
    BY SseFacts DEF SseInv
  <1>2. /\ events'[n + 1] = frame /\ Len(events') = n + 1 /\ events' # <<>>
        /\ DOMAIN events' = 1..(n + 1) /\ DOMAIN events = 1..n
        /\ \A i \in 1..n : events'[i] = events[i]
    BY <1>1 DEF SseInv, SseTypeOK
  <1>3. ~Cut
    BY DEF SseInv, EventInv
  <1>4. \A i : FrameOf(i)' = FrameOf(i)
    BY DEF FrameOf
  <1>5. ASSUME NEW i \in 1..n PROVE WholeFrame(i)'
    <2>1. WholeFrame(i) /\ events'[i] = events[i]
      BY <1>2, <1>5 DEF SseInv, FramesAreWhole
    <2>2. ~events[i].partial
      <3>1. events[i].partial => i = Len(events)
        BY <2>1 DEF WholeFrame
      <3> QED
        BY <1>2, <1>3, <1>5, <3>1 DEF Cut
    <2>3. i # 1 => events'[i - 1] = events[i - 1]
      <3>1. i # 1 => i - 1 \in 1..n
        BY <1>5
      <3> QED
        BY <1>2, <3>1
    <2> QED
      BY <1>4, <2>1, <2>2, <2>3 DEF WholeFrame, LastOf
  <1>6. FramesAreWhole'
    <2>1. WholeFrame(n + 1)'
      BY <1>1, FrameIsWhole
    <2>2. \A i \in 1..(n + 1) : i \in 1..n \/ i = n + 1
      OBVIOUS
    <2> QED
      BY <1>2, <1>5, <2>1, <2>2 DEF FramesAreWhole
  <1>7. PICK data \in Seq(Nat), hd \in Nat, last \in Nat : data = frame.data /\ hd = Head(data) /\ last = LastData
    <2>1. frame.data # <<>> /\ frame.data \in Seq(Nat)
      BY SseFacts DEF SseInv, FrameInv
    <2> QED
      BY <2>1, HeadOfFrame, LastDataFacts
  <1>8. /\ data # <<>> /\ Ascending(data)
        /\ Range(data) = {j \in last + 1 .. read : lines[j] = "data"}
        /\ LastOf(data) \in Range(data) /\ LastOf(data) \in Nat
        /\ \A d \in Range(data) : d \in Nat /\ d <= LastOf(data)
        /\ hd > last /\ hd <= LastOf(data) /\ read \in Nat
    <2>1. hd \in Range(data)
      BY <1>7, HeadOfFrame DEF SseInv, FrameInv
    <2> QED
      BY <1>7, <2>1, HeadOfFrame, SseFacts DEF SseInv, FrameInv
  <1>9. LastOf(data) <= read /\ lines[LastOf(data)] = "data"
    BY <1>7, <1>8
  <1>10. EndInv(frame)
    <2>1. frame.name <= read /\ frame.id <= read
      BY <1>8, SseFacts DEF SseInv, FrameInv, NameInv
    <2>2. ~frame.partial => BlankIn(LastOf(data) + 1, read)
      <3>1. SUFFICES ASSUME ~frame.partial PROVE BlankIn(LastOf(data) + 1, read)
        OBVIOUS
      <3>2. lines[read] = "blank"
        BY <3>1 DEF SseInv, FrameInv
      <3>3. LastOf(data) # read
        BY <1>9, <3>2
      <3>4. read \in LastOf(data) + 1 .. read
        BY <1>8, <1>9, <3>3
      <3> QED
        BY <3>2, <3>4 DEF BlankIn
    <2> QED
      BY <1>7, <1>8, <1>9, <2>1, <2>2 DEF EndInv
  <1>11. ASSUME NEW i \in DOMAIN events' PROVE EndInv(events[i])'
    <2>1. PICK ev : ev = events'[i]
      OBVIOUS
    <2>2. EndInv(ev)
      <3>1. CASE i = n + 1
        BY <1>2, <1>10, <2>1, <3>1
      <3>2. CASE i \in 1..n
        BY <1>2, <2>1, <3>2 DEF SseInv, EventInv
      <3>3. i = n + 1 \/ i \in 1..n
        BY <1>2
      <3> QED
        BY <3>1, <3>2, <3>3
    <2>3. EndInv(ev)'
      BY <2>2 DEF EndInv, BlankIn, Ascending, LastOf
    <2> QED
      BY <2>1, <2>3
  <1>12. Cut' => Over'
    <2>1. Cut' => frame.partial
      BY <1>2 DEF Cut
    <2>2. frame.partial => Over
      BY DEF SseInv, FrameInv
    <2> QED
      BY <2>1, <2>2 DEF Over
  <1>13. \A j \in LastData' + 1 .. read' : lines'[j] # "data"
    <2>1. LastData' = LastOf(data)
      BY <1>2, <1>7 DEF LastData, LastOf
    <2>2. SUFFICES ASSUME NEW j \in LastOf(data) + 1 .. read, lines[j] = "data" PROVE FALSE
      BY <2>1
    <2>3. j \in last + 1 .. read /\ j \in Nat /\ j > LastOf(data)
      BY <1>7, <1>8, <2>2
    <2> QED
      BY <1>8, <2>2, <2>3
  <1>14. EventInv'
    BY <1>11, <1>12, <1>13 DEF EventInv
  <1>15. FrameInv'
    BY DEF FrameInv
  <1> QED
    BY <1>6, <1>14, <1>15 DEF SseInv
-----------------------------------------------------------------------------
LEMMA SseStart == SseInit => SseInv
  <1> SUFFICES ASSUME SseInit PROVE SseInv
    OBVIOUS
  <1>1. Nothing \in Frames /\ MaxLines \in Nat
    BY SseStreamAssumption DEF Nothing, Frames
  <1>2. Len(lines) = 0 /\ DOMAIN events = {} /\ events = <<>>
    BY DEF SseInit
  <1>3. SseTypeOK
    <2>1. <<>> \in Seq(Kinds) /\ <<>> \in Seq(Frames)
      OBVIOUS
    <2>2. 0 \in 0..0
      OBVIOUS
    <2>3. lines \in Seq(Kinds) /\ Len(lines) <= MaxLines /\ events \in Seq(Frames) /\ read \in 0..Len(lines)
      BY <1>1, <1>2, <2>1, <2>2 DEF SseInit
    <2> QED
      BY <1>1, <2>3 DEF SseInit, SseTypeOK
  <1>4. FramesAreWhole /\ EventInv /\ FrameInv
    BY <1>2 DEF SseInit, FramesAreWhole, EventInv, FrameInv, Cut
  <1> QED
    BY <1>3, <1>4 DEF SseInv

LEMMA SseStep == SseInv /\ [SseNext]_sseVars => SseInv'
  <1> SUFFICES ASSUME SseInv, [SseNext]_sseVars PROVE SseInv'
    OBVIOUS
  <1>1. SseTypeOK'
    BY SseTypes DEF SseInv
  <1>2. CASE ServerCloses \/ TearDown \/ RunCancelled \/ DeadlinePasses
    <2>1. UNCHANGED <<lines, read, frame, events, next>> /\ (conn # "open" => conn' = conn)
      BY <1>2 DEF ServerCloses, TearDown, RunCancelled, DeadlinePasses
    <2> QED
      BY <1>1, <2>1, QuietKeeps
  <1>3. CASE OpenFails \/ LoopEnds \/ NextErr
    <2>1. UNCHANGED <<lines, read, frame, events, conn>> /\ next' \in {"done", "error"}
      BY <1>3 DEF OpenFails, LoopEnds, NextErr, TimedOut
    <2> QED
      BY <1>1, <2>1, QuietKeeps
  <1>4. CASE UNCHANGED sseVars
    BY <1>1, <1>4, QuietKeeps DEF sseVars
  <1>5. CASE EventMatches \/ EventPasses \/ EventErr
    <2>1. next = "returned" /\ events' = Append(events, frame) /\ UNCHANGED <<lines, conn, read>>
          /\ next' \in {"loop", "done", "error"}
      BY <1>5 DEF EventMatches, EventPasses, EventErr, Received
    <2> QED
      BY <1>1, <2>1, EventRecorded
  <1> QED
    BY <1>1, <1>2, <1>3, <1>4, <1>5, OpenKeeps, CallNextKeeps, ServerWritesKeeps, DataLineKeeps, FieldLineKeeps,
       BlankLineKeeps, PartialFrameKeeps DEF SseNext

\* The inductive invariant of an sse step, types included.
THEOREM SseInvariance == SseSpec => []SseInv
  <1> QED
    BY SseStart, SseStep, PTL DEF SseSpec

\* Next and runSSE (sse.go): however lines, deadline, cancellation and the end
\* of the connection fall, every recorded event is one whole frame, in order,
\* none with data is skipped or recorded twice, and only the last may be cut.
THEOREM FramesAreWholeHolds == SseSpec => []FramesAreWhole
  <1>1. SseInv => FramesAreWhole
    BY DEF SseInv
  <1> QED
    BY <1>1, SseInvariance, PTL
=============================================================================
