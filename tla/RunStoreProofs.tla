--------------------------- MODULE RunStoreProofs ---------------------------
(* Proofs about RunStore, for every set of runs, handlers and reports.      *)
EXTENDS RunStore, TLAPS

LEMMA ReportType ==
    ASSUME NEW rep \in Report
    PROVE  /\ rep.id \in RunIds /\ rep.no \in 1..MaxPushes
           /\ rep.started \in Times /\ rep.rows \in Seq(CheckRow)
  <1>1. rep.rows \in UNION {RowChoices[id] : id \in RunIds}
    BY DEF Report
  <1> QED
    BY <1>1, RunStoreAssumption DEF Report

\* A handler that serves a request has all the fields of one.
LEMMA ServingType ==
    ASSUME TypeOK, NEW h \in Handlers, Serving(h)
    PROVE  /\ handler[h] \in BusyHandler
           /\ Rep(h) \in Report /\ Rep(h).id \in RunIds
  <1>1. handler[h] \in BusyHandler
    BY DEF TypeOK, Serving, Idle
  <1>2. Rep(h) \in Report
    BY <1>1 DEF BusyHandler, Rep
  <1> QED
    BY <1>1, <1>2, ReportType

LEMMA GotoType ==
    ASSUME TypeOK, NEW h \in Handlers, Serving(h), NEW pc \in HandlerPcs, Goto(h, pc)
    PROVE  /\ handler' \in [Handlers -> BusyHandler \cup {Idle}]
           /\ handler' = [handler EXCEPT ![h] = [handler[h] EXCEPT !.pc = pc]]
  <1>1. handler[h] \in BusyHandler
    BY ServingType
  <1>2. [handler[h] EXCEPT !.pc = pc] \in BusyHandler
    BY <1>1 DEF BusyHandler
  <1>3. handler' = [handler EXCEPT ![h] = [handler[h] EXCEPT !.pc = pc]]
    BY DEF Goto
  <1> QED
    BY <1>2, <1>3 DEF TypeOK

LEMMA UpsertedType ==
    ASSUME TypeOK, NEW rep \in Report
    PROVE  /\ Upserted(rep) \in TableRow
           /\ Upserted(rep).rep = rep
           /\ \/ Upserted(rep).started = rep.started
              \/ runs[rep.id] # NoRun /\ Upserted(rep).started = runs[rep.id].started
  <1>1. rep.id \in RunIds /\ rep.started \in Times
    BY ReportType
  <1>2. runs[rep.id] \in TableRow \cup {NoRun}
    BY <1>1 DEF TypeOK
  <1>3. CASE runs[rep.id] = NoRun \/ ModeOf[rep.id] = "eval"
    BY <1>1, <1>3 DEF Upserted, Row, TableRow
  <1>4. CASE ~(runs[rep.id] = NoRun \/ ModeOf[rep.id] = "eval")
    BY <1>1, <1>2, <1>4 DEF Upserted, Row, TableRow
  <1> QED
    BY <1>3, <1>4
-----------------------------------------------------------------------------
(* Type correctness                                                        *)

LEMMA PushType ==
    ASSUME TypeOK, NEW id \in RunIds, NEW h \in Handlers, Push(id, h)
    PROVE  TypeOK'
  <1>1. MaxPushes \in Nat \ {0} /\ pushes[id] \in 0..MaxPushes /\ clock \in 0..MaxTime
        /\ MaxTime \in Nat /\ EvalInterval \in Nat
    BY RunStoreAssumption DEF TypeOK
  <1>2. pushes[id] + 1 \in 1..MaxPushes
    BY <1>1 DEF Push, MayPush
  <1>3. StartTime(id) \in Times
    BY <1>1 DEF StartTime, Times
  <1>4. PICK rows \in RowChoices[id] : handler' = [handler EXCEPT ![h] =
            [pc |-> "record", row |-> NoRun, rows |-> <<>>,
             rep |-> [id |-> id, no |-> pushes[id] + 1, started |-> StartTime(id), rows |-> rows]]]
    BY DEF Push
  <1> DEFINE rep == [id |-> id, no |-> pushes[id] + 1, started |-> StartTime(id), rows |-> rows]
  <1>5. rep \in Report
    BY <1>2, <1>3 DEF Report
  <1>6. [pc |-> "record", row |-> NoRun, rows |-> <<>>, rep |-> rep] \in BusyHandler
    <2> HIDE DEF rep
    <2> QED
      BY <1>5 DEF BusyHandler, HandlerPcs
  <1>7. handler' \in [Handlers -> BusyHandler \cup {Idle}]
    <2>1. handler' = [handler EXCEPT ![h] = [pc |-> "record", row |-> NoRun, rows |-> <<>>, rep |-> rep]]
      BY <1>4
    <2> HIDE DEF rep
    <2> QED
      BY <1>6, <2>1 DEF TypeOK
  <1>8. pushes' \in [RunIds -> 0..MaxPushes]
    BY <1>1, <1>2 DEF Push, TypeOK
  <1>9. client' \in [RunIds -> Handlers \cup {NoHandler}]
    BY DEF Push, TypeOK
  <1> QED
    BY <1>7, <1>8, <1>9 DEF Push, TypeOK, tables

LEMMA MemRecordType ==
    ASSUME TypeOK, NEW h \in Handlers, MemRecord(h)
    PROVE  TypeOK'
  <1>1. Serving(h) /\ "samples" \in HandlerPcs
    BY DEF MemRecord, Serving, HandlerPcs
  <1>2. Rep(h) \in Report /\ Rep(h).id \in RunIds /\ Rep(h).started \in Times
        /\ Rep(h).rows \in Seq(CheckRow)
    BY <1>1, ServingType, ReportType
  <1>3. Row(Rep(h), Rep(h).started) \in TableRow
    BY <1>2 DEF Row, TableRow
  <1>4. handler' \in [Handlers -> BusyHandler \cup {Idle}]
    BY <1>1, GotoType DEF MemRecord
  <1>5. runs' \in [RunIds -> TableRow \cup {NoRun}]
    BY <1>2, <1>3 DEF MemRecord, TypeOK
  <1>6. results' \in [RunIds -> Seq(CheckRow)]
    BY <1>2 DEF MemRecord, TypeOK
  <1>7. recorded' \in [RunIds -> Seq(Report)]
    BY <1>2 DEF MemRecord, TypeOK
  <1> QED
    BY <1>4, <1>5, <1>6, <1>7 DEF MemRecord, TypeOK, pushVars

LEMMA TransactionType ==
    ASSUME TypeOK, NEW h \in Handlers,
           Upsert(h) \/ DeleteRows(h) \/ InsertRow(h) \/ Rollback(h) \/ BeginFails(h)
    PROVE  TypeOK'
  <1>1. Serving(h)
    BY DEF Upsert, DeleteRows, InsertRow, Rollback, BeginFails, Serving, InTx, TxPcs
  <1>2. handler[h] \in BusyHandler /\ Rep(h) \in Report /\ Rep(h).id \in RunIds
    BY <1>1, ServingType
  <1>3. CASE Upsert(h)
    <2>1. Upserted(Rep(h)) \in TableRow /\ results[Rep(h).id] \in Seq(CheckRow)
      BY <1>2, UpsertedType DEF TypeOK
    <2>2. [pc |-> "delete", rep |-> Rep(h), row |-> Upserted(Rep(h)), rows |-> results[Rep(h).id]]
             \in BusyHandler
      BY <1>2, <2>1 DEF BusyHandler, HandlerPcs
    <2>3. handler' \in [Handlers -> BusyHandler \cup {Idle}]
      BY <1>3, <2>2 DEF Upsert, TypeOK
    <2>4. lock' \in [RunIds -> Handlers \cup {NoHandler}]
      BY <1>3, <1>2 DEF Upsert, TypeOK
    <2> QED
      BY <1>3, <2>3, <2>4 DEF Upsert, TypeOK, pushVars, tables
  <1>4. CASE DeleteRows(h)
    <2> DEFINE next == [handler[h] EXCEPT !.pc = "insert", !.rows = <<>>]
    <2>1. next \in BusyHandler
      <3>1. <<>> \in Seq(CheckRow)
        OBVIOUS
      <3> QED
        BY <1>2, <3>1 DEF BusyHandler, HandlerPcs
    <2>2. handler' = [handler EXCEPT ![h] = next]
      BY <1>2, <1>4 DEF DeleteRows, TypeOK
    <2>3. handler' \in [Handlers -> BusyHandler \cup {Idle}]
      BY <2>1, <2>2 DEF TypeOK
    <2> QED
      BY <1>4, <2>3 DEF DeleteRows, TypeOK, pushVars, tables
  <1>5. CASE InsertRow(h)
    <2> DEFINE n == Len(handler[h].rows) + 1
               more == Append(handler[h].rows, Rep(h).rows[n])
    <2>1. more \in Seq(CheckRow)
      <3>1. Rep(h).rows \in Seq(CheckRow) /\ handler[h].rows \in Seq(CheckRow) /\ n \in DOMAIN Rep(h).rows
        BY <1>2, <1>5, ReportType DEF InsertRow, BusyHandler
      <3> QED
        BY <3>1
    <2>2. [handler[h] EXCEPT !.rows = more] \in BusyHandler
      <3> HIDE DEF more
      <3> QED
        BY <1>2, <2>1 DEF BusyHandler
    <2>3. handler' = [handler EXCEPT ![h] = [handler[h] EXCEPT !.rows = more]]
      BY <1>5 DEF InsertRow
    <2>4. handler' \in [Handlers -> BusyHandler \cup {Idle}]
      <3> HIDE DEF more
      <3> QED
        BY <2>2, <2>3 DEF TypeOK
    <2> QED
      BY <1>5, <2>4 DEF InsertRow, TypeOK, pushVars, tables
  <1>6. CASE Rollback(h)
    <2>1. handler' \in [Handlers -> BusyHandler \cup {Idle}]
      BY <1>1, <1>6, GotoType DEF Rollback, HandlerPcs
    <2>2. lock' \in [RunIds -> Handlers \cup {NoHandler}]
      BY <1>6, <1>2 DEF Rollback, TypeOK
    <2> QED
      BY <1>6, <2>1, <2>2 DEF Rollback, TypeOK, pushVars, tables
  <1>7. CASE BeginFails(h)
    <2>1. handler' \in [Handlers -> BusyHandler \cup {Idle}]
      BY <1>1, <1>7, GotoType DEF BeginFails, HandlerPcs
    <2> QED
      BY <1>7, <2>1 DEF BeginFails, TypeOK, pushVars, tables
  <1> QED
    BY <1>3, <1>4, <1>5, <1>6, <1>7

LEMMA CommitType ==
    ASSUME TypeOK, NEW h \in Handlers, Commit(h)
    PROVE  TypeOK'
  <1>1. Serving(h)
    BY DEF Commit, Serving
  <1>2. handler[h] \in BusyHandler /\ Rep(h) \in Report /\ Rep(h).id \in RunIds
    BY <1>1, ServingType
  <1>3. handler' \in [Handlers -> BusyHandler \cup {Idle}]
    BY <1>1, GotoType DEF Commit, HandlerPcs
  <1>4. handler[h].row \in TableRow \cup {NoRun} /\ handler[h].rows \in Seq(CheckRow)
    BY <1>2 DEF BusyHandler
  <1>5. runs' \in [RunIds -> TableRow \cup {NoRun}] /\ results' \in [RunIds -> Seq(CheckRow)]
    BY <1>2, <1>4 DEF Commit, TypeOK
  <1>6. recorded' \in [RunIds -> Seq(Report)]
    BY <1>2 DEF Commit, TypeOK
  <1>7. lock' \in [RunIds -> Handlers \cup {NoHandler}]
    BY <1>2 DEF Commit, TypeOK
  <1> QED
    BY <1>3, <1>5, <1>6, <1>7 DEF Commit, TypeOK, pushVars

LEMMA AnswerType ==
    ASSUME TypeOK, NEW h \in Handlers,
           AppendSamples(h) \/ SkipSamples(h) \/ ReplyCreated(h) \/ ReplyError(h)
    PROVE  TypeOK'
  <1>1. Serving(h)
    BY DEF AppendSamples, SkipSamples, ReplyCreated, ReplyError, Serving
  <1>2. Rep(h) \in Report /\ Rep(h).id \in RunIds
    BY <1>1, ServingType
  <1>3. CASE AppendSamples(h)
    <2>1. handler' \in [Handlers -> BusyHandler \cup {Idle}]
      BY <1>1, <1>3, GotoType DEF AppendSamples, HandlerPcs
    <2>2. samples' \in Seq(Report)
      BY <1>2, <1>3 DEF AppendSamples, TypeOK
    <2> QED
      BY <1>3, <2>1, <2>2 DEF AppendSamples, TypeOK, pushVars, tables
  <1>4. CASE SkipSamples(h)
    <2>1. handler' \in [Handlers -> BusyHandler \cup {Idle}]
      BY <1>1, <1>4, GotoType DEF SkipSamples, HandlerPcs
    <2> QED
      BY <1>4, <2>1 DEF SkipSamples, TypeOK, pushVars, tables
  <1>5. CASE ReplyCreated(h) \/ ReplyError(h)
    <2>1. handler' \in [Handlers -> BusyHandler \cup {Idle}]
      BY <1>5 DEF ReplyCreated, ReplyError, TypeOK
    <2>2. client' \in [RunIds -> Handlers \cup {NoHandler}]
      BY <1>5 DEF ReplyCreated, ReplyError, Hangup, TypeOK
    <2>3. acked' \subseteq Report
      BY <1>2, <1>5 DEF ReplyCreated, ReplyError, TypeOK
    <2> QED
      BY <1>5, <2>1, <2>2, <2>3 DEF ReplyCreated, ReplyError, TypeOK, tables
  <1> QED
    BY <1>3, <1>4, <1>5

LEMMA RestartType ==
    ASSUME TypeOK, Restart
    PROVE  TypeOK'
  <1>1. /\ handler' \in [Handlers -> BusyHandler \cup {Idle}]
        /\ client' \in [RunIds -> Handlers \cup {NoHandler}]
        /\ lock' \in [RunIds -> Handlers \cup {NoHandler}]
        /\ reader' \in BusyReader \cup {Idle}
    BY DEF Restart
  <1>2. /\ runs' \in [RunIds -> TableRow \cup {NoRun}]
        /\ results' \in [RunIds -> Seq(CheckRow)]
        /\ recorded' \in [RunIds -> Seq(Report)]
        /\ samples' \in Seq(Report)
    <2>1. CASE UNCHANGED <<tables, recorded, samples>>
      BY <2>1 DEF TypeOK, tables
    <2>2. CASE /\ runs' = [id \in RunIds |-> NoRun]
               /\ results' = [id \in RunIds |-> <<>>]
               /\ recorded' = [id \in RunIds |-> <<>>]
               /\ samples' = <<>>
      <3>1. <<>> \in Seq(CheckRow) /\ <<>> \in Seq(Report)
        OBVIOUS
      <3> QED
        BY <2>2, <3>1
    <2> QED
      BY <2>1, <2>2 DEF Restart
  <1> QED
    BY <1>1, <1>2 DEF Restart, TypeOK

LEMMA ReaderType ==
    ASSUME TypeOK, ReadRows \/ \E id \in RunIds : ReadRow(id)
    PROVE  TypeOK'
  <1>1. reader' \in BusyReader
    <2>1. CASE ReadRows
      <3>1. reader \in BusyReader
        BY <2>1 DEF ReadRows, TypeOK, Idle
      <3>2. results[reader.id] \in Seq(CheckRow)
        BY <3>1 DEF TypeOK, BusyReader
      <3> QED
        BY <2>1, <3>1, <3>2 DEF ReadRows, BusyReader
    <2>2. CASE \E id \in RunIds : ReadRow(id)
      <3>1. PICK id \in RunIds : ReadRow(id)
        BY <2>2
      <3>2. runs[id] \in TableRow /\ results[id] \in Seq(CheckRow) /\ <<>> \in Seq(CheckRow)
        BY <3>1 DEF ReadRow, TypeOK
      <3> QED
        BY <3>1, <3>2 DEF ReadRow, BusyReader
    <2> QED
      BY <2>1, <2>2
  <1> QED
    BY <1>1 DEF ReadRows, ReadRow, TypeOK, pushVars, tables

LEMMA InitType == Init => TypeOK
  <1> SUFFICES ASSUME Init PROVE TypeOK
    OBVIOUS
  <1>1. MaxTime \in Nat /\ MaxPushes \in Nat
    BY RunStoreAssumption
  <1> QED
    BY <1>1 DEF Init, TypeOK

LEMMA NextType == TypeOK /\ [Next]_vars => TypeOK'
  <1> SUFFICES ASSUME TypeOK, [Next]_vars PROVE TypeOK'
    OBVIOUS
  <1>1. CASE Tick
    BY <1>1, RunStoreAssumption DEF Tick, TypeOK, pushVars, tables
  <1>2. CASE Restart
    BY <1>2, RestartType
  <1>3. CASE ReadRows \/ \E id \in RunIds : ReadRow(id)
    BY <1>3, ReaderType
  <1>4. CASE \E id \in RunIds : GiveUp(id)
    BY <1>4 DEF GiveUp, TypeOK, tables
  <1>5. CASE \E id \in RunIds, h \in Handlers : Push(id, h)
    BY <1>5, PushType
  <1>6. CASE \E h \in Handlers : HandlerStep(h)
    BY <1>6, MemRecordType, TransactionType, CommitType, AnswerType DEF HandlerStep, Statement
  <1>7. CASE UNCHANGED vars
    BY <1>7 DEF vars, pushVars, tables, TypeOK
  <1> QED
    BY <1>1, <1>2, <1>3, <1>4, <1>5, <1>6, <1>7 DEF Next

\* Type correctness of the pushers, the handlers and both backends.
THEOREM TypeCorrect == Spec => []TypeOK
  <1> QED
    BY InitType, NextType, PTL DEF Spec
-----------------------------------------------------------------------------
(* Transactions and the locks they hold                                    *)

\* A step that leaves tables, locks and every transaction alone.
LEMMA NoTransactionStep ==
    ASSUME IInv, UNCHANGED <<backend, lock, runs>>,
           \A h \in Handlers : InTx(h) \/ InTx(h)' => handler'[h] = handler[h]
    PROVE  LocksBelongToTransactions' /\ TransactionInv'
  <1>1. \A h \in Handlers : InTx(h)' => InTx(h) /\ handler'[h] = handler[h] /\ Rep(h)' = Rep(h)
    BY DEF InTx, Rep
  <1>2. \A h \in Handlers : InTx(h) => InTx(h)' /\ handler'[h] = handler[h] /\ Rep(h)' = Rep(h)
    BY DEF InTx, Rep
  <1>3. LocksBelongToTransactions'
    BY <1>1, <1>2 DEF IInv, TypeOK, LocksBelongToTransactions
  <1>4. TransactionInv'
    BY <1>1 DEF IInv, TransactionInv, HoldsItsReport, Rep
  <1> QED
    BY <1>3, <1>4

\* A handler that moves on outside its transaction.
LEMMA GotoOutside ==
    ASSUME IInv, NEW h \in Handlers, Serving(h), ~InTx(h), NEW pc \in HandlerPcs \ TxPcs, Goto(h, pc),
           UNCHANGED <<backend, lock, runs>>
    PROVE  LocksBelongToTransactions' /\ TransactionInv'
  <1>1. handler' = [handler EXCEPT ![h] = [handler[h] EXCEPT !.pc = pc]] /\ handler[h] \in BusyHandler
    BY GotoType, ServingType DEF IInv
  <1>2. ~InTx(h)'
    BY <1>1 DEF InTx, BusyHandler, IInv, TypeOK
  <1>3. \A g \in Handlers : InTx(g) \/ InTx(g)' => handler'[g] = handler[g]
    BY <1>1, <1>2 DEF IInv, TypeOK
  <1> QED
    BY <1>3, NoTransactionStep

LEMMA UpsertInv ==
    ASSUME IInv, NEW h \in Handlers, Upsert(h)
    PROVE  LocksBelongToTransactions' /\ TransactionInv'
  <1>1. Serving(h) /\ ~InTx(h)
    BY DEF Upsert, Serving, InTx, TxPcs
  <1>2. Rep(h) \in Report /\ Rep(h).id \in RunIds /\ handler[h] \in BusyHandler
    BY <1>1, ServingType DEF IInv
  <1>3. /\ InTx(h)' /\ Rep(h)' = Rep(h)
        /\ handler'[h].pc = "delete" /\ handler'[h].row = Upserted(Rep(h))
        /\ \A g \in Handlers \ {h} : handler'[g] = handler[g]
    BY DEF Upsert, IInv, TypeOK, InTx, TxPcs, Rep
  <1>4. \A g \in Handlers \ {h} : (InTx(g)' <=> InTx(g)) /\ Rep(g)' = Rep(g)
    BY <1>3 DEF InTx, Rep
  <1>5. lock[Rep(h).id] = NoHandler /\ lock' = [lock EXCEPT ![Rep(h).id] = h]
    BY DEF Upsert
  <1>6. LocksBelongToTransactions'
    <2>3. ASSUME NEW id \in RunIds, lock'[id] # NoHandler
          PROVE  handler'[lock'[id]].pc \in TxPcs /\ handler'[lock'[id]].rep.id = id
      <3>1. CASE id = Rep(h).id
        BY <1>2, <1>3, <1>5, <3>1 DEF IInv, TypeOK, InTx, Rep
      <3>2. CASE id # Rep(h).id
        <4>1. lock'[id] = lock[id] /\ lock[id] \in Handlers
          BY <1>5, <2>3, <3>2 DEF IInv, TypeOK
        <4>2. InTx(lock[id]) /\ Rep(lock[id]).id = id
          BY <2>3, <4>1 DEF IInv, LocksBelongToTransactions
        <4>3. lock[id] # h
          BY <1>1, <4>2
        <4> QED
          BY <1>3, <4>1, <4>2, <4>3 DEF InTx, Rep
      <3> QED
        BY <3>1, <3>2
    <2>4. \A g \in Handlers : InTx(g)' => lock'[Rep(g)'.id] = g
      <3>1. ASSUME NEW g \in Handlers \ {h}, InTx(g)' PROVE lock'[Rep(g)'.id] = g
        <4>1. lock[Rep(g).id] = g /\ Serving(g)
          BY <1>4, <3>1 DEF IInv, LocksBelongToTransactions, InTx, TxPcs, Serving
        <4>2. Rep(g).id \in RunIds /\ g # NoHandler
          BY <4>1, ServingType, RunStoreAssumption DEF IInv
        <4>3. Rep(g).id # Rep(h).id
          BY <1>5, <4>1, <4>2
        <4> QED
          BY <1>2, <1>4, <1>5, <4>1, <4>2, <4>3 DEF IInv, TypeOK
      <3>2. lock'[Rep(h)'.id] = h
        BY <1>2, <1>3, <1>5 DEF IInv, TypeOK
      <3> QED
        BY <3>1, <3>2
    <2> QED
      BY <2>3, <2>4 DEF LocksBelongToTransactions, InTx, Rep
  <1>7. TransactionInv'
    <2>1. UNCHANGED <<backend, runs>> /\ backend = "postgres"
      BY DEF Upsert, tables
    <2>2. Upserted(Rep(h)) # NoRun
      BY <1>2, UpsertedType, NoRunIsNoRow DEF IInv
    <2>3. HoldsItsReport(h)'
      BY <1>2, <1>3, <2>1, <2>2, UpsertedType DEF IInv, HoldsItsReport
    <2>4. ASSUME NEW g \in Handlers \ {h}, InTx(g)' PROVE HoldsItsReport(g)'
      <3>1. InTx(g) /\ HoldsItsReport(g)
        BY <1>4, <2>4 DEF IInv, TransactionInv
      <3> QED
        BY <1>3, <1>4, <2>1, <3>1 DEF HoldsItsReport
    <2> QED
      BY <2>3, <2>4 DEF TransactionInv
  <1> QED
    BY <1>6, <1>7

LEMMA DeleteInsertInv ==
    ASSUME IInv, NEW h \in Handlers, DeleteRows(h) \/ InsertRow(h)
    PROVE  LocksBelongToTransactions' /\ TransactionInv'
  <1>1. Serving(h) /\ InTx(h) /\ HoldsItsReport(h)
    BY DEF DeleteRows, InsertRow, Serving, InTx, TxPcs, IInv, TransactionInv
  <1>2. handler[h] \in BusyHandler /\ Rep(h) \in Report /\ Rep(h).rows \in Seq(CheckRow)
    BY <1>1, ServingType, ReportType DEF IInv
  <1>3. /\ handler'[h].pc = "insert"
        /\ handler'[h].rep = handler[h].rep /\ handler'[h].row = handler[h].row
        /\ \A g \in Handlers \ {h} : handler'[g] = handler[g]
        /\ UNCHANGED <<backend, lock, runs>>
    BY <1>2 DEF DeleteRows, InsertRow, IInv, TypeOK, BusyHandler, tables
  <1>4. \A g \in Handlers : (InTx(g)' <=> InTx(g)) /\ Rep(g)' = Rep(g)
    BY <1>1, <1>3 DEF InTx, TxPcs, Rep
  <1>5. LocksBelongToTransactions'
    BY <1>3, <1>4 DEF IInv, TypeOK, LocksBelongToTransactions
  <1>6. /\ Len(handler'[h].rows) <= Len(Rep(h).rows)
        /\ \A i \in 1..Len(handler'[h].rows) : handler'[h].rows[i] = Rep(h).rows[i]
    <2>1. CASE DeleteRows(h)
      <3>1. handler'[h].rows = <<>>
        BY <2>1, <1>2 DEF DeleteRows, IInv, TypeOK, BusyHandler
      <3> QED
        BY <3>1, <1>2
    <2>2. CASE InsertRow(h)
      <3> DEFINE old == handler[h].rows
                 n == Len(old) + 1
      <3>1. old \in Seq(CheckRow) /\ n \in DOMAIN Rep(h).rows /\ Rep(h).rows[n] \in CheckRow
        BY <2>2, <1>2 DEF InsertRow, BusyHandler
      <3>2. handler'[h].rows = Append(old, Rep(h).rows[n])
        BY <2>2, <1>2 DEF InsertRow, IInv, TypeOK, BusyHandler
      <3>3. \A i \in 1..Len(old) : old[i] = Rep(h).rows[i]
        BY <2>2, <1>1 DEF InsertRow, HoldsItsReport
      <3> HIDE DEF old
      <3>4. Len(handler'[h].rows) = n /\ n <= Len(Rep(h).rows)
        BY <3>1, <3>2, <1>2
      <3>5. \A i \in 1..n : handler'[h].rows[i] = Rep(h).rows[i]
        BY <3>1, <3>2, <3>3, <1>2
      <3> QED
        BY <3>4, <3>5
    <2> QED
      BY <2>1, <2>2
  <1>7. HoldsItsReport(h)'
    BY <1>1, <1>3, <1>4, <1>6 DEF HoldsItsReport
  <1>8. ASSUME NEW g \in Handlers \ {h}, InTx(g)' PROVE HoldsItsReport(g)'
    <2>1. HoldsItsReport(g)
      BY <1>4, <1>8 DEF IInv, TransactionInv
    <2> QED
      BY <1>3, <1>4, <2>1 DEF HoldsItsReport
  <1>9. TransactionInv'
    BY <1>7, <1>8 DEF TransactionInv
  <1> QED
    BY <1>5, <1>9

\* The end of a transaction: its lock is free, the others are on other runs.
LEMMA EndInv ==
    ASSUME IInv, NEW h \in Handlers, InTx(h), UNCHANGED backend,
           NEW pc \in {"samples", "error"}, Goto(h, pc),
           lock' = [lock EXCEPT ![Rep(h).id] = NoHandler],
           \A id \in RunIds \ {Rep(h).id} : runs'[id] = runs[id]
    PROVE  LocksBelongToTransactions' /\ TransactionInv'
  <1>1. Serving(h) /\ pc \in HandlerPcs \ TxPcs /\ lock[Rep(h).id] = h
    BY DEF Serving, InTx, TxPcs, HandlerPcs, IInv, LocksBelongToTransactions
  <1>2. handler[h] \in BusyHandler /\ Rep(h).id \in RunIds
    BY <1>1, ServingType DEF IInv
  <1>3. /\ ~InTx(h)'
        /\ \A g \in Handlers \ {h} : handler'[g] = handler[g] /\ Rep(g)' = Rep(g) /\ (InTx(g)' <=> InTx(g))
    <2>1. handler' = [handler EXCEPT ![h] = [handler[h] EXCEPT !.pc = pc]]
      BY <1>1, GotoType DEF IInv
    <2> QED
      BY <1>1, <1>2, <2>1 DEF IInv, TypeOK, InTx, Rep, BusyHandler
  <1>4. ASSUME NEW g \in Handlers, InTx(g)'
        PROVE  /\ g # h /\ InTx(g) /\ Rep(g).id \in RunIds
               /\ Rep(g).id # Rep(h).id /\ lock[Rep(g).id] = g
    <2>1. g # h /\ InTx(g) /\ Serving(g)
      BY <1>3, <1>4 DEF Serving, InTx, TxPcs
    <2> QED
      BY <1>1, <2>1, ServingType DEF IInv, LocksBelongToTransactions
  <1>5. LocksBelongToTransactions'
    <2>1. ASSUME NEW id \in RunIds, lock'[id] # NoHandler
          PROVE  InTx(lock[id])' /\ Rep(lock[id])'.id = id /\ lock'[id] = lock[id]
      <3>1. id # Rep(h).id /\ lock'[id] = lock[id]
        BY <2>1, <1>2 DEF IInv, TypeOK
      <3>2. InTx(lock[id]) /\ Rep(lock[id]).id = id /\ lock[id] \in Handlers
        BY <2>1, <3>1 DEF IInv, TypeOK, LocksBelongToTransactions
      <3>3. lock[id] # h
        BY <3>1, <3>2
      <3>4. handler'[lock[id]] = handler[lock[id]]
        BY <3>2, <3>3, <1>3
      <3> QED
        BY <3>1, <3>2, <3>4 DEF InTx, Rep
    <2>2. ASSUME NEW g \in Handlers, InTx(g)' PROVE lock'[Rep(g)'.id] = g
      BY <1>2, <1>3, <1>4, <2>2 DEF IInv, TypeOK
    <2> QED
      BY <2>1, <2>2 DEF LocksBelongToTransactions, InTx, Rep
  <1>6. TransactionInv'
    <2>1. ASSUME NEW g \in Handlers, InTx(g)' PROVE HoldsItsReport(g)'
      <3>1. HoldsItsReport(g) /\ handler'[g] = handler[g] /\ Rep(g)' = Rep(g)
        BY <1>3, <1>4, <2>1 DEF IInv, TransactionInv
      <3>2. runs'[Rep(g).id] = runs[Rep(g).id]
        BY <1>4, <2>1
      <3> QED
        BY <3>1, <3>2 DEF HoldsItsReport
    <2> QED
      BY <2>1 DEF TransactionInv
  <1> QED
    BY <1>5, <1>6

LEMMA InitInv == Init => IInv
  <1> SUFFICES ASSUME Init PROVE IInv
    OBVIOUS
  <1>1. \A h \in Handlers : ~InTx(h)
    BY DEF Init, InTx, TxPcs, Idle
  <1>2. LocksBelongToTransactions
    BY <1>1 DEF Init, LocksBelongToTransactions
  <1> QED
    BY <1>1, <1>2, InitType DEF IInv, TransactionInv

LEMMA HandlerStepInv ==
    ASSUME IInv, NEW h \in Handlers, HandlerStep(h)
    PROVE  LocksBelongToTransactions' /\ TransactionInv'
  <1>1. CASE MemRecord(h)
    <2>1. Serving(h) /\ handler[h].pc = "record" /\ "samples" \in HandlerPcs /\ backend = "memory"
      BY <1>1 DEF MemRecord, Serving, HandlerPcs
    <2>2. \A g \in Handlers : ~InTx(g)
      BY <2>1 DEF IInv, TransactionInv, HoldsItsReport
    <2>3. \A g \in Handlers : ~InTx(g)'
      <3>1. handler' = [handler EXCEPT ![h] = [handler[h] EXCEPT !.pc = "samples"]]
        BY <1>1, <2>1, GotoType DEF MemRecord, IInv
      <3>2. handler[h] \in BusyHandler
        BY <2>1, ServingType DEF IInv
      <3> QED
        BY <2>2, <3>1, <3>2 DEF InTx, TxPcs, IInv, TypeOK, BusyHandler
    <2>4. UNCHANGED lock
      BY <1>1 DEF MemRecord
    <2> QED
      BY <2>2, <2>3, <2>4 DEF IInv, TypeOK, LocksBelongToTransactions, TransactionInv
  <1>2. CASE Upsert(h)
    BY <1>2, UpsertInv
  <1>3. CASE DeleteRows(h) \/ InsertRow(h)
    BY <1>3, DeleteInsertInv
  <1>4. CASE Commit(h)
    <2>1. InTx(h) /\ Serving(h)
      BY <1>4 DEF Commit, InTx, TxPcs, Serving
    <2>2. \A id \in RunIds \ {Rep(h).id} : runs'[id] = runs[id]
      BY <1>4, <2>1, ServingType DEF Commit, IInv, TypeOK
    <2> QED
      BY <1>4, <2>1, <2>2, EndInv DEF Commit
  <1>5. CASE Rollback(h)
    <2>1. InTx(h)
      BY <1>5 DEF Rollback
    <2> QED
      BY <1>5, <2>1, EndInv DEF Rollback, tables
  <1>6. CASE BeginFails(h) \/ AppendSamples(h) \/ SkipSamples(h)
    <2>1. Serving(h) /\ ~InTx(h) /\ UNCHANGED <<backend, lock, runs>>
      BY <1>6 DEF BeginFails, AppendSamples, SkipSamples, Serving, InTx, TxPcs, tables
    <2>2. \E pc \in HandlerPcs \ TxPcs : Goto(h, pc)
      BY <1>6 DEF BeginFails, AppendSamples, SkipSamples, HandlerPcs, TxPcs
    <2> QED
      BY <2>1, <2>2, GotoOutside
  <1>7. CASE ReplyCreated(h) \/ ReplyError(h)
    <2>1. UNCHANGED <<backend, lock, runs>> /\ handler' = [handler EXCEPT ![h] = Idle] /\ ~InTx(h)
      BY <1>7 DEF ReplyCreated, ReplyError, tables, InTx, TxPcs
    <2>2. \A g \in Handlers : InTx(g) \/ InTx(g)' => handler'[g] = handler[g]
      BY <2>1 DEF IInv, TypeOK, InTx, TxPcs, Idle
    <2> QED
      BY <2>1, <2>2, NoTransactionStep
  <1> QED
    BY <1>1, <1>2, <1>3, <1>4, <1>5, <1>6, <1>7 DEF HandlerStep, Statement

LEMMA NextInv == IInv /\ [Next]_vars => IInv'
  <1> SUFFICES ASSUME IInv, [Next]_vars PROVE LocksBelongToTransactions' /\ TransactionInv'
    BY NextType DEF IInv
  <1>1. CASE \E h \in Handlers : HandlerStep(h)
    BY <1>1, HandlerStepInv
  <1>2. CASE Restart
    <2>1. \A h \in Handlers : ~InTx(h)'
      BY <1>2 DEF Restart, InTx, TxPcs, Idle
    <2>2. \A id \in RunIds : lock'[id] = NoHandler
      BY <1>2 DEF Restart
    <2> QED
      BY <2>1, <2>2 DEF LocksBelongToTransactions, TransactionInv
  <1>3. CASE \E id \in RunIds, h \in Handlers : Push(id, h)
    <2>1. PICK id \in RunIds, h \in Handlers : Push(id, h)
      BY <1>3
    <2>2. ~InTx(h) /\ UNCHANGED <<backend, lock, runs>>
      BY <2>1 DEF Push, Serving, InTx, TxPcs, tables
    <2>3. ~InTx(h)' /\ \A g \in Handlers \ {h} : handler'[g] = handler[g]
      BY <2>1 DEF Push, IInv, TypeOK, InTx, TxPcs
    <2>4. \A g \in Handlers : InTx(g) \/ InTx(g)' => handler'[g] = handler[g]
      BY <2>2, <2>3
    <2> QED
      BY <2>2, <2>4, NoTransactionStep
  <1>4. CASE Tick \/ ReadRows \/ (\E id \in RunIds : GiveUp(id) \/ ReadRow(id)) \/ UNCHANGED vars
    <2>1. UNCHANGED <<backend, lock, runs, handler>>
      BY <1>4 DEF Tick, ReadRows, GiveUp, ReadRow, vars, tables
    <2> QED
      BY <2>1, NoTransactionStep
  <1> QED
    BY <1>1, <1>2, <1>3, <1>4 DEF Next

\* Every lock belongs to an open transaction on its run, which has written
\* nothing but its own report.
THEOREM Invariance == Spec => []IInv
  <1> QED
    BY InitInv, NextInv, PTL DEF Spec

\* No lock is left behind and no two transactions are open on one run.
THEOREM LocksHold == Spec => []LocksBelongToTransactions
  <1>1. IInv => LocksBelongToTransactions
    BY DEF IInv
  <1> QED
    BY <1>1, Invariance, PTL
-----------------------------------------------------------------------------
(* Both backends implement the ledger                                      *)

LEMMA LedgerUnchanged ==
    ASSUME UNCHANGED <<backend, tables>>
    PROVE  UNCHANGED <<Ledger, backend = "postgres">>
  BY DEF Ledger, tables

LEMMA LedgerAt ==
    ASSUME IInv, NEW rep \in Report, NEW row \in TableRow, row.rep = rep,
           runs' = [runs EXCEPT ![rep.id] = row],
           results' = [results EXCEPT ![rep.id] = rep.rows]
    PROVE  Ledger' = [Ledger EXCEPT ![rep.id] =
                         [rep |-> rep, started |-> row.started, rows |-> rep.rows]]
  <1>1. rep.id \in RunIds /\ row # NoRun
    BY ReportType, NoRunIsNoRow
  <1>2. \A id \in RunIds : /\ runs'[id] = IF id = rep.id THEN row ELSE runs[id]
                           /\ results'[id] = IF id = rep.id THEN rep.rows ELSE results[id]
    BY DEF IInv, TypeOK
  <1> QED
    BY <1>1, <1>2 DEF Ledger

LEMMA MemRecordRefines ==
    ASSUME IInv, NEW h \in Handlers, MemRecord(h)
    PROVE  Contract!LedgerNext
  <1>1. Rep(h) \in Report /\ Rep(h).started \in Times
    BY ServingType, ReportType DEF IInv, MemRecord, Serving
  <1>2. Row(Rep(h), Rep(h).started) \in TableRow
    BY <1>1 DEF Row, TableRow
  <1>3. Ledger' = [Ledger EXCEPT ![Rep(h).id] =
             [rep |-> Rep(h), started |-> Rep(h).started, rows |-> Rep(h).rows]]
    BY <1>1, <1>2, LedgerAt DEF MemRecord, Row
  <1>4. Contract!Record(Rep(h))
    BY <1>3 DEF Contract!Record, Contract!Entry, MemRecord
  <1> QED
    BY <1>1, <1>4 DEF Contract!LedgerNext

LEMMA CommitRefines ==
    ASSUME IInv, NEW h \in Handlers, Commit(h)
    PROVE  Contract!LedgerNext
  <1>1. InTx(h) /\ Serving(h)
    BY DEF Commit, InTx, TxPcs, Serving
  <1>2. /\ Rep(h) \in Report /\ Rep(h).id \in RunIds /\ handler[h] \in BusyHandler
        /\ Rep(h).rows \in Seq(CheckRow)
    BY <1>1, ServingType, ReportType DEF IInv
  <1>3. HoldsItsReport(h)
    BY <1>1 DEF IInv, TransactionInv
  <1>4. handler[h].row \in TableRow
    BY <1>2, <1>3 DEF BusyHandler, HoldsItsReport
  <1>5. handler[h].rows = Rep(h).rows
    <2>1. handler[h].rows \in Seq(CheckRow)
      BY <1>2 DEF BusyHandler
    <2>2. Len(handler[h].rows) = Len(Rep(h).rows) /\ \A i \in 1..Len(handler[h].rows) :
             handler[h].rows[i] = Rep(h).rows[i]
      BY <1>3 DEF Commit, HoldsItsReport
    <2> QED
      BY <1>2, <2>1, <2>2
  <1>6. Ledger' = [Ledger EXCEPT ![Rep(h).id] =
             [rep |-> Rep(h), started |-> handler[h].row.started, rows |-> Rep(h).rows]]
    BY <1>2, <1>3, <1>4, <1>5, LedgerAt DEF Commit, HoldsItsReport
  <1>7. Contract!Record(Rep(h))
    <2>1. UNCHANGED (backend = "postgres")
      BY DEF Commit
    <2>2. CASE handler[h].row.started = Rep(h).started
      BY <1>6, <2>1, <2>2 DEF Contract!Record, Contract!Entry
    <2>3. CASE runs[Rep(h).id] # NoRun /\ handler[h].row.started = runs[Rep(h).id].started
      <3>1. Ledger[Rep(h).id] = [rep |-> runs[Rep(h).id].rep, started |-> runs[Rep(h).id].started,
                                 rows |-> results[Rep(h).id]]
        BY <1>2, <2>3 DEF Ledger
      <3>2. Ledger[Rep(h).id].started = handler[h].row.started
        BY <2>3, <3>1
      <3>3. Ledger[Rep(h).id] # NoRun
        <4>1. runs[Rep(h).id] \in TableRow /\ results[Rep(h).id] \in Seq(CheckRow)
          BY <1>2, <2>3 DEF IInv, TypeOK
        <4>2. Ledger[Rep(h).id] \in [rep : Report, started : Times, rows : Seq(CheckRow)]
          BY <3>1, <4>1 DEF TableRow
        <4> QED
          BY <4>2, NoRunIsNoRow
      <3> QED
        BY <1>6, <2>1, <3>2, <3>3 DEF Contract!Record, Contract!Entry
    <2> QED
      BY <1>3, <2>2, <2>3 DEF HoldsItsReport
  <1> QED
    BY <1>2, <1>7 DEF Contract!LedgerNext

LEMMA RestartRefines ==
    ASSUME IInv, Restart
    PROVE  Contract!LedgerNext \/ UNCHANGED <<Ledger, backend = "postgres">>
  <1>1. CASE UNCHANGED tables
    BY <1>1, LedgerUnchanged DEF Restart
  <1>2. CASE backend = "memory" /\ runs' = [id \in RunIds |-> NoRun]
    <2>1. Ledger' = [id \in RunIds |-> NoRun]
      BY <1>2 DEF Ledger
    <2> QED
      BY <1>2, <2>1 DEF Restart, Contract!LedgerNext, Contract!Forget
  <1> QED
    BY <1>1, <1>2 DEF Restart

LEMMA StepRefines ==
    ASSUME IInv, [Next]_vars
    PROVE  Contract!LedgerNext \/ UNCHANGED <<Ledger, backend = "postgres">>
  <1>1. CASE \E h \in Handlers : MemRecord(h)
    BY <1>1, MemRecordRefines
  <1>2. CASE \E h \in Handlers : Commit(h)
    BY <1>2, CommitRefines
  <1>3. CASE Restart
    BY <1>3, RestartRefines
  <1>4. CASE UNCHANGED <<backend, tables>>
    BY <1>4, LedgerUnchanged
  <1>5. ASSUME NEW h \in Handlers, HandlerStep(h)
        PROVE  MemRecord(h) \/ Commit(h) \/ UNCHANGED <<backend, tables>>
    BY <1>5 DEF HandlerStep, Statement, Upsert, DeleteRows, InsertRow, Rollback, BeginFails,
                AppendSamples, SkipSamples, ReplyCreated, ReplyError
  <1>6. CASE \E h \in Handlers : HandlerStep(h)
    BY <1>1, <1>2, <1>4, <1>5, <1>6
  <1>7. CASE Tick \/ ReadRows \/ (\E id \in RunIds : GiveUp(id) \/ ReadRow(id))
                \/ (\E id \in RunIds, h \in Handlers : Push(id, h)) \/ UNCHANGED vars
    <2>1. UNCHANGED <<backend, tables>>
      BY <1>7 DEF Tick, ReadRows, GiveUp, ReadRow, Push, vars
    <2> QED
      BY <2>1, <1>4
  <1> QED
    BY <1>3, <1>6, <1>7 DEF Next

\* MemStore and PGStore implement the ledger: concurrent, failing and late
\* handlers never leave a run with the check rows of another report.
THEOREM LedgerImplemented == Spec => ImplementsLedger
  <1>1. Init => Contract!LedgerInit
    <2> SUFFICES ASSUME Init PROVE Contract!LedgerInit
      OBVIOUS
    <2>1. Ledger = [id \in RunIds |-> NoRun]
      BY DEF Init, Ledger
    <2>2. (backend = "postgres") \in BOOLEAN
      OBVIOUS
    <2> QED
      BY <2>1, <2>2 DEF Contract!LedgerInit
  <1>2. IInv /\ [Next]_vars => [Contract!LedgerNext]_<<Ledger, backend = "postgres">>
    BY StepRefines
  <1> QED
    BY <1>1, <1>2, Invariance, PTL DEF Spec, ImplementsLedger, Contract!LedgerSpec
-----------------------------------------------------------------------------
(* The history: answered reports survive, reads go forward, samples are of *)
(* recorded runs                                                           *)

\* What was recorded stays at its place.
Grows == \A id \in RunIds :
    /\ Len(recorded[id]) <= Len(recorded'[id])
    /\ \A k \in DOMAIN recorded[id] : k \in DOMAIN recorded'[id] /\ recorded'[id][k] = recorded[id][k]

\* A report is added at the end, and stored in the table with its rows.
Records(rep) ==
    /\ recorded' = [recorded EXCEPT ![rep.id] = Append(@, rep)]
    /\ \E row \in TableRow : row.rep = rep /\ runs' = [runs EXCEPT ![rep.id] = row]
    /\ results' = [results EXCEPT ![rep.id] = rep.rows]

LEMMA AppendAtEnd ==
    ASSUME TypeOK, NEW rep \in Report, recorded' = [recorded EXCEPT ![rep.id] = Append(@, rep)]
    PROVE  /\ rep.id \in RunIds
           /\ recorded'[rep.id] # <<>>
           /\ Len(recorded'[rep.id]) = Len(recorded[rep.id]) + 1
           /\ recorded'[rep.id][Len(recorded'[rep.id])] = rep
           /\ \A id \in RunIds \ {rep.id} : recorded'[id] = recorded[id]
           /\ Recorded(rep)' /\ Grows
  <1>1. rep.id \in RunIds
    BY ReportType
  <1> DEFINE old == recorded[rep.id]
             new == recorded'[rep.id]
  <1>2. old \in Seq(Report) /\ new = Append(old, rep)
    BY <1>1 DEF TypeOK
  <1>3. \A id \in RunIds \ {rep.id} : recorded'[id] = recorded[id]
    BY DEF TypeOK
  <1> HIDE DEF old, new
  <1>4. /\ new # <<>> /\ Len(new) = Len(old) + 1 /\ new[Len(new)] = rep
        /\ Len(new) \in DOMAIN new
        /\ \A k \in DOMAIN old : k \in DOMAIN new /\ new[k] = old[k]
    BY <1>2
  <1>5. Recorded(rep)'
    BY <1>4 DEF Recorded, new
  <1>6. Grows
    <2>1. ASSUME NEW id \in RunIds
          PROVE  /\ Len(recorded[id]) <= Len(recorded'[id])
                 /\ \A k \in DOMAIN recorded[id] : k \in DOMAIN recorded'[id] /\ recorded'[id][k] = recorded[id][k]
      <3>1. CASE id = rep.id
        <4>1. Len(old) \in Nat
          BY <1>2
        <4> QED
          BY <3>1, <4>1, <1>4 DEF old, new
      <3>2. CASE id # rep.id
        <4>1. recorded'[id] = recorded[id] /\ Len(recorded[id]) \in Nat
          BY <3>2, <1>3 DEF TypeOK
        <4> QED
          BY <4>1
      <3> QED
        BY <3>1, <3>2
    <2> QED
      BY <2>1 DEF Grows
  <1> QED
    BY <1>1, <1>3, <1>4, <1>5, <1>6 DEF old, new

LEMMA SameGrows ==
    ASSUME TypeOK, UNCHANGED recorded
    PROVE  Grows
  BY DEF TypeOK, Grows

LEMMA RecordedStays ==
    ASSUME Grows, NEW rep \in Report, Recorded(rep)
    PROVE  \E k \in DOMAIN recorded'[rep.id] : recorded'[rep.id][k] = rep
  BY ReportType DEF Grows, Recorded

\* A committed transaction and MemStore's critical section record one report.
LEMMA CommitRecords ==
    ASSUME IInv, NEW h \in Handlers, MemRecord(h) \/ Commit(h)
    PROVE  Serving(h) /\ handler[h].pc # "created" /\ Rep(h) \in Report /\ Records(Rep(h))
  <1>1. Serving(h) /\ handler[h].pc # "created"
    BY DEF MemRecord, Commit, Serving
  <1>2. /\ Rep(h) \in Report /\ Rep(h).id \in RunIds /\ handler[h] \in BusyHandler
        /\ Rep(h).rows \in Seq(CheckRow) /\ Rep(h).started \in Times
    BY <1>1, ServingType, ReportType DEF IInv
  <1>3. CASE MemRecord(h)
    <2>1. Row(Rep(h), Rep(h).started) \in TableRow /\ Row(Rep(h), Rep(h).started).rep = Rep(h)
      BY <1>2 DEF Row, TableRow
    <2> QED
      BY <1>1, <1>2, <1>3, <2>1 DEF MemRecord, Records
  <1>4. CASE Commit(h)
    <2>1. HoldsItsReport(h) /\ handler[h].pc = "insert"
      BY <1>4 DEF Commit, InTx, TxPcs, IInv, TransactionInv
    <2>2. handler[h].row \in TableRow /\ handler[h].row.rep = Rep(h)
      BY <1>2, <2>1 DEF BusyHandler, HoldsItsReport
    <2>3. handler[h].rows = Rep(h).rows
      <3>1. handler[h].rows \in Seq(CheckRow)
        BY <1>2 DEF BusyHandler
      <3>2. Len(handler[h].rows) = Len(Rep(h).rows)
            /\ \A i \in 1..Len(handler[h].rows) : handler[h].rows[i] = Rep(h).rows[i]
        BY <1>4, <2>1 DEF Commit, HoldsItsReport
      <3> QED
        BY <1>2, <3>1, <3>2
    <2> QED
      BY <1>1, <1>2, <1>4, <2>2, <2>3 DEF Commit, Records
  <1> QED
    BY <1>3, <1>4

\* What a statement, an answer or a hang-up does to the handlers.
LEMMA HandlerStepMoves ==
    ASSUME IInv, NEW h \in Handlers, HandlerStep(h)
    PROVE  /\ Serving(h) /\ \A g \in Handlers \ {h} : handler'[g] = handler[g]
           /\ handler'[h].pc # "idle" => handler'[h].rep = handler[h].rep /\ handler[h].pc # "created"
           /\ handler'[h].pc = "samples" => MemRecord(h) \/ Commit(h)
           /\ handler'[h].pc = "created" =>
                  handler[h].pc = "samples" /\ (AppendSamples(h) \/ SkipSamples(h))
           /\ UNCHANGED <<pushes, reader, backend>>
  <1>1. Serving(h)
    BY DEF HandlerStep, Statement, MemRecord, Upsert, DeleteRows, InsertRow, Commit, Rollback, BeginFails,
           AppendSamples, SkipSamples, ReplyCreated, ReplyError, InTx, TxPcs, Serving
  <1>2. handler[h] \in BusyHandler
    BY <1>1, ServingType DEF IInv
  <1>3. CASE MemRecord(h) \/ Commit(h)
    <2>1. PICK pc \in {"samples", "error"} : handler' = [handler EXCEPT ![h] = [handler[h] EXCEPT !.pc = pc]]
      <3>1. \E pc \in {"samples", "error"} : Goto(h, pc)
        BY <1>3 DEF MemRecord, Commit
      <3> QED
        BY <1>1, <3>1, GotoType DEF IInv, HandlerPcs
    <2> QED
      BY <1>1, <1>2, <1>3, <2>1 DEF MemRecord, Commit, IInv, TypeOK, BusyHandler, pushVars
  <1>4. CASE Rollback(h) \/ BeginFails(h)
    <2>1. handler' = [handler EXCEPT ![h] = [handler[h] EXCEPT !.pc = "error"]]
      BY <1>1, <1>4, GotoType DEF Rollback, BeginFails, IInv, HandlerPcs
    <2> QED
      BY <1>1, <1>2, <1>4, <2>1 DEF Rollback, BeginFails, InTx, TxPcs, IInv, TypeOK, BusyHandler, pushVars
  <1>5. CASE Upsert(h) \/ DeleteRows(h) \/ InsertRow(h)
    <2>1. /\ handler[h].pc \in {"record", "delete", "insert"} /\ UNCHANGED <<pushes, reader, backend>>
          /\ handler'[h].pc \in {"delete", "insert"} /\ handler'[h].rep = handler[h].rep
          /\ \A g \in Handlers \ {h} : handler'[g] = handler[g]
      <3>1. CASE Upsert(h)
        BY <3>1 DEF Upsert, Rep, IInv, TypeOK, pushVars
      <3>2. CASE DeleteRows(h)
        BY <1>2, <3>2 DEF DeleteRows, IInv, TypeOK, BusyHandler, pushVars
      <3>3. CASE InsertRow(h)
        BY <1>2, <3>3 DEF InsertRow, IInv, TypeOK, BusyHandler, pushVars
      <3> QED
        BY <1>5, <3>1, <3>2, <3>3
    <2> QED
      BY <1>1, <2>1
  <1>6. CASE AppendSamples(h) \/ SkipSamples(h)
    <2>1. handler' = [handler EXCEPT ![h] = [handler[h] EXCEPT !.pc = "created"]]
      BY <1>1, <1>6, GotoType DEF AppendSamples, SkipSamples, IInv, HandlerPcs
    <2> QED
      BY <1>1, <1>2, <1>6, <2>1 DEF AppendSamples, SkipSamples, IInv, TypeOK, BusyHandler, pushVars
  <1>7. CASE ReplyCreated(h) \/ ReplyError(h)
    BY <1>1, <1>7 DEF ReplyCreated, ReplyError, IInv, TypeOK, Idle
  <1> QED
    BY <1>3, <1>4, <1>5, <1>6, <1>7 DEF HandlerStep, Statement

\* A handler that serves after a step served the same report before it, or has
\* just received the next report of its run.
LEMMA Moves ==
    ASSUME IInv, [Next]_vars, NEW g \in Handlers, handler'[g].pc # "idle"
    PROVE  \/ /\ Serving(g) /\ handler'[g].rep = handler[g].rep
              /\ handler'[g].pc = "samples" => handler[g].pc = "samples" \/ MemRecord(g) \/ Commit(g)
              /\ handler'[g].pc = "created" => handler[g].pc \in {"samples", "created"}
              /\ handler[g].pc = "created" => handler'[g].pc = "created"
           \/ \E id \in RunIds : /\ Push(id, g) /\ handler'[g].pc = "record"
                                 /\ handler'[g].rep.id = id /\ handler'[g].rep.no = pushes[id] + 1
  <1>1. CASE \E h \in Handlers : HandlerStep(h)
    <2>1. PICK h \in Handlers : HandlerStep(h)
      BY <1>1
    <2>2. CASE g = h
      BY <2>1, <2>2, HandlerStepMoves
    <2>3. CASE g # h
      BY <2>1, <2>3, HandlerStepMoves DEF Serving
    <2> QED
      BY <2>2, <2>3
  <1>2. CASE Restart
    BY <1>2 DEF Restart, Idle
  <1>3. CASE \E id \in RunIds, h \in Handlers : Push(id, h)
    <2>1. PICK id \in RunIds, h \in Handlers : Push(id, h)
      BY <1>3
    <2>2. CASE g = h
      <3>1. PICK rows \in RowChoices[id] : handler' = [handler EXCEPT ![h] =
                [pc |-> "record", row |-> NoRun, rows |-> <<>>,
                 rep |-> [id |-> id, no |-> pushes[id] + 1, started |-> StartTime(id), rows |-> rows]]]
        BY <2>1 DEF Push
      <3>2. /\ handler'[g].pc = "record"
            /\ handler'[g].rep.id = id /\ handler'[g].rep.no = pushes[id] + 1
        BY <2>2, <3>1 DEF IInv, TypeOK
      <3> QED
        BY <2>1, <2>2, <3>2
    <2>3. CASE g # h
      BY <2>1, <2>3 DEF Push, Serving, IInv, TypeOK
    <2> QED
      BY <2>2, <2>3
  <1>4. CASE UNCHANGED handler
    BY <1>4 DEF Serving
  <1>5. CASE Tick \/ ReadRows \/ (\E id \in RunIds : GiveUp(id) \/ ReadRow(id)) \/ UNCHANGED vars
    BY <1>4, <1>5 DEF Tick, ReadRows, GiveUp, ReadRow, vars
  <1> QED
    BY <1>1, <1>2, <1>3, <1>5 DEF Next

\* What a step does to the history: nothing, one report, or, when MemStore is
\* restarted, everything is forgotten.
Forgets ==
    /\ Restart /\ backend = "memory"
    /\ runs' = [id \in RunIds |-> NoRun] /\ recorded' = [id \in RunIds |-> <<>>] /\ samples' = <<>>

LEMMA HistorySteps ==
    ASSUME IInv, [Next]_vars
    PROVE  \/ UNCHANGED <<tables, recorded>>
           \/ \E h \in Handlers : MemRecord(h) \/ Commit(h)
           \/ Forgets
  <1>1. ASSUME NEW h \in Handlers, HandlerStep(h)
        PROVE  MemRecord(h) \/ Commit(h) \/ UNCHANGED <<tables, recorded>>
    BY <1>1 DEF HandlerStep, Statement, Upsert, DeleteRows, InsertRow, Rollback, BeginFails,
                AppendSamples, SkipSamples, ReplyCreated, ReplyError
  <1>2. CASE Restart
    BY <1>2 DEF Restart, Forgets
  <1>3. CASE Tick \/ ReadRows \/ (\E id \in RunIds : GiveUp(id) \/ ReadRow(id))
                \/ (\E id \in RunIds, h \in Handlers : Push(id, h)) \/ UNCHANGED vars
    BY <1>3 DEF Tick, ReadRows, GiveUp, ReadRow, Push, vars
  <1> QED
    BY <1>1, <1>2, <1>3 DEF Next

LEMMA HistoryGrows ==
    ASSUME IInv, [Next]_vars
    PROVE  Grows \/ Forgets
  <1>1. CASE UNCHANGED <<tables, recorded>>
    BY <1>1, SameGrows DEF IInv
  <1>2. CASE \E h \in Handlers : MemRecord(h) \/ Commit(h)
    <2>1. PICK h \in Handlers : MemRecord(h) \/ Commit(h)
      BY <1>2
    <2>2. Rep(h) \in Report /\ Records(Rep(h))
      BY <2>1, CommitRecords
    <2> QED
      BY <2>2, AppendAtEnd DEF Records, IInv
  <1> QED
    BY <1>1, <1>2, HistorySteps

\* A handler that records, or has recorded, still serves the report it had.
LEMMA RecordsOwn ==
    ASSUME IInv, [Next]_vars, NEW g \in Handlers, handler'[g].pc \in {"samples", "created"}
    PROVE  /\ Serving(g) /\ handler'[g].rep = handler[g].rep
           /\ handler[g].pc \in {"samples", "created"} \/ MemRecord(g) \/ Commit(g)
  <1>1. \A id \in RunIds : Push(id, g) => handler'[g].pc = "record"
    BY DEF Push, IInv, TypeOK
  <1> QED
    BY <1>1, Moves

LEMMA TablesNext ==
    ASSUME IInv, TablesHoldTheLast, [Next]_vars
    PROVE  TablesHoldTheLast'
  <1>1. CASE UNCHANGED <<tables, recorded>>
    BY <1>1 DEF TablesHoldTheLast, tables
  <1>2. CASE \E h \in Handlers : MemRecord(h) \/ Commit(h)
    <2>1. PICK h \in Handlers : MemRecord(h) \/ Commit(h)
      BY <1>2
    <2> DEFINE rep == Rep(h)
    <2>2. rep \in Report /\ Records(rep)
      BY <2>1, CommitRecords
    <2> HIDE DEF rep
    <2>3. PICK row \in TableRow : row.rep = rep /\ runs' = [runs EXCEPT ![rep.id] = row]
      BY <2>2 DEF Records
    <2>4. /\ rep.id \in RunIds /\ recorded'[rep.id] # <<>>
          /\ recorded'[rep.id][Len(recorded'[rep.id])] = rep
          /\ \A id \in RunIds \ {rep.id} : recorded'[id] = recorded[id]
      BY <2>2, AppendAtEnd DEF Records, IInv
    <2>5. /\ runs'[rep.id] = row /\ row # NoRun /\ results'[rep.id] = rep.rows
          /\ \A id \in RunIds \ {rep.id} : runs'[id] = runs[id] /\ results'[id] = results[id]
      BY <2>2, <2>3, <2>4, NoRunIsNoRow DEF Records, IInv, TypeOK
    <2> QED
      BY <2>3, <2>4, <2>5 DEF TablesHoldTheLast
  <1>3. CASE Forgets
    BY <1>3 DEF Forgets, TablesHoldTheLast
  <1> QED
    BY <1>1, <1>2, <1>3, HistorySteps

LEMMA HandlersNext ==
    ASSUME IInv, HandlersRecorded, [Next]_vars
    PROVE  HandlersRecorded'
  <1> SUFFICES ASSUME NEW g \in Handlers, handler'[g].pc \in {"samples", "created"}
               PROVE  \E k \in DOMAIN recorded'[handler'[g].rep.id] :
                          recorded'[handler'[g].rep.id][k] = handler'[g].rep
    BY DEF HandlersRecorded, Recorded, Rep
  <1>1. /\ Serving(g) /\ handler'[g].rep = Rep(g)
        /\ handler[g].pc \in {"samples", "created"} \/ MemRecord(g) \/ Commit(g)
    BY RecordsOwn DEF Rep
  <1>2. Rep(g) \in Report
    BY <1>1, ServingType DEF IInv
  <1>3. CASE MemRecord(g) \/ Commit(g)
    BY <1>1, <1>2, <1>3, CommitRecords, AppendAtEnd DEF Records, Recorded, IInv
  <1>4. CASE handler[g].pc \in {"samples", "created"}
    <2>1. Recorded(Rep(g))
      BY <1>4 DEF HandlersRecorded
    <2>2. ~Forgets
      BY DEF Forgets, Restart, Idle
    <2> QED
      BY <1>1, <1>2, <2>1, <2>2, HistoryGrows, RecordedStays
  <1> QED
    BY <1>1, <1>3, <1>4

LEMMA AckedNext ==
    ASSUME IInv, HandlersRecorded, AckedRecorded, [Next]_vars
    PROVE  AckedRecorded'
  <1> SUFFICES ASSUME backend' = "postgres", NEW rep \in acked'
               PROVE  \E k \in DOMAIN recorded'[rep.id] : recorded'[rep.id][k] = rep
    BY DEF AckedRecorded, Recorded
  <1>1. backend' = backend
    BY HandlerStepMoves DEF Next, vars, Tick, Restart, ReadRows, ReadRow, GiveUp, Push
  <1>2. rep \in Report /\ Recorded(rep)
    <2>1. CASE \E h \in Handlers : ReplyCreated(h)
      <3>1. PICK h \in Handlers : ReplyCreated(h)
        BY <2>1
      <3>2. Serving(h) /\ Recorded(Rep(h)) /\ Rep(h) \in Report
        BY <3>1, ServingType DEF ReplyCreated, Serving, HandlersRecorded, IInv
      <3> QED
        BY <1>1, <3>1, <3>2 DEF ReplyCreated, AckedRecorded, IInv, TypeOK
    <2>2. CASE UNCHANGED acked
      BY <1>1, <2>2 DEF AckedRecorded, IInv, TypeOK
    <2>3. ASSUME NEW h \in Handlers, HandlerStep(h) PROVE ReplyCreated(h) \/ UNCHANGED acked
      BY <2>3 DEF HandlerStep, Statement, MemRecord, Commit, Upsert, DeleteRows, InsertRow, Rollback,
                  BeginFails, AppendSamples, SkipSamples, ReplyError, pushVars
    <2>4. CASE Tick \/ Restart \/ ReadRows \/ (\E id \in RunIds : GiveUp(id) \/ ReadRow(id))
                  \/ (\E id \in RunIds, h \in Handlers : Push(id, h)) \/ UNCHANGED vars
      BY <2>2, <2>4 DEF Tick, Restart, ReadRows, GiveUp, ReadRow, Push, vars, pushVars
    <2> QED
      BY <2>1, <2>2, <2>3, <2>4 DEF Next
  <1>3. ~Forgets
    BY <1>1 DEF Forgets
  <1> QED
    BY <1>2, <1>3, HistoryGrows, RecordedStays

LEMMA ReaderNext ==
    ASSUME IInv, TablesHoldTheLast, ReaderInv, [Next]_vars
    PROVE  ReaderInv'
  <1>1. CASE \E id \in RunIds : ReadRow(id)
    <2>1. PICK id \in RunIds : ReadRow(id)
      BY <1>1
    <2> DEFINE last == Len(recorded[id])
    <2>2. /\ last \in DOMAIN recorded[id] /\ last \in 1..last
          /\ runs[id].rep = recorded[id][last] /\ results[id] = recorded[id][last].rows
      <3>1. recorded[id] \in Seq(Report) /\ recorded[id] # <<>>
        BY <2>1 DEF ReadRow, TablesHoldTheLast, IInv, TypeOK
      <3> QED
        BY <2>1, <3>1 DEF ReadRow, TablesHoldTheLast
    <2>3. /\ reader'.id = id /\ reader'.row = runs[id] /\ UNCHANGED recorded
          /\ reader'.pc = "answered" => reader'.rows = results[id]
      BY <2>1 DEF ReadRow
    <2> HIDE DEF last
    <2> QED
      BY <2>2, <2>3 DEF ReaderInv, ReadsGoForward
  <1>2. CASE ReadRows
    <2> DEFINE id == reader.id
               last == Len(recorded[id])
    <2>1. reader \in BusyReader
      BY <1>2 DEF ReadRows, IInv, TypeOK, Idle
    <2>2. PICK j \in DOMAIN recorded[id] : reader.row.rep = recorded[id][j]
      BY <1>2 DEF ReadRows, ReaderInv
    <2>3. recorded[id] \in Seq(Report) /\ id \in RunIds
      BY <2>1 DEF BusyReader, IInv, TypeOK
    <2>4. recorded[id] # <<>> /\ last \in DOMAIN recorded[id] /\ j \in 1..last
      BY <2>2, <2>3
    <2>5. results[id] = recorded[id][last].rows
      BY <2>3, <2>4 DEF TablesHoldTheLast
    <2>6. /\ reader'.pc = "answered" /\ reader'.id = id /\ reader'.row = reader.row
          /\ reader'.rows = results[id] /\ UNCHANGED recorded
      BY <1>2, <2>1 DEF ReadRows, BusyReader
    <2> HIDE DEF id, last
    <2> QED
      BY <2>2, <2>4, <2>5, <2>6 DEF ReaderInv, ReadsGoForward
  <1>3. CASE UNCHANGED reader /\ Grows
    <2>1. CASE reader = Idle
      BY <1>3, <2>1 DEF Idle, ReaderInv, ReadsGoForward
    <2>2. CASE reader \in BusyReader
      <3>1. reader.id \in RunIds
        BY <2>2 DEF BusyReader
      <3> QED
        BY <1>3, <3>1 DEF Grows, ReaderInv, ReadsGoForward
    <2> QED
      BY <2>1, <2>2 DEF IInv, TypeOK
  <1>4. CASE Restart
    BY <1>4 DEF Restart, Idle, ReaderInv, ReadsGoForward
  <1>5. Grows \/ Restart
    BY HistoryGrows DEF Forgets
  <1>6. CASE \E h \in Handlers : HandlerStep(h)
    BY <1>3, <1>4, <1>5, <1>6, HandlerStepMoves
  <1>7. CASE Tick \/ (\E id \in RunIds : GiveUp(id))
                \/ (\E id \in RunIds, h \in Handlers : Push(id, h)) \/ UNCHANGED vars
    BY <1>3, <1>4, <1>5, <1>7 DEF Tick, GiveUp, Push, vars
  <1> QED
    BY <1>1, <1>2, <1>4, <1>6, <1>7 DEF Next

\* Pushes are only ever counted up.
LEMMA PushesGrow ==
    ASSUME IInv, [Next]_vars, NEW id \in RunIds
    PROVE  /\ pushes[id] \in Nat /\ pushes'[id] \in Nat /\ pushes[id] <= pushes'[id]
           /\ \A h \in Handlers : Push(id, h) => pushes'[id] = pushes[id] + 1
  <1>1. pushes[id] \in Nat /\ pushes \in [RunIds -> 0..MaxPushes]
    BY RunStoreAssumption DEF IInv, TypeOK
  <1>2. ASSUME NEW i \in RunIds, NEW h \in Handlers, Push(i, h)
        PROVE  pushes' = [pushes EXCEPT ![i] = @ + 1]
    BY <1>2 DEF Push
  <1>3. CASE \E i \in RunIds, h \in Handlers : Push(i, h)
    BY <1>1, <1>2, <1>3
  <1>4. CASE UNCHANGED pushes
    BY <1>1, <1>2, <1>4
  <1>5. CASE Tick \/ Restart \/ ReadRows \/ (\E i \in RunIds : GiveUp(i) \/ ReadRow(i))
                \/ (\E h \in Handlers : HandlerStep(h)) \/ UNCHANGED vars
    BY <1>4, <1>5, HandlerStepMoves DEF Tick, Restart, ReadRows, GiveUp, ReadRow, vars, pushVars
  <1> QED
    BY <1>3, <1>5 DEF Next

LEMMA NumbersNext ==
    ASSUME IInv, NumbersInv, [Next]_vars
    PROVE  NumbersInv'
  <1>1. ASSUME NEW h \in Handlers, handler'[h].pc # "idle"
        PROVE  handler'[h].rep.no <= pushes'[handler'[h].rep.id]
    <2>1. CASE Serving(h) /\ handler'[h].rep = handler[h].rep
      <3>1. Rep(h) \in Report /\ Rep(h).id \in RunIds /\ Rep(h).no \in 1..MaxPushes
        BY <2>1, ServingType, ReportType DEF IInv
      <3>2. Rep(h).no <= pushes[Rep(h).id]
        BY <2>1 DEF NumbersInv
      <3>3. pushes[Rep(h).id] \in Nat /\ pushes'[Rep(h).id] \in Nat /\ pushes[Rep(h).id] <= pushes'[Rep(h).id]
        BY <3>1, PushesGrow
      <3>4. Rep(h).no \in Nat
        BY <3>1, RunStoreAssumption
      <3>5. Rep(h).no <= pushes'[Rep(h).id]
        BY <3>2, <3>3, <3>4
      <3> QED
        BY <2>1, <3>5 DEF Rep
    <2>2. CASE \E id \in RunIds : Push(id, h) /\ handler'[h].rep.id = id
                                  /\ handler'[h].rep.no = pushes[id] + 1
      <3>1. PICK id \in RunIds : Push(id, h) /\ handler'[h].rep.id = id
                                  /\ handler'[h].rep.no = pushes[id] + 1
        BY <2>2
      <3>2. pushes[id] \in Nat /\ pushes'[id] = pushes[id] + 1
        BY <3>1, PushesGrow
      <3> QED
        BY <3>1, <3>2
    <2> QED
      BY <1>1, <2>1, <2>2, Moves
  <1>2. ASSUME NEW g \in Handlers, NEW h \in Handlers, g # h,
               handler'[g].pc # "idle", handler'[h].pc # "idle",
               NEW id \in RunIds, Push(id, g), handler'[g].rep.id = id,
               handler'[g].rep.no = pushes[id] + 1
        PROVE  handler'[g].rep # handler'[h].rep
    <2>1. handler'[h] = handler[h]
      BY <1>2 DEF Push, IInv, TypeOK
    <2>2. Serving(h)
      BY <1>2, <2>1 DEF Serving
    <2>3. Rep(h).no <= pushes[Rep(h).id] /\ Rep(h).no \in 1..MaxPushes
      BY <2>2, ServingType, ReportType DEF NumbersInv, IInv
    <2>4. Rep(h).id = id => Rep(h).no # pushes[id] + 1
      BY <2>3, RunStoreAssumption DEF IInv, TypeOK
    <2> QED
      BY <1>2, <2>1, <2>4 DEF Rep
  <1>3. ASSUME NEW g \in Handlers, NEW h \in Handlers,
               handler'[g].pc # "idle", handler'[h].pc # "idle", handler'[g].rep = handler'[h].rep
        PROVE  g = h
    <2>1. CASE /\ Serving(g) /\ handler'[g].rep = handler[g].rep
               /\ Serving(h) /\ handler'[h].rep = handler[h].rep
      BY <1>3, <2>1 DEF NumbersInv, Rep
    <2>2. CASE \E id \in RunIds : /\ Push(id, g) /\ handler'[g].rep.id = id
                                  /\ handler'[g].rep.no = pushes[id] + 1
      BY <1>2, <1>3, <2>2
    <2>3. CASE \E id \in RunIds : /\ Push(id, h) /\ handler'[h].rep.id = id
                                  /\ handler'[h].rep.no = pushes[id] + 1
      BY <1>2, <1>3, <2>3
    <2>4. \/ Serving(g) /\ handler'[g].rep = handler[g].rep
          \/ \E id \in RunIds : /\ Push(id, g) /\ handler'[g].rep.id = id
                                /\ handler'[g].rep.no = pushes[id] + 1
      BY <1>3, Moves
    <2>5. \/ Serving(h) /\ handler'[h].rep = handler[h].rep
          \/ \E id \in RunIds : /\ Push(id, h) /\ handler'[h].rep.id = id
                                /\ handler'[h].rep.no = pushes[id] + 1
      BY <1>3, Moves
    <2> QED
      BY <2>1, <2>2, <2>3, <2>4, <2>5
  <1> QED
    BY <1>1, <1>3 DEF NumbersInv, Serving, Rep

\* Samples are appended by a handler whose report is recorded and has none yet.
LEMMA SamplesSteps ==
    ASSUME IInv, [Next]_vars
    PROVE  \/ UNCHANGED samples
           \/ samples' = <<>>
           \/ \E h \in Handlers :
                  /\ handler[h].pc = "samples" /\ samples' = Append(samples, Rep(h))
                  /\ handler' = [handler EXCEPT ![h] = [handler[h] EXCEPT !.pc = "created"]]
                  /\ UNCHANGED <<pushes, recorded>>
  <1>1. ASSUME NEW h \in Handlers, HandlerStep(h)
        PROVE  UNCHANGED samples \/ AppendSamples(h)
    BY <1>1 DEF HandlerStep, Statement, MemRecord, Commit, Upsert, DeleteRows, InsertRow, Rollback,
                BeginFails, SkipSamples, ReplyCreated, ReplyError
  <1>2. ASSUME NEW h \in Handlers, AppendSamples(h)
        PROVE  /\ handler[h].pc = "samples" /\ samples' = Append(samples, Rep(h))
               /\ handler' = [handler EXCEPT ![h] = [handler[h] EXCEPT !.pc = "created"]]
               /\ UNCHANGED <<pushes, recorded>>
    <2>1. Serving(h) /\ "created" \in HandlerPcs
      BY <1>2 DEF AppendSamples, Serving, HandlerPcs
    <2> QED
      BY <1>2, <2>1, GotoType DEF AppendSamples, IInv, pushVars
  <1>3. CASE Tick \/ Restart \/ ReadRows \/ (\E i \in RunIds : GiveUp(i) \/ ReadRow(i))
                \/ (\E i \in RunIds, h \in Handlers : Push(i, h)) \/ UNCHANGED vars
    BY <1>3 DEF Tick, Restart, ReadRows, GiveUp, ReadRow, Push, vars
  <1> QED
    BY <1>1, <1>2, <1>3 DEF Next

\* Samples that stay are of reports that stay recorded.
LEMMA SamplesKept ==
    ASSUME IInv, SampleInv, [Next]_vars, UNCHANGED samples
    PROVE  SampleInv'
  <1>1. samples \in Seq(Report)
    BY DEF IInv, TypeOK
  <1>2. ASSUME NEW i \in DOMAIN samples
        PROVE  /\ samples[i] \in Report /\ samples[i].id \in RunIds /\ samples[i].no \in Nat
               /\ samples[i].no <= pushes[samples[i].id] /\ Recorded(samples[i])
    <2>1. samples[i] \in Report
      BY <1>1, <1>2
    <2> QED
      BY <2>1, <1>2, ReportType, RunStoreAssumption DEF SampleInv
  <1>3. ASSUME NEW i \in DOMAIN samples'
        PROVE  \E k \in DOMAIN recorded'[samples'[i].id] : recorded'[samples'[i].id][k] = samples'[i]
    <2>1. i \in DOMAIN samples /\ samples'[i] = samples[i]
      OBVIOUS
    <2>2. CASE Grows
      BY <1>2, <2>1, <2>2, RecordedStays
    <2>3. CASE Forgets
      BY <1>3, <2>3 DEF Forgets
    <2> QED
      BY <2>2, <2>3, HistoryGrows
  <1>4. ASSUME NEW i \in DOMAIN samples'
        PROVE  samples'[i].no <= pushes'[samples'[i].id]
    <2>1. i \in DOMAIN samples /\ samples'[i] = samples[i]
      OBVIOUS
    <2>2. /\ pushes[samples[i].id] \in Nat /\ pushes'[samples[i].id] \in Nat
          /\ pushes[samples[i].id] <= pushes'[samples[i].id]
      BY <1>2, <2>1, PushesGrow
    <2> QED
      BY <1>2, <2>1, <2>2
  <1>5. ASSUME NEW h \in Handlers, handler'[h].pc # "idle", handler'[h].pc # "created",
               NEW i \in DOMAIN samples'
        PROVE  samples'[i] # handler'[h].rep
    <2>1. i \in DOMAIN samples /\ samples'[i] = samples[i]
      OBVIOUS
    <2>2. CASE Serving(h) /\ handler'[h].rep = handler[h].rep /\ handler[h].pc # "created"
      BY <2>1, <2>2 DEF SampleInv, Rep
    <2>3. CASE \E id \in RunIds : handler'[h].rep.id = id /\ handler'[h].rep.no = pushes[id] + 1
      <3>1. PICK id \in RunIds : handler'[h].rep.id = id /\ handler'[h].rep.no = pushes[id] + 1
        BY <2>3
      <3>2. pushes[id] \in Nat
        BY PushesGrow
      <3>3. samples[i].id = id => samples[i].no # pushes[id] + 1
        BY <1>2, <2>1, <3>2
      <3> QED
        BY <2>1, <3>1, <3>3
    <2> QED
      BY <1>5, <2>2, <2>3, Moves
  <1> QED
    BY <1>3, <1>4, <1>5 DEF SampleInv, Recorded, Serving, Rep

\* Appended samples are of a recorded report that had none.
LEMMA SamplesAppended ==
    ASSUME IInv, HandlersRecorded, NumbersInv, SampleInv, NEW h \in Handlers,
           handler[h].pc = "samples", samples' = Append(samples, Rep(h)),
           handler' = [handler EXCEPT ![h] = [handler[h] EXCEPT !.pc = "created"]],
           UNCHANGED <<pushes, recorded>>
    PROVE  SampleInv'
  <1> DEFINE rep == Rep(h)
             n   == Len(samples) + 1
  <1>1. /\ Serving(h) /\ rep \in Report /\ handler[h] \in BusyHandler
        /\ Recorded(rep) /\ rep.no <= pushes[rep.id]
    BY ServingType DEF IInv, Serving, HandlersRecorded, NumbersInv
  <1>2. \A i \in DOMAIN samples : samples[i] # rep
    BY <1>1 DEF SampleInv
  <1>3. \A g \in Handlers \ {h} : Serving(g) => handler[g].rep # rep
    BY <1>1 DEF NumbersInv, Rep
  <1>4. handler'[h].pc = "created" /\ \A g \in Handlers \ {h} : handler'[g] = handler[g]
    BY <1>1 DEF IInv, TypeOK, BusyHandler
  <1>5. samples \in Seq(Report) /\ samples' = Append(samples, rep)
    BY DEF IInv, TypeOK
  <1> HIDE DEF rep
  <1>6. /\ DOMAIN samples' = 1..n /\ DOMAIN samples = 1..(n - 1) /\ n \in Nat
        /\ samples'[n] = rep /\ \A i \in 1..(n - 1) : samples'[i] = samples[i]
    BY <1>1, <1>5
  <1> HIDE DEF n
  <1>7. \A i \in DOMAIN samples' : i = n \/ (i \in DOMAIN samples /\ samples'[i] = samples[i])
    BY <1>6
  <1>8. ASSUME NEW i \in DOMAIN samples'
        PROVE  /\ \E k \in DOMAIN recorded[samples'[i].id] : recorded[samples'[i].id][k] = samples'[i]
               /\ samples'[i].no <= pushes[samples'[i].id]
    <2>1. CASE i = n
      BY <1>1, <1>6, <2>1 DEF Recorded
    <2>2. CASE i \in DOMAIN samples /\ samples'[i] = samples[i]
      BY <2>2 DEF SampleInv, Recorded
    <2> QED
      BY <1>7, <2>1, <2>2
  <1>9. ASSUME NEW g \in Handlers, handler'[g].pc # "idle", handler'[g].pc # "created",
               NEW i \in DOMAIN samples'
        PROVE  samples'[i] # handler'[g].rep
    <2>1. g # h /\ handler'[g] = handler[g] /\ Serving(g)
      BY <1>4, <1>9 DEF Serving
    <2>2. CASE i = n
      BY <1>3, <1>6, <2>1, <2>2
    <2>3. CASE i \in DOMAIN samples /\ samples'[i] = samples[i]
      BY <1>9, <2>1, <2>3 DEF SampleInv, Rep
    <2> QED
      BY <1>7, <2>2, <2>3
  <1>10. ASSUME NEW i \in DOMAIN samples', NEW j \in DOMAIN samples', samples'[i] = samples'[j]
         PROVE  i = j
    BY <1>2, <1>6, <1>7, <1>10 DEF SampleInv
  <1> QED
    BY <1>8, <1>9, <1>10 DEF SampleInv, Recorded, Serving, Rep

LEMMA SampleNext ==
    ASSUME IInv, HandlersRecorded, NumbersInv, SampleInv, [Next]_vars
    PROVE  SampleInv'
  <1>1. CASE samples' = <<>>
    BY <1>1 DEF SampleInv
  <1> QED
    BY <1>1, SamplesKept, SamplesAppended, SamplesSteps
-----------------------------------------------------------------------------
LEMMA HistoryInit == Init => HistoryInv
  <1> SUFFICES ASSUME Init PROVE HistoryInv
    OBVIOUS
  <1>1. TablesHoldTheLast
    BY DEF Init, TablesHoldTheLast
  <1>2. HandlersRecorded /\ AckedRecorded /\ NumbersInv
    BY DEF Init, HandlersRecorded, AckedRecorded, NumbersInv, Serving, Idle
  <1>3. ReaderInv
    BY DEF Init, ReaderInv, ReadsGoForward, Idle
  <1>4. SampleInv
    BY DEF Init, SampleInv
  <1> QED
    BY <1>1, <1>2, <1>3, <1>4 DEF HistoryInv

LEMMA HistoryNext == IInv /\ HistoryInv /\ [Next]_vars => HistoryInv'
  BY TablesNext, HandlersNext, AckedNext, ReaderNext, NumbersNext, SampleNext DEF HistoryInv

\* What is in the tables, in flight and answered agrees with the history of
\* recorded reports.
THEOREM HistoryInvariance == Spec => []HistoryInv
  <1> QED
    BY HistoryInit, HistoryNext, Invariance, PTL DEF Spec

\* GET /runs/{id}: what two queries of Postgres return was recorded under the
\* id, and the checks are never older than the row.
THEOREM ReadsGoForwardHolds == Spec => []ReadsGoForward
  <1>1. HistoryInv => ReadsGoForward
    BY DEF HistoryInv, ReaderInv
  <1> QED
    BY <1>1, HistoryInvariance, PTL

\* A report answered with 201 is recorded, and what the table holds was
\* recorded no earlier.
THEOREM AckedSurvivesHolds == Spec => []AckedSurvives
  <1>1. TypeOK /\ HistoryInv => AckedSurvives
    <2> SUFFICES ASSUME TypeOK, HistoryInv, backend = "postgres", NEW rep \in acked
                 PROVE  \E k \in DOMAIN recorded[rep.id] :
                            /\ recorded[rep.id][k] = rep
                            /\ runs[rep.id] # NoRun
                            /\ \E j \in k..Len(recorded[rep.id]) : runs[rep.id].rep = recorded[rep.id][j]
      BY DEF AckedSurvives
    <2> DEFINE id == rep.id
    <2>1. id \in RunIds /\ recorded[id] \in Seq(Report)
      BY ReportType DEF TypeOK
    <2>2. PICK k \in DOMAIN recorded[id] : recorded[id][k] = rep
      BY DEF HistoryInv, AckedRecorded, Recorded
    <2>3. k \in 1..Len(recorded[id]) /\ Len(recorded[id]) \in k..Len(recorded[id]) /\ recorded[id] # <<>>
      BY <2>1, <2>2
    <2>4. runs[id] # NoRun /\ runs[id].rep = recorded[id][Len(recorded[id])]
      BY <2>1, <2>3 DEF HistoryInv, TablesHoldTheLast
    <2> QED
      BY <2>2, <2>3, <2>4
  <1> QED
    BY <1>1, HistoryInvariance, TypeCorrect, PTL

\* AppendCheckSamples: each stored sample belongs to a recorded snapshot and no
\* snapshot has its samples twice.
THEOREM SamplesOfRecordedRunsHold == Spec => []SamplesOfRecordedRuns
  <1>1. HistoryInv => SamplesOfRecordedRuns
    BY DEF HistoryInv, SampleInv, Recorded, SamplesOfRecordedRuns
  <1> QED
    BY <1>1, HistoryInvariance, PTL
=============================================================================
