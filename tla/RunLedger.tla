----------------------------- MODULE RunLedger -----------------------------
(***************************************************************************)
(* What the control plane promises about recorded runs (the Storage        *)
(* contract, pkg/controlplane/storage/storage.go): a run id holds one      *)
(* report and exactly that report's check rows, recording replaces both at *)
(* once, and nothing else changes them.  Which of the two started_at of a  *)
(* run recorded twice survives is left open, because the backends differ.  *)
(***************************************************************************)
CONSTANTS
    RunIds,     \* ids of runs
    NoRun,      \* nothing is recorded under an id
    Report      \* the reports that can be pushed; rep.id is the run id

VARIABLES
    ledger,     \* run id -> [rep, started, rows] or NoRun
    durable     \* the ledger survives a restart of the server

LedgerInit ==
    /\ ledger = [id \in RunIds |-> NoRun]
    /\ durable \in BOOLEAN

\* The entry of a run that is recorded for the first time or replaced.
Entry(rep, started) == [rep |-> rep, started |-> started, rows |-> rep.rows]

Record(rep) ==
    /\ \/ ledger' = [ledger EXCEPT ![rep.id] = Entry(rep, rep.started)]
       \/ /\ ledger[rep.id] # NoRun
          /\ ledger' = [ledger EXCEPT ![rep.id] = Entry(rep, @.started)]
    /\ UNCHANGED durable

Forget ==
    /\ ~durable
    /\ ledger' = [id \in RunIds |-> NoRun]
    /\ UNCHANGED durable

LedgerNext == Forget \/ \E rep \in Report : Record(rep)

LedgerSpec == LedgerInit /\ [][LedgerNext]_<<ledger, durable>>
=============================================================================
