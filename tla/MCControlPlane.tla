--------------------------- MODULE MCControlPlane ---------------------------
(***************************************************************************)
(* Instances of ControlPlane and of StorageBackends for model checking.    *)
(* Their state is disjoint; the initial state decides which of them runs.  *)
(***************************************************************************)
EXTENDS ControlPlane, StorageBackends, TLC

CONSTANTS s1, s2, m1, m2, na, nb, nc, good, evald, plain, broken, unfit, samechecks, sameevals,
          admin, worker, r1, r2, w, d1, d2, i1, i2

VARIABLE part

MCMigrations == <<m1, m2>>
MCNames == <<na, nb, nc>>
MCNameOf == (good :> na) @@ (evald :> nb) @@ (plain :> nc) @@ (broken :> NoName) @@ (unfit :> NoName) @@
            (samechecks :> na) @@ (sameevals :> na)
MCAdmin == (s1 :> admin) @@ (s2 :> admin)
MCWorker == (s1 :> worker) @@ (s2 :> NoSecret)
MCSeed == <<broken, evald, plain>>

\* Reports that name a check or an eval once, and twice.
Row(c, passed) == [name |-> c, passed |-> passed]
MCCheckResults == {<<Row(2, FALSE), Row(1, TRUE)>>, <<Row(1, TRUE), Row(1, FALSE)>>}
MCEvalResults == {<<2, 1>>, <<1, 1>>}

Up(n, d, id) == [tool |-> "upsert_scenario", name |-> n, doc |-> d, id |-> id]
As(n, x, id) == [tool |-> "assign_scenario", name |-> n, worker |-> x, id |-> id]
Rd(t) == [tool |-> t, id |-> TRUE]
Mcp(bt) == [kind |-> "mcp", batch |-> bt]
Save(d, dry) == [kind |-> "create", doc |-> d, dry |-> dry]
Replace(d)   == [kind |-> "update", doc |-> d, name |-> na]
Ask(s, cs, ks) == {[server |-> s, secret |-> k, call |-> x] : k \in ks, x \in cs}

\* r1 goes to s1 with the bootstrap tokens, r2 to s2 with r1's token as well.
MCAsks ==
    (r1 :> Ask(s1, {[kind |-> "issue", role |-> "editor"], [kind |-> "issue", role |-> "owner"],
                    [kind |-> "revoke", id |-> 1], Save(good, FALSE), Save(good, TRUE),
                    Mcp(<<Up(na, evald, FALSE), As(na, w, TRUE)>>)}, {admin})
           \cup Ask(s1, {[kind |-> "get", name |-> na]}, {worker, NoSecret})) @@
    (r2 :> Ask(s2, {Replace(evald), Mcp(<<Rd("read"), Rd("nothing"), Up(na, broken, TRUE)>>)}, {admin, worker, r1})
           \cup Ask(s2, {Save(unfit, FALSE), Save(evald, FALSE), Save(samechecks, FALSE), Save(sameevals, FALSE),
                         [kind |-> "get", name |-> na], [kind |-> "revoke", id |-> 2], Mcp(<<>>)}, {admin}))

Init ==
    /\ ControlPlaneInit /\ StoresInit
    /\ \/ part = "cluster"
       \/ part = "stores" /\ auth /\ applied # {}

Next ==
    \/ part = "cluster" /\ ControlPlaneNext /\ UNCHANGED <<part, storeVars>>
    \/ part = "stores" /\ StoresNext /\ UNCHANGED <<part, allVars>>

Spec == Init /\ [][Next]_<<allVars, storeVars, part>> /\ StartFairness

\* Types of both parts (the phases, tables and requests of the replicas, the
\* maps and tables of the stores).
TypeOK == ControlPlaneTypeOK /\ StoresTypeOK
=============================================================================
