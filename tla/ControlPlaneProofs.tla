------------------------- MODULE ControlPlaneProofs -------------------------
(***************************************************************************)
(* Proofs about the replicas of the control plane and the requests they    *)
(* serve (ServerStart, ControlPlane), for all servers, migrations, tokens, *)
(* documents, batches and requests.                                        *)
(***************************************************************************)
EXTENDS ControlPlane, FiniteSetTheorems, TLAPS

-----------------------------------------------------------------------------
(* Migrations                                                              *)

LEMMA MigrationFacts ==
    /\ Len(Migrations) \in Nat /\ DOMAIN Migrations = 1..Len(Migrations)
    /\ \A j \in 1..Len(Migrations) : Migrations[j] \in Range(Migrations)
    /\ Range(Migrations) = {Migrations[j] : j \in 1..Len(Migrations)}
    /\ Len(SeedDir) \in Nat /\ DOMAIN SeedDir = 1..Len(SeedDir) /\ \A j \in 1..Len(SeedDir) : SeedDir[j] \in Docs
  <1>1. Migrations \in Seq(Range(Migrations)) /\ SeedDir \in Seq(Docs)
    BY ServerStartAssumption
  <1>2. Len(Migrations) \in Nat /\ DOMAIN Migrations = 1..Len(Migrations)
        /\ Len(SeedDir) \in Nat /\ DOMAIN SeedDir = 1..Len(SeedDir) /\ \A j \in 1..Len(SeedDir) : SeedDir[j] \in Docs
    BY <1>1
  <1> QED
    BY <1>2 DEF Range

\* A step of a replica that leaves the schema alone.
LEMMA GotoKeeps ==
    ASSUME StartInv, NEW s \in Servers, NEW p \in Phases, NEW i \in Nat, Goto(s, p, i),
           UNCHANGED <<applied, bodies>>,
           p \in {"look", "apply"} => /\ i \in 1..Len(Migrations) + 1 /\ (p = "apply" => i <= Len(Migrations))
                                      /\ {Migrations[j] : j \in 1..i - 1} \subseteq applied,
           p \in {"tokens", "seed", "worker", "demo", "serving"} => applied = Range(Migrations)
    PROVE  StartInv'
  <1>1. phase' \in [Servers -> Phases] /\ at' \in [Servers -> Nat]
        /\ \A x \in Servers : phase'[x] = (IF x = s THEN p ELSE phase[x]) /\ at'[x] = (IF x = s THEN i ELSE at[x])
    BY DEF StartInv, Goto
  <1>2. MigrationsOnce'
    BY <1>1 DEF StartInv, MigrationsOnce
  <1>3. MigrationInv'
    BY <1>1 DEF StartInv, MigrationInv
  <1> QED
    BY <1>1, <1>2, <1>3 DEF StartInv

\* A migration is committed: it is the next in order.
LEMMA ApplyKeeps ==
    ASSUME StartInv, NEW s \in Servers, Apply(s)
    PROVE  StartInv'
  <1>1. PICK i, m : i = at[s] /\ m = Migrations[i]
    OBVIOUS
  <1>2. /\ phase[s] = "apply" /\ m \notin applied /\ applied' = applied \cup {m}
        /\ bodies' = [bodies EXCEPT ![m] = @ + 1] /\ Goto(s, "look", i + 1)
    BY <1>1 DEF Apply, Records
  <1>3. i \in Nat /\ i >= 1 /\ i <= Len(Migrations) /\ Len(Migrations) \in Nat
        /\ {Migrations[j] : j \in 1..i - 1} \subseteq applied /\ m \in Range(Migrations)
    BY <1>1, <1>2, MigrationFacts DEF StartInv, MigrationInv
  <1>4. PICK k \in 0..Len(Migrations) : applied = {Migrations[j] : j \in 1..k}
    BY DEF StartInv, MigrationsOnce
  <1>5. ~(i \in 1..k)
    BY <1>1, <1>2, <1>4
  <1>6. applied = {Migrations[j] : j \in 1..i - 1}
    BY <1>3, <1>4, <1>5
  <1>7. applied' = {Migrations[j] : j \in 1..i}
    <2>1. \A j \in 1..i : j \in 1..i - 1 \/ j = i
      BY <1>3
    <2>2. 1..i - 1 \subseteq 1..i /\ i \in 1..i
      BY <1>3
    <2> QED
      BY <1>1, <1>2, <1>6, <2>1, <2>2
  <1>8. /\ phase' \in [Servers -> Phases] /\ at' \in [Servers -> Nat]
        /\ \A x \in Servers : phase'[x] = (IF x = s THEN "look" ELSE phase[x])
                              /\ at'[x] = (IF x = s THEN i + 1 ELSE at[x])
    BY <1>2, <1>3 DEF StartInv, Goto, Phases
  <1>9. \A x \in Range(Migrations) : bodies[x] = IF x \in applied THEN 1 ELSE 0
    BY DEF StartInv, MigrationsOnce
  <1>10. bodies \in [Range(Migrations) -> Nat] /\ applied \subseteq Range(Migrations)
    BY DEF StartInv
  <1>11. bodies' \in [Range(Migrations) -> Nat]
         /\ \A x \in Range(Migrations) : bodies'[x] = IF x \in applied' THEN 1 ELSE 0
    BY <1>2, <1>3, <1>9, <1>10
  <1>12. \A x \in Servers : phase[x] \notin {"tokens", "seed", "worker", "demo", "serving"}
    BY <1>2, <1>3 DEF StartInv, MigrationsOnce
  <1>13. MigrationsOnce'
    <2>1. i \in 0..Len(Migrations)
      BY <1>3
    <2> QED
      BY <1>7, <1>8, <1>11, <1>12, <2>1 DEF MigrationsOnce
  <1>14. MigrationInv'
    <2>1. SUFFICES ASSUME NEW x \in Servers, phase'[x] \in {"look", "apply"}
                   PROVE  /\ at'[x] \in 1..Len(Migrations) + 1 /\ (phase'[x] = "apply" => at'[x] <= Len(Migrations))
                          /\ {Migrations[j] : j \in 1..at'[x] - 1} \subseteq applied'
      BY DEF MigrationInv
    <2>2. CASE x = s
      <3>1. at'[x] = i + 1 /\ phase'[x] = "look" /\ (i + 1) - 1 = i /\ i + 1 \in 1..Len(Migrations) + 1
        BY <1>3, <1>8, <2>2
      <3> QED
        BY <1>7, <3>1
    <2>3. CASE x # s
      BY <1>2, <1>8, <2>1, <2>3 DEF StartInv, MigrationInv
    <2> QED
      BY <2>2, <2>3
  <1> QED
    BY <1>2, <1>3, <1>8, <1>10, <1>11, <1>13, <1>14 DEF StartInv

LEMMA StartStepKeeps ==
    ASSUME StartInv, NEW s \in Servers, StartStep(s) \/ StartFault(s)
    PROVE  StartInv'
  <1>1. PICK i \in Nat : i = at[s]
    BY DEF StartInv
  <1>2. phase[s] \in {"tokens", "seed", "worker", "demo", "serving"} => applied = Range(Migrations)
    BY DEF StartInv, MigrationsOnce
  <1>3. phase[s] \in {"look", "apply"} =>
            /\ i \in 1..Len(Migrations) + 1 /\ (phase[s] = "apply" => i <= Len(Migrations))
            /\ {Migrations[j] : j \in 1..i - 1} \subseteq applied
    BY <1>1 DEF StartInv, MigrationInv
  <1>4. CASE Open(s)
    <2>1. 1 \in 1..Len(Migrations) + 1 /\ {Migrations[j] : j \in 1..1 - 1} \subseteq applied
      BY MigrationFacts
    <2> QED
      BY <1>4, <2>1, GotoKeeps DEF Open, Phases
  <1>5. CASE LookUp(s) \/ LookUpErrs(s)
    <2>1. /\ phase[s] = "look" /\ i \in 1..Len(Migrations) /\ UNCHANGED <<applied, bodies>>
          /\ \/ Goto(s, "apply", i)
             \/ Goto(s, "look", i + 1) /\ Migrations[i] \in applied
      BY <1>1, <1>5, MigrationFacts DEF LookUp, LookUpErrs
    <2>2. CASE Goto(s, "apply", i)
      BY <1>3, <2>1, <2>2, GotoKeeps DEF Phases
    <2>3. CASE Goto(s, "look", i + 1) /\ Migrations[i] \in applied
      <3>1. i + 1 \in Nat /\ i + 1 \in 1..Len(Migrations) + 1
        BY <2>1, MigrationFacts
      <3>2. {Migrations[j] : j \in 1..(i + 1) - 1} \subseteq applied
        <4>1. \A j \in 1..(i + 1) - 1 : j \in 1..i - 1 \/ j = i
          OBVIOUS
        <4> QED
          BY <1>3, <2>1, <2>3, <4>1
      <3> QED
        BY <2>1, <2>3, <3>1, <3>2, GotoKeeps DEF Phases
    <2> QED
      BY <2>1, <2>2, <2>3
  <1>6. CASE Apply(s)
    BY <1>6, ApplyKeeps
  <1>7. CASE Migrated(s)
    <2>1. phase[s] = "look" /\ i > Len(Migrations) /\ Goto(s, "tokens", 1) /\ UNCHANGED <<applied, bodies>>
      BY <1>1, <1>7 DEF Migrated
    <2>2. i - 1 = Len(Migrations)
      BY <1>3, <2>1, MigrationFacts
    <2>3. applied = Range(Migrations)
      BY <1>3, <2>1, <2>2, MigrationFacts DEF StartInv
    <2> QED
      BY <2>1, <2>3, GotoKeeps DEF Phases
  <1>8. CASE ApplyConflicts(s) \/ DemoRefused(s) \/ StartErrs(s)
    <2>1. Goto(s, "failed", 0) /\ UNCHANGED <<applied, bodies>>
      BY <1>8 DEF ApplyConflicts, DemoRefused, StartErrs
    <2> QED
      BY <2>1, GotoKeeps DEF Phases
  <1>9. CASE Exit(s)
    BY <1>9, GotoKeeps DEF Exit, Phases
  <1>10. CASE BootstrapToken(s) \/ BootstrapErrs(s) \/ Bootstrapped(s)
    <2>1. /\ phase[s] = "tokens" /\ UNCHANGED <<applied, bodies>>
          /\ Goto(s, "tokens", i + 1) \/ Goto(s, "seed", 1)
      BY <1>1, <1>10 DEF BootstrapToken, BootstrapErrs, Bootstrapped
    <2>2. i + 1 \in Nat
      OBVIOUS
    <2> QED
      BY <1>2, <2>1, <2>2, GotoKeeps DEF Phases
  <1>11. CASE SeedScenario(s) \/ Seeded(s)
    <2>1. /\ phase[s] = "seed" /\ UNCHANGED <<applied, bodies>>
          /\ Goto(s, "seed", i + 1) \/ Goto(s, "worker", 0) \/ Goto(s, "serving", 0)
      BY <1>1, <1>11 DEF SeedScenario, Seeded
    <2>2. i + 1 \in Nat
      OBVIOUS
    <2> QED
      BY <1>2, <2>1, <2>2, GotoKeeps DEF Phases
  <1>12. CASE DemoBegins(s) \/ DemoRecords(s) \/ DemoEnds(s)
    <2>1. /\ phase[s] \in {"worker", "demo"} /\ UNCHANGED <<applied, bodies>>
          /\ Goto(s, "demo", 1) \/ Goto(s, "demo", i + 1) \/ Goto(s, "serving", 0)
      BY <1>1, <1>12 DEF DemoBegins, DemoRecords, DemoEnds
    <2>2. i + 1 \in Nat
      OBVIOUS
    <2> QED
      BY <1>2, <2>1, <2>2, GotoKeeps DEF Phases
  <1> QED
    BY <1>4, <1>5, <1>6, <1>7, <1>8, <1>9, <1>10, <1>11, <1>12 DEF StartStep, StartFault

LEMMA StartUnchanged ==
    ASSUME StartInv, UNCHANGED startVars
    PROVE  StartInv'
  BY DEF startVars, StartInv, MigrationsOnce, MigrationInv

LEMMA StartBegins ==
    ASSUME StartInit
    PROVE  StartInv
  <1>1. at = [s \in Servers |-> 0] /\ Len(Migrations) \in Nat
    BY MigrationFacts DEF StartInit
  <1>2. CASE ColdStart
    <2>1. applied = {Migrations[j] : j \in 1..0} /\ 0 \in 0..Len(Migrations)
      BY <1>1, <1>2 DEF ColdStart
    <2> QED
      BY <1>1, <1>2, <2>1 DEF ColdStart, StartInv, MigrationsOnce, MigrationInv, Phases
  <1>3. CASE WarmStart
    <2>1. applied = {Migrations[j] : j \in 1..Len(Migrations)} /\ Len(Migrations) \in 0..Len(Migrations)
      BY <1>1, <1>3, MigrationFacts DEF WarmStart
    <2> QED
      BY <1>1, <1>3, <2>1 DEF WarmStart, StartInv, MigrationsOnce, MigrationInv, Phases
  <1> QED
    BY <1>2, <1>3 DEF StartInit
-----------------------------------------------------------------------------
(* Versions                                                                *)

\* A saved document gets a version nobody was shown.
LEMMA UpsertKeeps ==
    ASSUME CatalogInv, NEW n \in Names, NEW d \in Docs, Upsert(n, d)
    PROVE  CatalogInv'
  <1>1. PICK v \in Nat : v = catalog[n].version
    BY DEF CatalogInv
  <1>2. PICK row, entry : row = [version |-> v + 1, doc |-> d] /\ entry = [name |-> n, version |-> v + 1, doc |-> d]
    OBVIOUS
  <1>3. catalog' = [catalog EXCEPT ![n] = row] /\ saved' = saved \cup {entry}
    BY <1>1, <1>2 DEF Upsert
  <1>4. catalog' \in [Names -> [version : Nat, doc : Docs \cup {NoDoc}]]
        /\ \A x \in Names : catalog'[x] = IF x = n THEN row ELSE catalog[x]
    BY <1>2, <1>3 DEF CatalogInv
  <1>5. saved' \subseteq [name : Names, version : Nat, doc : Docs \cup {NoDoc}]
    BY <1>2, <1>3 DEF CatalogInv
  <1>6. \A a \in saved : a.name = n => a.version <= v
    BY <1>1 DEF CatalogInv, VersionNamesOneDocument
  <1>7. \A a \in saved : a.name \in Names /\ a.version \in Nat
    BY DEF CatalogInv
  <1>8. \A a, b \in saved' : a.name = b.name /\ a.version = b.version => a.doc = b.doc
    <2>1. \A a, b \in saved : a.name = b.name /\ a.version = b.version => a.doc = b.doc
      BY DEF CatalogInv, VersionNamesOneDocument
    <2>2. \A a \in saved : a.name = n => a.version # v + 1
      BY <1>6, <1>7
    <2> QED
      BY <1>2, <1>3, <2>1, <2>2
  <1>9. ASSUME NEW a \in saved'
        PROVE  /\ a.version <= catalog'[a.name].version
               /\ a.version = catalog'[a.name].version => a.doc = catalog'[a.name].doc
    <2>1. CASE a = entry
      BY <1>2, <1>4, <2>1
    <2>2. CASE a \in saved /\ a.name = n
      <3>1. catalog'[a.name].version = v + 1 /\ a.version <= v /\ a.version \in Nat
        BY <1>2, <1>4, <1>6, <1>7, <2>2
      <3> QED
        BY <3>1
    <2>3. CASE a \in saved /\ a.name # n
      BY <1>4, <1>7, <2>3 DEF CatalogInv, VersionNamesOneDocument
    <2> QED
      BY <1>3, <1>9, <2>1, <2>2, <2>3
  <1> QED
    BY <1>4, <1>5, <1>8, <1>9 DEF CatalogInv, VersionNamesOneDocument

\* A read shows what the table holds.
LEMMA ReadKeeps ==
    ASSUME CatalogInv, NEW n \in Names, catalog' = catalog,
           saved' = saved \cup {[name |-> n, version |-> catalog[n].version, doc |-> catalog[n].doc]}
    PROVE  CatalogInv'
  <1>1. PICK entry : entry = [name |-> n, version |-> catalog[n].version, doc |-> catalog[n].doc]
    OBVIOUS
  <1>2. catalog[n] \in [version : Nat, doc : Docs \cup {NoDoc}]
    BY DEF CatalogInv
  <1>3. saved' \subseteq [name : Names, version : Nat, doc : Docs \cup {NoDoc}]
    BY <1>1, <1>2 DEF CatalogInv
  <1>4. \A a, b \in saved' : a.name = b.name /\ a.version = b.version => a.doc = b.doc
    BY <1>1 DEF CatalogInv, VersionNamesOneDocument
  <1>5. \A a \in saved' : /\ a.version <= catalog[a.name].version
                          /\ a.version = catalog[a.name].version => a.doc = catalog[a.name].doc
    BY <1>1, <1>2 DEF CatalogInv, VersionNamesOneDocument
  <1> QED
    BY <1>3, <1>4, <1>5 DEF CatalogInv, VersionNamesOneDocument

LEMMA CatalogUnchanged ==
    ASSUME CatalogInv, UNCHANGED <<catalog, saved>>
    PROVE  CatalogInv'
  BY DEF CatalogInv, VersionNamesOneDocument

LEMMA CatalogBegins ==
    ASSUME StartInit
    PROVE  CatalogInv
  <1>1. catalog = [n \in Names |-> Absent] /\ saved = {}
    BY DEF StartInit, ColdStart, WarmStart
  <1> QED
    BY <1>1 DEF CatalogInv, VersionNamesOneDocument, Absent

LEMMA CatalogStart ==
    ASSUME CatalogInv, NEW s \in Servers, StartStep(s) \/ StartFault(s)
    PROVE  CatalogInv'
  <1>1. CASE UNCHANGED <<catalog, saved>>
    BY <1>1, CatalogUnchanged
  <1>2. CASE SeedScenario(s)
    <2>1. at[s] \in DOMAIN SeedDir
      BY <1>2 DEF SeedScenario
    <2>2. PICK d \in Docs : d = SeedDir[at[s]]
      BY <2>1, MigrationFacts
    <2>3. CASE d \in Unparsable \/ NameOf[d] = NoName
      BY <1>2, <2>2, <2>3, CatalogUnchanged DEF SeedScenario
    <2>4. CASE ~(d \in Unparsable \/ NameOf[d] = NoName)
      <3>1. NameOf[d] \in Names /\ Upsert(NameOf[d], d)
        BY <1>2, <2>2, <2>4, ServerStartAssumption DEF SeedScenario
      <3> QED
        BY <3>1, UpsertKeeps
    <2> QED
      BY <2>3, <2>4
  <1>3. StartStep(s) \/ StartFault(s) => SeedScenario(s) \/ UNCHANGED <<catalog, saved>>
    BY DEF StartStep, StartFault, Open, LookUp, Apply, ApplyConflicts, Migrated, BootstrapToken, Bootstrapped, Seeded,
           DemoBegins, DemoRecords, DemoRefused, DemoEnds, LookUpErrs, BootstrapErrs, StartErrs, Exit, dbVars
  <1> QED
    BY <1>1, <1>2, <1>3
-----------------------------------------------------------------------------
(* Requests                                                                *)

LEMMA RankFacts ==
    /\ \A role : Rank(role) \in Nat
    /\ Rank("viewer") = 1 /\ Rank("worker") = 2 /\ Rank("editor") = 3 /\ Rank("admin") = 4 /\ Rank(NoRole) = 0
  BY DEF Rank, NoRole

\* Places of a list, those of them that satisfy something.
LEMMA FinitelyMany ==
    ASSUME NEW n \in Nat, NEW A, A \subseteq 1..n
    PROVE  IsFiniteSet(A) /\ Cardinality(A) \in Nat
  <1>1. IsFiniteSet(1..n)
    BY FS_Interval
  <1> QED
    BY <1>1, FS_Subset, FS_CardinalityType

\* Elements of a sequence that are in S, counted.
LEMMA CountAppend ==
    ASSUME NEW T, NEW s \in Seq(T), NEW e \in T, NEW S
    PROVE  Cardinality({i \in DOMAIN Append(s, e) : Append(s, e)[i] \in S})
             = Cardinality({i \in DOMAIN s : s[i] \in S}) + IF e \in S THEN 1 ELSE 0
  <1>0. Append(s, e) \in Seq(T) /\ Len(s) \in Nat
    OBVIOUS
  <1>1. PICK t \in Seq(T), n \in Nat : t = Append(s, e) /\ n = Len(s)
    BY <1>0, Zenon
  <1>2. DOMAIN s = 1..n /\ DOMAIN t = 1..(n + 1) /\ t[n + 1] = e /\ \A i \in 1..n : t[i] = s[i]
    BY <1>1
  <1>3. PICK A, B : A = {i \in 1..n : s[i] \in S} /\ B = {i \in 1..(n + 1) : t[i] \in S}
    OBVIOUS
  <1>4. IsFiniteSet(A)
    BY <1>3, FinitelyMany
  <1>5. B = IF e \in S THEN A \cup {n + 1} ELSE A
    <2>1. \A i \in 1..(n + 1) : i \in 1..n \/ i = n + 1
      OBVIOUS
    <2>2. 1..n \subseteq 1..(n + 1) /\ n + 1 \in 1..(n + 1)
      OBVIOUS
    <2> QED
      BY <1>2, <1>3, <2>1, <2>2
  <1>6. n + 1 \notin A
    BY <1>3
  <1>7. Cardinality(A) \in Nat /\ Cardinality(A \cup {n + 1}) = Cardinality(A) + 1
    BY <1>4, <1>6, FS_CardinalityType, FS_AddElement
  <1>8. Cardinality(B) = Cardinality(A) + IF e \in S THEN 1 ELSE 0
    BY <1>5, <1>7
  <1>9. A = {i \in DOMAIN s : s[i] \in S} /\ B = {i \in DOMAIN t : t[i] \in S}
    BY <1>2, <1>3
  <1> QED
    BY <1>1, <1>7, <1>8, <1>9

LEMMA RequestFacts ==
    ASSUME RequestTypeOK, NEW r \in Requests
    PROVE  /\ req[r] \in RequestType /\ req[r].i \in Nat /\ req[r].role \in Roles \cup {NoRole}
           /\ answers[r] \in Seq(Outcomes) /\ made[r] \in Seq(Changes) /\ Len(made[r]) \in Nat
           /\ held[r] \subseteq Roles
  <1>1. req[r] \in RequestType /\ answers[r] \in Seq(Outcomes) /\ made[r] \in Seq(Changes) /\ held[r] \subseteq Roles
    BY DEF RequestTypeOK
  <1> QED
    BY <1>1 DEF RequestType

LEMMA CountFacts ==
    ASSUME RequestTypeOK, NEW r \in Requests, NEW S
    PROVE  /\ Count(r, S) \in Nat
           /\ answers[r] = <<>> => Count(r, S) = 0
           /\ \A e \in Outcomes : answers'[r] = Append(answers[r], e) =>
                  Count(r, S)' = Count(r, S) + IF e \in S THEN 1 ELSE 0
           /\ answers'[r] = answers[r] => Count(r, S)' = Count(r, S)
  <1>1. answers[r] \in Seq(Outcomes) /\ "ok" \in Outcomes
    BY RequestFacts DEF Outcomes
  <1>2. Count(r, S) \in Nat
    <2>1. PICK s \in Seq(Outcomes) : s = answers[r]
      BY <1>1
    <2>2. DOMAIN s = 1..Len(s) /\ Len(s) \in Nat
      OBVIOUS
    <2>3. Cardinality({i \in DOMAIN s : s[i] \in S}) \in Nat
      BY <2>2, FinitelyMany
    <2> QED
      BY <2>1, <2>3 DEF Count
  <1>3. answers[r] = <<>> => Count(r, S) = 0
    <2>1. answers[r] = <<>> => {i \in DOMAIN answers[r] : answers[r][i] \in S} = {}
      OBVIOUS
    <2> QED
      BY <2>1, FS_EmptySet DEF Count
  <1>4. ASSUME NEW e \in Outcomes, answers'[r] = Append(answers[r], e)
        PROVE  Count(r, S)' = Count(r, S) + IF e \in S THEN 1 ELSE 0
    <2>1. PICK s \in Seq(Outcomes) : s = answers[r]
      BY <1>1
    <2>2. Cardinality({i \in DOMAIN Append(s, e) : Append(s, e)[i] \in S})
            = Cardinality({i \in DOMAIN s : s[i] \in S}) + IF e \in S THEN 1 ELSE 0
      BY CountAppend
    <2> QED
      BY <1>4, <2>1, <2>2 DEF Count
  <1>5. answers'[r] = answers[r] => Count(r, S)' = Count(r, S)
    BY DEF Count
  <1> QED
    BY <1>2, <1>3, <1>4, <1>5

\* A waiting request gathers the roles its token has; later they stay.
LEMMA WitnessFacts ==
    ASSUME RequestTypeOK, Witness, \A k \in DOMAIN tokens' : tokens'[k].role \in Roles
    PROVE  /\ held' \in [Requests -> SUBSET Roles]
           /\ \A r \in Requests : req[r].pc \in {"handle", "done", "lost"} => held'[r] = held[r]
           /\ \A r \in Requests : req[r].pc = "arrived" =>
                  held'[r] = held[r] \cup RoleOf(tokens', req[r].secret)
  <1>1. \A k : RoleOf(tokens, k) \subseteq Roles /\ RoleOf(tokens', k) \subseteq Roles
    BY DEF RoleOf, RequestTypeOK
  <1>2. ASSUME NEW r \in Requests
        PROVE  /\ held'[r] \subseteq Roles
               /\ req[r].pc \in {"handle", "done", "lost"} => held'[r] = held[r]
               /\ req[r].pc = "arrived" => held'[r] = held[r] \cup RoleOf(tokens', req[r].secret)
    <2>1. held'[r] = CASE req[r].pc = "idle" /\ req'[r].pc # "idle" -> RoleOf(tokens, req'[r].secret)
                       [] req[r].pc = "arrived" -> held[r] \cup RoleOf(tokens', req[r].secret)
                       [] OTHER -> held[r]
      BY DEF Witness
    <2>2. held[r] \subseteq Roles
      BY RequestFacts
    <2> QED
      BY <1>1, <2>1, <2>2
  <1>3. held' = [r \in Requests |-> held'[r]]
    BY DEF Witness
  <1> QED
    BY <1>2, <1>3

\* What a step of somebody else's leaves of a request: it goes on, or is lost
\* with its connection.
LEMMA Elsewhere ==
    ASSUME ControlPlaneInv, NEW x \in Requests, Witness, auth' = auth,
           \A k \in DOMAIN tokens' : tokens'[k].role \in Roles,
           made'[x] = made[x], answers'[x] = answers[x],
           \/ req'[x] = req[x]
           \/ req[x].pc \in {"arrived", "handle"} /\ req'[x] = [req[x] EXCEPT !.pc = "lost"]
    PROVE  /\ req'[x] \in RequestType /\ RoleInv(x)' /\ AnswerInv(x)' /\ Authorised(x)'
           /\ (req'[x].pc = "done" /\ WritesOf(x)' # {} => Balanced(x, Silent(x))')
  <1>1. /\ req[x] \in RequestType /\ req'[x] \in RequestType /\ req'[x].call = req[x].call
        /\ req'[x].role = req[x].role /\ req'[x].i = req[x].i
        /\ req'[x].pc = req[x].pc \/ req'[x].pc = "lost"
    BY RequestFacts DEF ControlPlaneInv, RequestType
  <1>2. /\ RoleInv(x) /\ AnswerInv(x) /\ Authorised(x) /\ RequestTypeOK
        /\ (req[x].pc = "done" /\ WritesOf(x) # {} => Balanced(x, Silent(x)))
    BY DEF ControlPlaneInv, ChangesAuthorised, AnswersTellTheTruth
  <1>3. /\ req[x].pc \in {"handle", "done", "lost"} => held'[x] = held[x]
    BY <1>2, WitnessFacts
  <1>4. req[x].pc \in {"idle", "arrived", "handle", "done", "lost"}
    BY <1>1 DEF RequestType
  <1>5. RoleInv(x)'
    BY <1>1, <1>2, <1>3 DEF RoleInv, Call
  <1>6. Authorised(x)'
    <2>1. CASE req[x].pc \in {"idle", "arrived"}
      <3>1. made'[x] = <<>>
        BY <1>2, <2>1 DEF RoleInv
      <3> QED
        BY <3>1 DEF Authorised
    <2>2. CASE req[x].pc \in {"handle", "done", "lost"}
      BY <1>1, <1>2, <1>3, <2>2 DEF Authorised, Call
    <2> QED
      BY <1>4, <2>1, <2>2
  <1>7. Silent(x)' = Silent(x) /\ WritesOf(x)' = WritesOf(x) /\ Call(x)' = Call(x)
    BY <1>1 DEF Silent, WritesOf, Call
  <1>8. \A S : Balanced(x, S) => Balanced(x, S)'
    BY DEF Balanced, Count
  <1>9. AnswerInv(x)'
    <2>1. CASE req'[x].pc = "handle" /\ Call(x).kind = "mcp"
      <3>1. PICK S : S = {j \in Silent(x) : j < req[x].i}
        OBVIOUS
      <3>2. Balanced(x, S)
        BY <1>1, <1>2, <2>1, <3>1 DEF AnswerInv
      <3>3. Balanced(x, S)' /\ S = {j \in Silent(x)' : j < req'[x].i}
        BY <1>1, <1>7, <1>8, <3>1, <3>2
      <3> QED
        BY <1>1, <1>7, <2>1, <3>3 DEF AnswerInv, Balanced
    <2>2. CASE ~(req'[x].pc = "handle" /\ Call(x).kind = "mcp")
      BY <1>1, <1>2, <1>7, <2>2 DEF AnswerInv
    <2> QED
      BY <2>1, <2>2
  <1>10. ASSUME req'[x].pc = "done", WritesOf(x)' # {} PROVE Balanced(x, Silent(x))'
    <2>1. PICK S : S = Silent(x)
      OBVIOUS
    <2>2. Balanced(x, S)
      BY <1>1, <1>2, <1>7, <1>10, <2>1
    <2>3. Balanced(x, S)'
      BY <1>8, <2>2
    <2> QED
      BY <1>7, <2>1, <2>3 DEF Balanced
  <1> QED
    BY <1>1, <1>5, <1>6, <1>9, <1>10

\* A step for one request leaves it as the invariant asks: so it leaves all.
LEMMA OneAtATime ==
    ASSUME ControlPlaneInv, NEW r \in Requests, Witness, auth' = auth,
           \A k \in DOMAIN tokens' : tokens'[k].role \in Roles, StartInv', CatalogInv',
           NEW q \in RequestType, req' = [req EXCEPT ![r] = q],
           NEW a \in Seq(Outcomes), answers' = [answers EXCEPT ![r] = a],
           NEW m \in Seq(Changes), made' = [made EXCEPT ![r] = m],
           RoleInv(r)', AnswerInv(r)', Authorised(r)',
           (req[r].pc = "done" /\ WritesOf(r) # {} => Balanced(r, Silent(r)))'
    PROVE  ControlPlaneInv'
  <1>1. RequestTypeOK
    BY DEF ControlPlaneInv
  <1>2. RequestTypeOK'
    <2>1. held' \in [Requests -> SUBSET Roles]
      BY <1>1, WitnessFacts
    <2> QED
      BY <1>1, <2>1 DEF RequestTypeOK
  <1>3. ASSUME NEW x \in Requests
        PROVE  /\ RoleInv(x)' /\ AnswerInv(x)' /\ Authorised(x)'
               /\ (req'[x].pc = "done" /\ WritesOf(x)' # {} => Balanced(x, Silent(x))')
    <2>1. CASE x = r
      BY <2>1
    <2>2. CASE x # r
      <3>1. req'[x] = req[x] /\ answers'[x] = answers[x] /\ made'[x] = made[x]
        BY <1>1, <2>2 DEF RequestTypeOK
      <3> QED
        BY <3>1, Elsewhere
    <2> QED
      BY <2>1, <2>2
  <1> QED
    BY <1>2, <1>3 DEF ControlPlaneInv, ChangesAuthorised, AnswersTellTheTruth

\* Nothing happens to any request, but that some are lost.
LEMMA NobodyAsks ==
    ASSUME ControlPlaneInv, Witness, auth' = auth, UNCHANGED <<answers, made>>,
           \A k \in DOMAIN tokens' : tokens'[k].role \in Roles, StartInv', CatalogInv',
           req' = Lost
    PROVE  ControlPlaneInv'
  <1>1. RequestTypeOK
    BY DEF ControlPlaneInv
  <1>2. ASSUME NEW x \in Requests
        PROVE  \/ req'[x] = req[x]
               \/ req[x].pc \in {"arrived", "handle"} /\ req'[x] = [req[x] EXCEPT !.pc = "lost"]
    BY DEF Lost
  <1>3. ASSUME NEW x \in Requests
        PROVE  /\ req'[x] \in RequestType /\ RoleInv(x)' /\ AnswerInv(x)' /\ Authorised(x)'
               /\ (req'[x].pc = "done" /\ WritesOf(x)' # {} => Balanced(x, Silent(x))')
    BY <1>2, Elsewhere
  <1>4. RequestTypeOK'
    <2>1. held' \in [Requests -> SUBSET Roles]
      BY <1>1, WitnessFacts
    <2>2. req' = [x \in Requests |-> req'[x]]
      BY DEF Lost
    <2> QED
      BY <1>1, <1>3, <2>1, <2>2 DEF RequestTypeOK
  <1> QED
    BY <1>3, <1>4 DEF ControlPlaneInv, ChangesAuthorised, AnswersTellTheTruth

LEMMA IssueKeeps ==
    ASSUME \A k \in DOMAIN tokens : tokens[k].role \in Roles, NEW x, NEW role \in Roles, Issue(x, role)
    PROVE  \A k \in DOMAIN tokens' : tokens'[k].role \in Roles
  <1>1. CASE x \in DOMAIN tokens
    BY <1>1 DEF Issue
  <1>2. CASE x \notin DOMAIN tokens
    <2>1. /\ DOMAIN tokens' = DOMAIN tokens \cup {x}
          /\ \A k \in DOMAIN tokens' : tokens'[k] = IF k = x THEN [id |-> lastId + 1, role |-> role] ELSE tokens[k]
      BY <1>2 DEF Issue
    <2> QED
      BY <2>1
  <1> QED
    BY <1>1, <1>2

LEMMA ServerStepKeeps ==
    ASSUME ControlPlaneInv, NEW s \in Servers, ServerStep(s), Witness, auth' = auth
    PROVE  ControlPlaneInv'
  <1>1. StartInv' /\ CatalogInv' /\ req' = Lost /\ UNCHANGED <<answers, made>>
    BY StartStepKeeps, CatalogStart DEF ControlPlaneInv, ServerStep
  <1>2. \A k \in DOMAIN tokens : tokens[k].role \in Roles
    BY DEF ControlPlaneInv, RequestTypeOK
  <1>3. \A k \in DOMAIN tokens' : tokens'[k].role \in Roles
    <2>1. CASE BootstrapToken(s)
      <3>1. PICK b \in {Bootstrap(s)[1], Bootstrap(s)[2]} : UNCHANGED tokens \/ Issue(b.secret, b.role)
        BY <2>1 DEF BootstrapToken
      <3>2. b.role \in Roles
        BY DEF Bootstrap, Roles
      <3> QED
        BY <1>2, <3>1, <3>2, IssueKeeps
    <2>2. StartStep(s) \/ StartFault(s) => BootstrapToken(s) \/ UNCHANGED tokens
      BY DEF StartStep, StartFault, Open, LookUp, Apply, ApplyConflicts, Migrated, Bootstrapped, SeedScenario, Seeded,
             DemoBegins, DemoRecords, DemoRefused, DemoEnds, LookUpErrs, BootstrapErrs, StartErrs, Exit, dbVars
    <2> QED
      BY <1>2, <2>1, <2>2 DEF ServerStep
  <1> QED
    BY <1>1, <1>3, NobodyAsks

LEMMA SilentFacts ==
    ASSUME NEW r \in Requests, RoleInv(r), req[r].pc \in {"arrived", "handle"}, NEW S, S \subseteq Silent(r)
    PROVE  IsFiniteSet(S) /\ Cardinality(S) \in Nat
  <1>1. CASE Call(r).kind = "mcp"
    <2>1. PICK T : T = Range(Call(r).batch)
      OBVIOUS
    <2>2. Call(r).batch \in Seq(T)
      BY <1>1, <2>1 DEF RoleInv, WellFormed
    <2>3. PICK n \in Nat : DOMAIN Call(r).batch = 1..n
      BY <2>2
    <2>4. S \subseteq 1..n
      BY <1>1, <2>3 DEF Silent, WritesOf
    <2> QED
      BY <2>4, FinitelyMany
  <1>2. CASE Call(r).kind # "mcp"
    <2>1. S = {}
      BY <1>2 DEF Silent
    <2> QED
      BY <2>1, FS_EmptySet
  <1> QED
    BY <1>1, <1>2

\* What is known of a request that its handler is about to answer.
LEMMA Unanswered ==
    ASSUME ControlPlaneInv, NEW r \in Requests,
           req[r].pc = "arrived" \/ (req[r].pc = "handle" /\ Call(r).kind # "mcp")
    PROVE  /\ answers[r] = <<>> /\ made[r] = <<>> /\ RoleInv(r) /\ RequestTypeOK
           /\ req[r] \in RequestType
           /\ \A pc \in {"idle", "arrived", "handle", "done", "lost"} : [req[r] EXCEPT !.pc = pc] \in RequestType
  <1>1. RoleInv(r) /\ AnswerInv(r) /\ RequestTypeOK
    BY DEF ControlPlaneInv
  <1>2. req[r] \in RequestType
    BY <1>1, RequestFacts
  <1>3. answers[r] = <<>> /\ made[r] = <<>>
    BY <1>1 DEF RoleInv, AnswerInv
  <1> QED
    BY <1>1, <1>2, <1>3 DEF RequestType

LEMMA EmptyCounts ==
    ASSUME NEW r \in Requests, NEW e, NEW S
    PROVE  /\ answers'[r] = <<e>> => Count(r, S)' = IF e \in S THEN 1 ELSE 0
           /\ answers'[r] = <<>> => Count(r, S)' = 0
  <1>1. answers'[r] = <<e>> => {i \in DOMAIN answers'[r] : answers'[r][i] \in S} = IF e \in S THEN {1} ELSE {}
    OBVIOUS
  <1>2. answers'[r] = <<>> => {i \in DOMAIN answers'[r] : answers'[r][i] \in S} = {}
    OBVIOUS
  <1>3. Cardinality({}) = 0 /\ Cardinality({1}) = 1
    BY FS_EmptySet, FS_Singleton
  <1> QED
    BY <1>1, <1>2, <1>3 DEF Count

\* A request answered without a change, by the middleware or a handler.
LEMMA Tells ==
    ASSUME ControlPlaneInv, NEW r \in Requests, Witness, auth' = auth, made' = made,
           \A k \in DOMAIN tokens' : tokens'[k].role \in Roles, StartInv', CatalogInv',
           req[r].pc = "arrived" \/ (req[r].pc = "handle" /\ Call(r).kind # "mcp"),
           NEW e \in Outcomes \ {"ok"}, Answer(r, e)
    PROVE  ControlPlaneInv'
  <1>1. /\ answers[r] = <<>> /\ made[r] = <<>> /\ RoleInv(r) /\ RequestTypeOK
        /\ req[r] \in RequestType /\ [req[r] EXCEPT !.pc = "done"] \in RequestType
    BY Unanswered
  <1>2. PICK q \in RequestType : q = [req[r] EXCEPT !.pc = "done"]
    BY <1>1
  <1>3. req' = [req EXCEPT ![r] = q] /\ answers' = [answers EXCEPT ![r] = <<e>>] /\ made' = [made EXCEPT ![r] = <<>>]
    BY <1>1, <1>2 DEF Answer, RequestTypeOK
  <1>4. req'[r] = q /\ answers'[r] = <<e>> /\ made'[r] = <<>>
    BY <1>1, <1>3 DEF RequestTypeOK
  <1>5. q.pc = "done" /\ q.call = req[r].call /\ q.role = req[r].role
    BY <1>1, <1>2 DEF RequestType
  <1>6. RoleInv(r)' /\ AnswerInv(r)' /\ Authorised(r)'
    BY <1>1, <1>4, <1>5 DEF RoleInv, AnswerInv, Authorised
  <1>7. PICK S : S = Silent(r)
    OBVIOUS
  <1>8. Balanced(r, S)'
    <2>1. Count(r, {"ok"})' = 0 /\ Count(r, {"ok", "failed"})' \in Nat /\ Cardinality(S) \in Nat
      BY <1>1, <1>4, <1>7, EmptyCounts, SilentFacts
    <2> QED
      BY <1>4, <2>1 DEF Balanced
  <1>9. Silent(r)' = S
    BY <1>4, <1>5, <1>7 DEF Silent, WritesOf, Call
  <1>10. (req[r].pc = "done" /\ WritesOf(r) # {} => Balanced(r, Silent(r)))'
    BY <1>8, <1>9 DEF Balanced
  <1>11. <<e>> \in Seq(Outcomes) /\ <<>> \in Seq(Changes)
    OBVIOUS
  <1> QED
    BY <1>3, <1>6, <1>10, <1>11, OneAtATime

\* A handler has changed the database and answers.
LEMMA Acts ==
    ASSUME ControlPlaneInv, NEW r \in Requests, Witness, auth' = auth,
           \A k \in DOMAIN tokens' : tokens'[k].role \in Roles, StartInv', CatalogInv',
           req[r].pc = "handle", Call(r).kind # "mcp",
           NEW what \in Changes, Makes(r, what), Rank(Privilege(what)) <= Rank(Needs(Call(r).kind)),
           NEW e \in {"ok", "failed"}, Answer(r, e)
    PROVE  ControlPlaneInv'
  <1>1. /\ answers[r] = <<>> /\ made[r] = <<>> /\ RoleInv(r) /\ RequestTypeOK
        /\ req[r] \in RequestType /\ [req[r] EXCEPT !.pc = "done"] \in RequestType
    BY Unanswered
  <1>2. PICK q \in RequestType : q = [req[r] EXCEPT !.pc = "done"]
    BY <1>1
  <1>3. req' = [req EXCEPT ![r] = q] /\ answers' = [answers EXCEPT ![r] = <<e>>] /\ made' = [made EXCEPT ![r] = <<what>>]
    BY <1>1, <1>2 DEF Answer, Makes, RequestTypeOK
  <1>4. req'[r] = q /\ answers'[r] = <<e>> /\ made'[r] = <<what>> /\ held'[r] = held[r]
    BY <1>1, <1>3, WitnessFacts DEF RequestTypeOK
  <1>5. q.pc = "done" /\ q.call = req[r].call /\ q.role = req[r].role
    BY <1>1, <1>2 DEF RequestType
  <1>6. RoleInv(r)' /\ AnswerInv(r)'
    BY <1>1, <1>4, <1>5 DEF RoleInv, AnswerInv
  <1>7. Authorised(r)'
    <2>1. CASE auth
      <3>1. req[r].role \in held'[r] /\ Rank(req[r].role) >= Rank(Privilege(what))
        BY <1>1, <1>4, <2>1, RankFacts DEF RoleInv
      <3>2. \A i \in DOMAIN made'[r] : made'[r][i] = what
        BY <1>4
      <3> QED
        BY <2>1, <3>1, <3>2 DEF Authorised
    <2>2. CASE ~auth
      BY <1>4, <1>5, <2>2 DEF Authorised, Call
    <2> QED
      BY <2>1, <2>2
  <1>8. PICK S : S = Silent(r)
    OBVIOUS
  <1>9. Balanced(r, S)'
    <2>1. /\ Count(r, {"ok"})' = (IF e \in {"ok"} THEN 1 ELSE 0)
          /\ Count(r, {"ok", "failed"})' = 1 /\ Cardinality(S) \in Nat
      BY <1>1, <1>4, <1>8, EmptyCounts, SilentFacts
    <2>2. Len(made'[r]) = 1
      BY <1>4
    <2> QED
      BY <2>1, <2>2 DEF Balanced
  <1>10. Silent(r)' = S
    BY <1>4, <1>5, <1>8 DEF Silent, WritesOf, Call
  <1>11. (req[r].pc = "done" /\ WritesOf(r) # {} => Balanced(r, Silent(r)))'
    BY <1>9, <1>10 DEF Balanced
  <1>12. <<e>> \in Seq(Outcomes) /\ <<what>> \in Seq(Changes)
    BY DEF Outcomes
  <1> QED
    BY <1>3, <1>6, <1>7, <1>11, <1>12, OneAtATime

\* The calls of a batch that were silent so far: one more if this one is.
LEMMA SilentGrows ==
    ASSUME NEW r \in Requests, RoleInv(r), Dispatches(r), NEW i \in Nat, i = req[r].i,
           NEW S, S = {j \in Silent(r) : j < i}, NEW T, T = {j \in Silent(r) : j < i + 1}
    PROVE  /\ Cardinality(S) \in Nat /\ Cardinality(T) \in Nat /\ Cardinality(S) <= Cardinality(T)
           /\ Tool(r).tool \in WriteTools /\ ~Tool(r).id => Cardinality(T) = Cardinality(S) + 1
  <1>1. Call(r).kind = "mcp" /\ i \in DOMAIN Call(r).batch /\ req[r].pc \in {"arrived", "handle"}
    BY DEF Dispatches, In
  <1>2. Silent(r) \subseteq Nat
    <2>1. PICK B : B = Range(Call(r).batch)
      OBVIOUS
    <2>2. Call(r).batch \in Seq(B)
      BY <1>1, <2>1 DEF RoleInv, WellFormed
    <2>3. DOMAIN Call(r).batch \subseteq Nat
      BY <2>2
    <2> QED
      BY <1>1, <2>3 DEF Silent, WritesOf
  <1>3. IsFiniteSet(S) /\ Cardinality(S) \in Nat /\ Cardinality(T) \in Nat
    BY <1>1, SilentFacts
  <1>4. i \in Silent(r) <=> Tool(r).tool \in WriteTools /\ ~Tool(r).id
    BY <1>1 DEF Silent, WritesOf, Tool
  <1>5. T = IF i \in Silent(r) THEN S \cup {i} ELSE S
    <2>1. \A j \in Nat : j < i + 1 <=> j < i \/ j = i
      OBVIOUS
    <2> QED
      BY <1>2, <2>1
  <1>6. i \notin S
    OBVIOUS
  <1>7. Cardinality(S \cup {i}) = Cardinality(S) + 1
    BY <1>3, <1>6, FS_AddElement
  <1>8. CASE i \in Silent(r)
    <2>1. Cardinality(T) = Cardinality(S) + 1
      BY <1>5, <1>7, <1>8
    <2> QED
      BY <1>3, <2>1
  <1>9. CASE i \notin Silent(r)
    <2>1. Cardinality(T) = Cardinality(S)
      BY <1>5, <1>9
    <2>2. ~(Tool(r).tool \in WriteTools /\ ~Tool(r).id)
      BY <1>4, <1>9
    <2> QED
      BY <1>3, <2>1, <2>2
  <1> QED
    BY <1>8, <1>9

\* A call of a batch is dispatched.
LEMMA Dispatched ==
    ASSUME ControlPlaneInv, NEW r \in Requests, Dispatches(r), NEW e \in Outcomes, Replies(r, e)
    PROVE  /\ RoleInv(r) /\ RequestTypeOK
           /\ req[r].pc = "handle" /\ Call(r).kind = "mcp" /\ req[r].i \in Nat
           /\ Balanced(r, {j \in Silent(r) : j < req[r].i})
           /\ \E q \in RequestType : /\ q = [req[r] EXCEPT !.i = req[r].i + 1] /\ req' = [req EXCEPT ![r] = q]
                                     /\ req'[r] = q /\ q.pc = "handle" /\ q.call = req[r].call
                                     /\ q.role = req[r].role /\ q.i = req[r].i + 1
           /\ \E a \in Seq(Outcomes) : /\ a = IF Tool(r).id THEN Append(answers[r], e) ELSE answers[r]
                                       /\ answers' = [answers EXCEPT ![r] = a] /\ answers'[r] = a
  <1>1. RoleInv(r) /\ AnswerInv(r) /\ RequestTypeOK
    BY DEF ControlPlaneInv
  <1>2. req[r] \in RequestType /\ req[r].i \in Nat /\ answers[r] \in Seq(Outcomes)
    BY <1>1, RequestFacts
  <1>3. req[r].pc = "handle" /\ Call(r).kind = "mcp"
    BY DEF Dispatches, In
  <1>4. Balanced(r, {j \in Silent(r) : j < req[r].i})
    BY <1>1, <1>3 DEF AnswerInv
  <1>5. PICK q : q = [req[r] EXCEPT !.i = req[r].i + 1]
    OBVIOUS
  <1>6. q \in RequestType /\ q.pc = "handle" /\ q.call = req[r].call /\ q.role = req[r].role /\ q.i = req[r].i + 1
    BY <1>2, <1>3, <1>5 DEF RequestType
  <1>7. req' = [req EXCEPT ![r] = q] /\ req'[r] = q
    BY <1>1, <1>5 DEF Replies, RequestTypeOK
  <1>8. PICK a : a = IF Tool(r).id THEN Append(answers[r], e) ELSE answers[r]
    OBVIOUS
  <1>9. a \in Seq(Outcomes)
    BY <1>2, <1>8
  <1>10. answers' = [answers EXCEPT ![r] = a] /\ answers'[r] = a
    BY <1>1, <1>8 DEF Replies, RequestTypeOK
  <1> QED
    BY <1>1, <1>2, <1>3, <1>4, <1>5, <1>6, <1>7, <1>8, <1>9, <1>10

\* A call of a batch that changed nothing; it is not told "ok".
LEMMA McpTells ==
    ASSUME ControlPlaneInv, NEW r \in Requests, Witness, auth' = auth, made' = made,
           \A k \in DOMAIN tokens' : tokens'[k].role \in Roles, StartInv', CatalogInv',
           Dispatches(r), NEW e \in Outcomes \ {"ok"}, Replies(r, e)
    PROVE  ControlPlaneInv'
  <1>1. /\ RoleInv(r) /\ RequestTypeOK /\ req[r].pc = "handle" /\ Call(r).kind = "mcp" /\ req[r].i \in Nat
        /\ Authorised(r) /\ made[r] \in Seq(Changes) /\ Len(made[r]) \in Nat
    BY Dispatched, RequestFacts DEF ControlPlaneInv, ChangesAuthorised
  <1>2. PICK q \in RequestType : /\ req' = [req EXCEPT ![r] = q] /\ req'[r] = q /\ q.pc = "handle"
                                 /\ q.call = req[r].call /\ q.role = req[r].role /\ q.i = req[r].i + 1
    BY Dispatched
  <1>3. PICK a \in Seq(Outcomes) : /\ a = (IF Tool(r).id THEN Append(answers[r], e) ELSE answers[r])
                                   /\ answers' = [answers EXCEPT ![r] = a] /\ answers'[r] = a
    BY Dispatched
  <1>4. made' = [made EXCEPT ![r] = made[r]] /\ held'[r] = held[r]
    BY <1>1, WitnessFacts DEF RequestTypeOK
  <1>5. RoleInv(r)' /\ Authorised(r)'
    BY <1>1, <1>2, <1>4 DEF RoleInv, Authorised, Call
  <1>6. PICK i, S, T : i \in Nat /\ i = req[r].i /\ S = {j \in Silent(r) : j < i} /\ T = {j \in Silent(r) : j < i + 1}
    BY <1>1
  <1>7. Balanced(r, S)
    BY <1>6, Dispatched
  <1>8. Cardinality(S) \in Nat /\ Cardinality(T) \in Nat /\ Cardinality(S) <= Cardinality(T)
    BY <1>1, <1>6, SilentGrows
  <1>9. /\ Count(r, {"ok"}) \in Nat /\ Count(r, {"ok", "failed"}) \in Nat /\ Count(r, {"ok"})' = Count(r, {"ok"})
        /\ Count(r, {"ok", "failed"})' \in Nat /\ Count(r, {"ok", "failed"})' >= Count(r, {"ok", "failed"})
    <2>1. Count(r, {"ok"}) \in Nat /\ Count(r, {"ok", "failed"}) \in Nat
      BY <1>1, CountFacts
    <2>2. CASE Tool(r).id
      <3>1. answers'[r] = Append(answers[r], e)
        BY <1>3, <2>2
      <3>2. /\ Count(r, {"ok"})' = Count(r, {"ok"}) + (IF e \in {"ok"} THEN 1 ELSE 0)
            /\ Count(r, {"ok", "failed"})' = Count(r, {"ok", "failed"}) + (IF e \in {"ok", "failed"} THEN 1 ELSE 0)
        BY <1>1, <3>1, CountFacts
      <3> QED
        BY <2>1, <3>2
    <2>3. CASE ~Tool(r).id
      <3>1. answers'[r] = answers[r]
        BY <1>3, <2>3
      <3>2. Count(r, {"ok"})' = Count(r, {"ok"}) /\ Count(r, {"ok", "failed"})' = Count(r, {"ok", "failed"})
        BY <1>1, <3>1, CountFacts
      <3> QED
        BY <2>1, <3>2
    <2> QED
      BY <2>2, <2>3
  <1>10. Balanced(r, T)'
    <2>1. Count(r, {"ok"}) <= Len(made[r]) /\ Len(made[r]) <= Count(r, {"ok", "failed"}) + Cardinality(S)
      BY <1>7 DEF Balanced
    <2>2. Count(r, {"ok"})' <= Len(made[r]) /\ Len(made[r]) <= Count(r, {"ok", "failed"})' + Cardinality(T)
      BY <1>1, <1>8, <1>9, <2>1
    <2> QED
      BY <2>2 DEF Balanced
  <1>11. AnswerInv(r)'
    <2>1. T = {j \in Silent(r)' : j < req'[r].i} /\ Call(r)' = Call(r)
      BY <1>2, <1>6 DEF Silent, WritesOf, Call
    <2> QED
      BY <1>1, <1>2, <1>10, <2>1 DEF AnswerInv, Balanced
  <1>12. (req[r].pc = "done" /\ WritesOf(r) # {} => Balanced(r, Silent(r)))'
    BY <1>2
  <1> QED
    BY <1>1, <1>2, <1>3, <1>4, <1>5, <1>11, <1>12, OneAtATime

\* A call of a batch that changed the database, with a role that may.
LEMMA McpActs ==
    ASSUME ControlPlaneInv, NEW r \in Requests, Witness, auth' = auth,
           \A k \in DOMAIN tokens' : tokens'[k].role \in Roles, StartInv', CatalogInv',
           Dispatches(r), Tool(r).tool \in WriteTools, MayWrite(r),
           NEW what \in {"scenario", "assignment"}, Makes(r, what),
           NEW e \in {"ok", "failed"}, Replies(r, e)
    PROVE  ControlPlaneInv'
  <1>1. e \in Outcomes /\ what \in Changes
    BY DEF Outcomes, Changes
  <1>2. /\ RoleInv(r) /\ RequestTypeOK /\ req[r].pc = "handle" /\ Call(r).kind = "mcp" /\ req[r].i \in Nat
        /\ Authorised(r) /\ made[r] \in Seq(Changes) /\ Len(made[r]) \in Nat
    BY <1>1, Dispatched, RequestFacts DEF ControlPlaneInv, ChangesAuthorised
  <1>3. PICK q \in RequestType : /\ req' = [req EXCEPT ![r] = q] /\ req'[r] = q /\ q.pc = "handle"
                                 /\ q.call = req[r].call /\ q.role = req[r].role /\ q.i = req[r].i + 1
    BY <1>1, Dispatched
  <1>4. PICK a \in Seq(Outcomes) : /\ a = (IF Tool(r).id THEN Append(answers[r], e) ELSE answers[r])
                                   /\ answers' = [answers EXCEPT ![r] = a] /\ answers'[r] = a
    BY <1>1, Dispatched
  <1>5. PICK m \in Seq(Changes) : m = Append(made[r], what)
    <2>1. Append(made[r], what) \in Seq(Changes)
      BY <1>1, <1>2
    <2> QED
      BY <2>1, Zenon
  <1>6. made' = [made EXCEPT ![r] = m] /\ made'[r] = m /\ held'[r] = held[r]
    BY <1>2, <1>5, WitnessFacts DEF Makes, RequestTypeOK
  <1>7. RoleInv(r)'
    BY <1>2, <1>3, <1>6 DEF RoleInv, Call
  <1>8. Authorised(r)'
    <2>1. auth /\ req[r].role \in held[r] /\ req[r].role \in {"editor", "admin"}
      BY <1>2 DEF RoleInv, MayWrite, NoRole
    <2>2. Privilege(what) = "editor" /\ Rank(req[r].role) >= Rank("editor")
      BY <2>1, RankFacts DEF Privilege
    <2>3. \A i \in DOMAIN m : m[i] = what \/ (i \in DOMAIN made[r] /\ m[i] = made[r][i])
      BY <1>2, <1>5
    <2>4. ASSUME NEW i \in DOMAIN m
          PROVE  \E role \in held'[r] : Rank(role) >= Rank(Privilege(m[i]))
      BY <1>2, <1>6, <2>1, <2>2, <2>3 DEF Authorised
    <2> QED
      BY <1>6, <2>1, <2>4 DEF Authorised
  <1>9. PICK i, S, T : i \in Nat /\ i = req[r].i /\ S = {j \in Silent(r) : j < i} /\ T = {j \in Silent(r) : j < i + 1}
    BY <1>2
  <1>10. Balanced(r, S)
    BY <1>1, <1>9, Dispatched
  <1>11. /\ Cardinality(S) \in Nat /\ Cardinality(T) \in Nat /\ Cardinality(S) <= Cardinality(T)
         /\ ~Tool(r).id => Cardinality(T) = Cardinality(S) + 1
    BY <1>2, <1>9, SilentGrows
  <1>12. PICK c \in Nat, d \in Nat, n \in Nat, c1 \in Nat, d1 \in Nat :
            /\ c = Count(r, {"ok"}) /\ d = Count(r, {"ok", "failed"}) /\ n = Len(made[r])
            /\ c1 = Count(r, {"ok"})' /\ d1 = Count(r, {"ok", "failed"})'
    <2>1. Count(r, {"ok"}) \in Nat /\ Count(r, {"ok", "failed"}) \in Nat
      BY <1>1, <1>2, CountFacts
    <2>2. Count(r, {"ok"})' \in Nat /\ Count(r, {"ok", "failed"})' \in Nat
      <3>1. CASE answers'[r] = Append(answers[r], e)
        <4>1. /\ Count(r, {"ok"})' = Count(r, {"ok"}) + (IF e \in {"ok"} THEN 1 ELSE 0)
              /\ Count(r, {"ok", "failed"})' = Count(r, {"ok", "failed"}) + (IF e \in {"ok", "failed"} THEN 1 ELSE 0)
          BY <1>1, <1>2, <3>1, CountFacts DEF Outcomes
        <4> QED
          BY <2>1, <4>1
      <3>2. CASE answers'[r] = answers[r]
        <4>1. Count(r, {"ok"})' = Count(r, {"ok"}) /\ Count(r, {"ok", "failed"})' = Count(r, {"ok", "failed"})
          BY <1>1, <1>2, <3>2, CountFacts
        <4> QED
          BY <2>1, <4>1
      <3> QED
        BY <1>4, <3>1, <3>2
    <2> QED
      BY <1>2, <2>1, <2>2, Zenon
  <1>13. PICK k, l : k = Cardinality(S) /\ l = Cardinality(T)
    OBVIOUS
  <1>14. k \in Nat /\ l \in Nat /\ k <= l /\ (~Tool(r).id => l = k + 1)
    BY <1>11, <1>13
  <1>15. c \in Nat /\ d \in Nat /\ n \in Nat /\ c1 \in Nat /\ d1 \in Nat
    BY <1>12
  <1>16. Len(m) = n + 1
    BY <1>2, <1>5, <1>12
  <1>17. c <= n /\ n <= d + k
    BY <1>10, <1>12, <1>13 DEF Balanced
  <1>18. c1 <= n + 1 /\ n + 1 <= d1 + l
    <2>1. CASE Tool(r).id
      <3>1. answers'[r] = Append(answers[r], e)
        BY <1>4, <2>1
      <3>2. /\ Count(r, {"ok"})' = Count(r, {"ok"}) + (IF e \in {"ok"} THEN 1 ELSE 0)
            /\ Count(r, {"ok", "failed"})' = Count(r, {"ok", "failed"}) + (IF e \in {"ok", "failed"} THEN 1 ELSE 0)
        BY <1>1, <1>2, <3>1, CountFacts
      <3>3. e = "ok" \/ e = "failed"
        OBVIOUS
      <3>4. c1 = (IF e \in {"ok"} THEN c + 1 ELSE c + 0) /\ d1 = d + 1
        BY <1>12, <3>2, <3>3
      <3>5. c1 <= c + 1
        BY <1>15, <3>4
      <3> QED
        BY <1>17, <1>14, <1>15, <3>4, <3>5
    <2>2. CASE ~Tool(r).id
      <3>1. answers'[r] = answers[r]
        BY <1>4, <2>2
      <3>2. c1 = c /\ d1 = d
        BY <1>2, <1>12, <3>1, CountFacts
      <3> QED
        BY <1>17, <1>14, <1>15, <2>2, <3>2
    <2> QED
      BY <2>1, <2>2
  <1>19. Balanced(r, T)'
    BY <1>6, <1>12, <1>16, <1>18, <1>13 DEF Balanced
  <1>20. AnswerInv(r)'
    <2>1. T = {j \in Silent(r)' : j < req'[r].i} /\ Call(r)' = Call(r)
      BY <1>3, <1>9 DEF Silent, WritesOf, Call
    <2> QED
      BY <1>2, <1>3, <1>19, <2>1 DEF AnswerInv, Balanced
  <1>21. (req[r].pc = "done" /\ WritesOf(r) # {} => Balanced(r, Silent(r)))'
    BY <1>3
  <1> QED
    BY <1>3, <1>4, <1>6, <1>7, <1>8, <1>20, <1>21, OneAtATime

\* The end of a batch: every silent call of it lies behind.
LEMMA McpEndsKeeps ==
    ASSUME ControlPlaneInv, NEW r \in Requests, Witness, auth' = auth, McpEnds(r)
    PROVE  ControlPlaneInv'
  <1>1. RoleInv(r) /\ AnswerInv(r) /\ RequestTypeOK /\ Authorised(r)
    BY DEF ControlPlaneInv, ChangesAuthorised
  <1>2. /\ req[r] \in RequestType /\ req[r].i \in Nat /\ answers[r] \in Seq(Outcomes) /\ made[r] \in Seq(Changes)
    BY <1>1, RequestFacts
  <1>3. /\ req[r].pc = "handle" /\ Call(r).kind = "mcp" /\ req[r].i > Len(Call(r).batch)
        /\ req' = [req EXCEPT ![r].pc = "done"] /\ made' = made
        /\ UNCHANGED <<startVars, dbVars>>
    BY DEF McpEnds, In, vars
  <1>4. PICK q : q = [req[r] EXCEPT !.pc = "done"]
    OBVIOUS
  <1>5. q \in RequestType /\ q.pc = "done" /\ q.call = req[r].call /\ q.role = req[r].role
    BY <1>2, <1>4 DEF RequestType
  <1>6. req' = [req EXCEPT ![r] = q] /\ req'[r] = q
    BY <1>1, <1>3, <1>4 DEF RequestTypeOK
  <1>7. PICK a \in Seq(Outcomes) : /\ answers' = [answers EXCEPT ![r] = a] /\ answers'[r] = a
                                   /\ Call(r).batch # <<>> => a = answers[r]
    <2>1. CASE Call(r).batch = <<>>
      <3>1. <<"refused">> \in Seq(Outcomes)
        BY DEF Outcomes
      <3>2. answers' = [answers EXCEPT ![r] = <<"refused">>] /\ answers'[r] = <<"refused">>
        BY <1>1, <2>1 DEF McpEnds, RequestTypeOK
      <3> QED
        BY <2>1, <3>1, <3>2
    <2>2. CASE Call(r).batch # <<>>
      <3>1. answers' = [answers EXCEPT ![r] = answers[r]] /\ answers'[r] = answers[r]
        BY <1>1, <2>2 DEF McpEnds, RequestTypeOK
      <3> QED
        BY <1>2, <3>1
    <2> QED
      BY <2>1, <2>2
  <1>8. made' = [made EXCEPT ![r] = made[r]]
    BY <1>1, <1>3 DEF RequestTypeOK
  <1>9. StartInv' /\ CatalogInv'
    BY <1>3, StartUnchanged, CatalogUnchanged DEF ControlPlaneInv, startVars, dbVars
  <1>10. \A k \in DOMAIN tokens' : tokens'[k].role \in Roles
    BY <1>1, <1>3 DEF dbVars, RequestTypeOK
  <1>11. held'[r] = held[r]
    BY <1>1, <1>3, <1>10, WitnessFacts
  <1>12. RoleInv(r)' /\ AnswerInv(r)' /\ Authorised(r)'
    BY <1>1, <1>3, <1>5, <1>6, <1>11 DEF RoleInv, AnswerInv, Authorised, Call
  <1>13. PICK S : S = Silent(r)
    OBVIOUS
  <1>14. {j \in Silent(r) : j < req[r].i} = S
    <2>1. PICK B : B = Range(Call(r).batch)
      OBVIOUS
    <2>2. Call(r).batch \in Seq(B)
      BY <1>1, <1>3, <2>1 DEF RoleInv, WellFormed
    <2>3. \A j \in DOMAIN Call(r).batch : j < req[r].i
      BY <1>2, <1>3, <2>2
    <2>4. S \subseteq DOMAIN Call(r).batch
      BY <1>3, <1>13 DEF Silent, WritesOf
    <2> QED
      BY <1>13, <2>3, <2>4
  <1>15. Balanced(r, S)
    BY <1>1, <1>3, <1>14 DEF AnswerInv
  <1>16. Silent(r)' = S /\ WritesOf(r)' = WritesOf(r)
    BY <1>5, <1>6, <1>13 DEF Silent, WritesOf, Call
  <1>17. WritesOf(r) # {} => Balanced(r, S)'
    <2>1. SUFFICES ASSUME WritesOf(r) # {} PROVE Balanced(r, S)'
      OBVIOUS
    <2>2. Call(r).batch # <<>>
      BY <1>3, <2>1 DEF WritesOf
    <2>3. answers'[r] = answers[r] /\ made'[r] = made[r]
      BY <1>3, <1>7, <2>2
    <2> QED
      BY <1>15, <2>3 DEF Balanced, Count
  <1>18. (req[r].pc = "done" /\ WritesOf(r) # {} => Balanced(r, Silent(r)))'
    BY <1>16, <1>17 DEF Balanced
  <1> QED
    BY <1>2, <1>5, <1>6, <1>7, <1>8, <1>9, <1>10, <1>12, <1>18, OneAtATime

\* The middleware lets a request pass with the role its token has right now.
LEMMA AdmitKeeps ==
    ASSUME ControlPlaneInv, NEW r \in Requests, Witness, auth' = auth, Admit(r)
    PROVE  ControlPlaneInv'
  <1>1. /\ answers[r] = <<>> /\ made[r] = <<>> /\ RoleInv(r) /\ RequestTypeOK /\ req[r] \in RequestType
        /\ req[r].pc = "arrived" /\ AnswerInv(r)
        /\ UNCHANGED <<startVars, dbVars, answers, made>>
    BY Unanswered DEF Admit, vars, ControlPlaneInv
  <1>2. \A k \in DOMAIN tokens' : tokens'[k].role \in Roles
    BY <1>1 DEF dbVars, RequestTypeOK
  <1>3. StartInv' /\ CatalogInv'
    BY <1>1, StartUnchanged, CatalogUnchanged DEF ControlPlaneInv, startVars, dbVars
  <1>4. PICK role : role = IF auth THEN LookupRole(req[r].secret) ELSE req[r].role
    OBVIOUS
  <1>5. role \in Roles \cup {NoRole}
    BY <1>1, <1>4 DEF LookupRole, RequestTypeOK, RequestType
  <1>6. PICK q : q = [req[r] EXCEPT !.pc = "handle", !.role = role]
    OBVIOUS
  <1>7. q \in RequestType /\ q.pc = "handle" /\ q.call = req[r].call /\ q.role = role /\ q.i = req[r].i
    BY <1>1, <1>5, <1>6 DEF RequestType
  <1>8. req' = [req EXCEPT ![r] = q] /\ req'[r] = q
    <2>1. CASE auth
      BY <1>1, <1>4, <1>6, <2>1 DEF Admit, RequestTypeOK
    <2>2. CASE ~auth
      <3>1. q = [req[r] EXCEPT !.pc = "handle"]
        BY <1>1, <1>4, <1>6, <2>2 DEF RequestType
      <3> QED
        BY <1>1, <2>2, <3>1 DEF Admit, RequestTypeOK
    <2> QED
      BY <2>1, <2>2
  <1>9. answers' = [answers EXCEPT ![r] = <<>>] /\ made' = [made EXCEPT ![r] = <<>>] /\ answers'[r] = <<>> /\ made'[r] = <<>>
    BY <1>1 DEF RequestTypeOK
  <1>10. RoleInv(r)'
    <2>1. CASE auth
      <3>1. Rank(role) >= Rank(Needs(Call(r).kind)) /\ role = LookupRole(req[r].secret)
        BY <1>4, <2>1 DEF Admit
      <3>2. Rank(Needs(Call(r).kind)) >= 1
        <4>1. Needs(Call(r).kind) \in {"viewer", "editor", "admin"}
          BY <1>1 DEF RoleInv, WellFormed, Needs
        <4> QED
          BY <4>1, RankFacts
      <3>3. role # NoRole
        BY <3>1, <3>2, RankFacts
      <3>4. role \in RoleOf(tokens', req[r].secret)
        BY <1>1, <3>1, <3>3 DEF LookupRole, RoleOf, dbVars
      <3>5. role \in held'[r]
        BY <1>1, <1>2, <3>4, WitnessFacts
      <3> QED
        BY <1>1, <1>7, <1>8, <1>9, <2>1, <3>1, <3>5 DEF RoleInv, Call
    <2>2. CASE ~auth
      BY <1>1, <1>4, <1>7, <1>8, <2>2 DEF RoleInv, Call
    <2> QED
      BY <2>1, <2>2
  <1>11. PICK S : S = {j \in Silent(r) : j < req[r].i}
    OBVIOUS
  <1>12. Balanced(r, S)'
    <2>1. Count(r, {"ok"})' = 0 /\ Count(r, {"ok", "failed"})' = 0 /\ Cardinality(S) \in Nat
      BY <1>1, <1>9, <1>11, EmptyCounts, SilentFacts
    <2>2. Len(made'[r]) = 0
      BY <1>9
    <2> QED
      BY <2>1, <2>2 DEF Balanced
  <1>13. AnswerInv(r)'
    <2>1. S = {j \in Silent(r)' : j < req'[r].i}
      BY <1>7, <1>8, <1>11 DEF Silent, WritesOf, Call
    <2> QED
      BY <1>7, <1>8, <1>9, <1>12, <2>1 DEF AnswerInv, Balanced
  <1>14. Authorised(r)'
    BY <1>9 DEF Authorised
  <1>15. (req[r].pc = "done" /\ WritesOf(r) # {} => Balanced(r, Silent(r)))'
    BY <1>7, <1>8
  <1>16. <<>> \in Seq(Outcomes) /\ <<>> \in Seq(Changes)
    OBVIOUS
  <1> QED
    BY <1>2, <1>3, <1>7, <1>8, <1>9, <1>10, <1>13, <1>14, <1>15, <1>16, OneAtATime

LEMMA ArriveKeeps ==
    ASSUME ControlPlaneInv, NEW r \in Requests, Witness, auth' = auth, Arrive(r)
    PROVE  ControlPlaneInv'
  <1>1. /\ RoleInv(r) /\ AnswerInv(r) /\ RequestTypeOK /\ req[r].pc = "idle"
        /\ UNCHANGED <<startVars, dbVars, answers, made>>
    BY DEF Arrive, vars, ControlPlaneInv
  <1>2. answers[r] = <<>> /\ made[r] = <<>>
    BY <1>1 DEF RoleInv, AnswerInv
  <1>3. \A k \in DOMAIN tokens' : tokens'[k].role \in Roles
    BY <1>1 DEF dbVars, RequestTypeOK
  <1>4. StartInv' /\ CatalogInv'
    BY <1>1, StartUnchanged, CatalogUnchanged DEF ControlPlaneInv, startVars, dbVars
  <1>5. PICK ask \in Asks[r] :
            req' = [req EXCEPT ![r] = [pc |-> "arrived", server |-> ask.server, role |-> NoRole,
                                       secret |-> ask.secret, call |-> ask.call, i |-> 1]]
    BY DEF Arrive
  <1>6. PICK q : q = [pc |-> "arrived", server |-> ask.server, role |-> NoRole,
                      secret |-> ask.secret, call |-> ask.call, i |-> 1]
    OBVIOUS
  <1>7. ask.server \in Servers /\ ask.secret \in Secrets \cup {NoSecret} /\ WellFormed(ask.call)
    BY ControlPlaneAssumption
  <1>8. q \in RequestType
    BY <1>6, <1>7 DEF RequestType
  <1>9. req' = [req EXCEPT ![r] = q] /\ req'[r] = q
    BY <1>1, <1>5, <1>6 DEF RequestTypeOK
  <1>10. q.pc = "arrived" /\ q.role = NoRole /\ q.i = 1 /\ q.call = ask.call
    BY <1>6
  <1>11. answers' = [answers EXCEPT ![r] = <<>>] /\ made' = [made EXCEPT ![r] = <<>>] /\ answers'[r] = <<>> /\ made'[r] = <<>>
    BY <1>1, <1>2 DEF RequestTypeOK
  <1>12. RoleInv(r)' /\ AnswerInv(r)' /\ Authorised(r)'
    BY <1>7, <1>9, <1>10, <1>11 DEF RoleInv, AnswerInv, Authorised, Call, WellFormed
  <1>13. (req[r].pc = "done" /\ WritesOf(r) # {} => Balanced(r, Silent(r)))'
    BY <1>9, <1>10
  <1>14. <<>> \in Seq(Outcomes) /\ <<>> \in Seq(Changes)
    OBVIOUS
  <1> QED
    BY <1>3, <1>4, <1>8, <1>9, <1>11, <1>12, <1>13, <1>14, OneAtATime

\* Every step of the middleware and of the handlers.
LEMMA HandlerKeeps ==
    ASSUME ControlPlaneInv, NEW r \in Requests, Witness, auth' = auth, Handler(r)
    PROVE  ControlPlaneInv'
  <1>1. RoleInv(r) /\ RequestTypeOK /\ StartInv /\ CatalogInv
    BY DEF ControlPlaneInv
  <1>2. \A k \in DOMAIN tokens : tokens[k].role \in Roles
    BY <1>1 DEF RequestTypeOK
  <1>3. UNCHANGED tokens => \A k \in DOMAIN tokens' : tokens'[k].role \in Roles
    BY <1>2
  <1>4. (UNCHANGED startVars => StartInv') /\ (UNCHANGED <<catalog, saved>> => CatalogInv')
    BY <1>1, StartUnchanged, CatalogUnchanged
  <1>5. {"denied", "refused", "dry", "read", "missing", "failed"} \subseteq Outcomes \ {"ok"}
        /\ {"scenario", "token", "assignment"} \subseteq Changes
    BY DEF Outcomes, Changes
  <1>6. /\ Rank(Privilege("scenario")) = 3 /\ Rank(Privilege("token")) = 4
        /\ \A kind \in {"create", "update"} : Rank(Needs(kind)) = 3
        /\ \A kind \in {"issue", "revoke"} : Rank(Needs(kind)) = 4
    BY RankFacts DEF Privilege, Needs
  <1>7. CASE Admit(r)
    BY <1>7, AdmitKeeps
  <1>8. CASE Reject(r) \/ LookupErrs(r)
    <2>1. req[r].pc = "arrived" /\ Answer(r, "denied") /\ made' = made /\ UNCHANGED <<startVars, dbVars>>
      BY <1>8 DEF Reject, LookupErrs, vars
    <2> QED
      BY <2>1, <1>3, <1>4, <1>5, Tells DEF dbVars
  <1>9. ASSUME In(r, "handle", {"create", "update"}), Acceptable(Call(r)), Upsert(SaveName(Call(r)), Call(r).doc)
        PROVE  CatalogInv'
    <2>1. Call(r).doc \in Docs /\ SaveName(Call(r)) \in Names
      BY <1>1, <1>9, ServerStartAssumption DEF RoleInv, WellFormed, In, Acceptable, SaveName
    <2> QED
      BY <1>1, <1>9, <2>1, UpsertKeeps
  <1>10. CASE SaveScenario(r)
    <2>1. In(r, "handle", {"create", "update"}) /\ UNCHANGED <<startVars, tokens>>
      BY <1>10 DEF SaveScenario
    <2>2. req[r].pc = "handle" /\ Call(r).kind \in {"create", "update"}
      BY <2>1 DEF In
    <2>3. CASE ~Acceptable(Call(r)) /\ Answer(r, "refused") /\ UNCHANGED <<catalog, saved, made>>
      BY <2>1, <2>2, <2>3, <1>3, <1>4, <1>5, Tells
    <2>4. CASE Acceptable(Call(r)) /\ Dry(Call(r)) /\ Answer(r, "dry") /\ UNCHANGED <<catalog, saved, made>>
      BY <2>1, <2>2, <2>4, <1>3, <1>4, <1>5, Tells
    <2>5. CASE /\ Acceptable(Call(r)) /\ Answer(r, "ok") /\ Upsert(SaveName(Call(r)), Call(r).doc)
               /\ Makes(r, "scenario")
      <3>1. CatalogInv'
        BY <1>9, <2>1, <2>5
      <3>2. Rank(Privilege("scenario")) <= Rank(Needs(Call(r).kind)) /\ Call(r).kind # "mcp"
        BY <1>6, <2>2
      <3> QED
        BY <2>1, <2>2, <2>5, <3>1, <3>2, <1>3, <1>4, <1>5, Acts
    <2> QED
      BY <1>10, <2>3, <2>4, <2>5 DEF SaveScenario
  <1>11. CASE SaveErrs(r)
    <2>1. In(r, "handle", {"create", "update"}) /\ Acceptable(Call(r)) /\ Answer(r, "failed")
          /\ UNCHANGED <<startVars, tokens>>
      BY <1>11 DEF SaveErrs
    <2>2. req[r].pc = "handle" /\ Call(r).kind \in {"create", "update"}
      BY <2>1 DEF In
    <2>3. CASE UNCHANGED <<catalog, saved, made>>
      BY <2>1, <2>2, <2>3, <1>3, <1>4, <1>5, Tells
    <2>4. CASE Upsert(SaveName(Call(r)), Call(r).doc) /\ Makes(r, "scenario")
      <3>1. CatalogInv'
        BY <1>9, <2>1, <2>4
      <3>2. Rank(Privilege("scenario")) <= Rank(Needs(Call(r).kind)) /\ Call(r).kind # "mcp"
        BY <1>6, <2>2
      <3> QED
        BY <2>1, <2>2, <2>4, <3>1, <3>2, <1>3, <1>4, <1>5, Acts
    <2> QED
      BY <1>11, <2>3, <2>4 DEF SaveErrs
  <1>12. CASE GetScenario(r)
    <2>1. In(r, "handle", {"get"}) /\ UNCHANGED <<startVars, tokens, catalog, made>>
      BY <1>12 DEF GetScenario
    <2>2. req[r].pc = "handle" /\ Call(r).kind = "get"
      BY <2>1 DEF In
    <2>3. Call(r).name \in Names
      BY <1>1, <2>2 DEF RoleInv, WellFormed
    <2>4. CatalogInv'
      BY <1>1, <1>4, <1>12, <2>1, <2>3, ReadKeeps DEF GetScenario
    <2>5. Answer(r, "read") \/ Answer(r, "missing")
      BY <1>12 DEF GetScenario
    <2> QED
      BY <2>1, <2>2, <2>4, <2>5, <1>3, <1>4, <1>5, Tells
  <1>13. CASE IssueToken(r)
    <2>1. /\ In(r, "handle", {"issue"}) /\ Call(r).role \in Roles /\ Issue(r, Call(r).role)
          /\ Answer(r, "ok") /\ Makes(r, "token") /\ UNCHANGED <<startVars, catalog, saved>>
      BY <1>13 DEF IssueToken
    <2>2. req[r].pc = "handle" /\ Call(r).kind = "issue"
      BY <2>1 DEF In
    <2>3. \A k \in DOMAIN tokens' : tokens'[k].role \in Roles
      BY <1>2, <2>1, IssueKeeps
    <2>4. Rank(Privilege("token")) <= Rank(Needs(Call(r).kind)) /\ Call(r).kind # "mcp"
      BY <1>6, <2>2
    <2> QED
      BY <2>1, <2>2, <2>3, <2>4, <1>4, <1>5, Acts
  <1>14. CASE IssueRefused(r)
    <2>1. /\ In(r, "handle", {"issue"}) /\ Answer(r, "refused") /\ made' = made
          /\ UNCHANGED <<startVars, dbVars>>
      BY <1>14 DEF IssueRefused, vars
    <2>2. req[r].pc = "handle" /\ Call(r).kind # "mcp"
      BY <2>1 DEF In
    <2>3. UNCHANGED <<startVars, tokens, catalog, saved>>
      BY <2>1 DEF dbVars
    <2> QED
      BY <2>1, <2>2, <2>3, <1>3, <1>4, <1>5, Tells
  <1>15. CASE TokenErrs(r)
    <2>1. /\ In(r, "handle", {"issue", "revoke"}) /\ Answer(r, "failed")
          /\ UNCHANGED <<startVars, catalog, saved>> /\ (Call(r).kind = "issue" => Call(r).role \in Roles)
      BY <1>15 DEF TokenErrs
    <2>2. req[r].pc = "handle" /\ Call(r).kind # "mcp" /\ Call(r).kind \in {"issue", "revoke"}
      BY <2>1 DEF In
    <2>3. Rank(Privilege("token")) <= Rank(Needs(Call(r).kind))
      BY <1>6, <2>2
    <2>4. CASE UNCHANGED <<tokens, made>>
      BY <2>1, <2>2, <2>4, <1>3, <1>4, <1>5, Tells
    <2>5. CASE Call(r).kind = "issue" /\ Issue(r, Call(r).role) /\ Makes(r, "token")
      <3>1. \A k \in DOMAIN tokens' : tokens'[k].role \in Roles
        BY <1>2, <2>1, <2>5, IssueKeeps
      <3> QED
        BY <2>1, <2>2, <2>3, <2>5, <3>1, <1>4, <1>5, Acts
    <2>6. CASE DropToken(Call(r).id) /\ Makes(r, "token")
      <3>1. \A k \in DOMAIN tokens' : tokens'[k].role \in Roles
        BY <1>2, <2>6 DEF DropToken
      <3> QED
        BY <2>1, <2>2, <2>3, <2>6, <3>1, <1>4, <1>5, Acts
    <2> QED
      BY <1>15, <2>4, <2>5, <2>6 DEF TokenErrs
  <1>16. CASE RevokeToken(r)
    <2>1. In(r, "handle", {"revoke"}) /\ UNCHANGED <<startVars, catalog, saved>>
      BY <1>16 DEF RevokeToken
    <2>2. req[r].pc = "handle" /\ Call(r).kind = "revoke"
      BY <2>1 DEF In
    <2>3. CASE Answer(r, "missing") /\ UNCHANGED <<tokens, made>>
      BY <2>1, <2>2, <2>3, <1>3, <1>4, <1>5, Tells
    <2>4. CASE DropToken(Call(r).id) /\ Answer(r, "ok") /\ Makes(r, "token")
      <3>1. \A k \in DOMAIN tokens' : tokens'[k].role \in Roles
        BY <1>2, <2>4 DEF DropToken
      <3>2. Rank(Privilege("token")) <= Rank(Needs(Call(r).kind)) /\ Call(r).kind # "mcp"
        BY <1>6, <2>2
      <3> QED
        BY <2>1, <2>2, <2>4, <3>1, <3>2, <1>4, <1>5, Acts
    <2> QED
      BY <1>16, <2>3, <2>4 DEF RevokeToken
  <1>17. CASE McpRead(r) \/ McpDenied(r)
    <2>1. /\ Dispatches(r) /\ made' = made /\ UNCHANGED <<startVars, dbVars>>
          /\ Replies(r, "read") \/ Replies(r, "refused") \/ Replies(r, "denied")
      BY <1>17 DEF McpRead, McpDenied, vars
    <2>2. UNCHANGED <<startVars, tokens, catalog, saved>>
      BY <2>1 DEF dbVars
    <2> QED
      BY <2>1, <2>2, <1>3, <1>4, <1>5, McpTells
  <1>18. ASSUME Dispatches(r), Tool(r).tool = "upsert_scenario", Upsert(Tool(r).name, Tool(r).doc)
         PROVE  CatalogInv'
    <2>1. Call(r).kind = "mcp" /\ req[r].pc = "handle" /\ req[r].i \in DOMAIN Call(r).batch
      BY <1>18 DEF Dispatches, In
    <2>2. Tool(r) \in Range(Call(r).batch)
      BY <2>1 DEF Tool, Range
    <2>3. Tool(r).name \in Names /\ Tool(r).doc \in Docs
      BY <1>1, <1>18, <2>1, <2>2 DEF RoleInv, WellFormed
    <2> QED
      BY <1>1, <1>18, <2>3, UpsertKeeps
  <1>19. CASE McpUpsert(r)
    <2>1. /\ Dispatches(r) /\ Tool(r).tool = "upsert_scenario" /\ MayWrite(r) /\ Replies(r, "ok")
          /\ Upsert(Tool(r).name, Tool(r).doc) /\ Makes(r, "scenario") /\ UNCHANGED <<startVars, tokens>>
      BY <1>19 DEF McpUpsert
    <2>2. Tool(r).tool \in WriteTools
      BY <2>1 DEF WriteTools
    <2> QED
      BY <2>1, <2>2, <1>3, <1>4, <1>18, McpActs
  <1>20. CASE McpAssign(r)
    <2>1. Dispatches(r) /\ Tool(r).tool = "assign_scenario" /\ MayWrite(r) /\ UNCHANGED <<startVars, dbVars>>
      BY <1>20 DEF McpAssign, vars
    <2>2. Tool(r).tool \in WriteTools /\ UNCHANGED <<startVars, tokens, catalog, saved>>
      BY <2>1 DEF WriteTools, dbVars
    <2>3. CASE Replies(r, "ok") /\ Makes(r, "assignment")
      BY <2>1, <2>2, <2>3, <1>3, <1>4, McpActs
    <2>4. CASE Replies(r, "missing") /\ UNCHANGED made
      BY <2>1, <2>2, <2>4, <1>3, <1>4, <1>5, McpTells
    <2> QED
      BY <1>20, <2>3, <2>4 DEF McpAssign
  <1>21. CASE McpErrs(r)
    <2>1. /\ Dispatches(r) /\ Tool(r).tool \in WriteTools /\ MayWrite(r) /\ Replies(r, "failed")
          /\ UNCHANGED <<startVars, tokens>>
      BY <1>21 DEF McpErrs
    <2>2. CASE UNCHANGED <<catalog, saved, made>>
      BY <2>1, <2>2, <1>3, <1>4, <1>5, McpTells
    <2>3. CASE /\ Tool(r).tool = "upsert_scenario" /\ Upsert(Tool(r).name, Tool(r).doc)
               /\ Makes(r, "scenario")
      BY <2>1, <2>3, <1>3, <1>4, <1>18, McpActs
    <2>4. CASE Makes(r, "assignment") /\ UNCHANGED <<catalog, saved>>
      BY <2>1, <2>4, <1>3, <1>4, McpActs
    <2> QED
      BY <1>21, <2>2, <2>3, <2>4 DEF McpErrs
  <1>22. CASE McpEnds(r)
    BY <1>22, McpEndsKeeps
  <1> QED
    BY <1>7, <1>8, <1>10, <1>11, <1>12, <1>13, <1>14, <1>16, <1>17, <1>19, <1>20, <1>21, <1>22, <1>15 DEF Handler
-----------------------------------------------------------------------------
(* Types                                                                   *)

TokenTypes ==
    /\ lastId \in Nat /\ DOMAIN tokens \subseteq Secrets
    /\ \A k \in DOMAIN tokens : tokens[k] \in [id : 1..lastId, role : Roles]

\* What is stored is a document; what was shown was stored.
ScenarioTypes ==
    /\ catalog \in [Names -> [version : Nat, doc : Docs \cup {NoDoc}]]
    /\ \A n \in Names : Stored(n) => catalog[n].doc \in Docs
    /\ saved \subseteq [name : Names, version : Nat, doc : Docs]

DemoTypes ==
    /\ \A s \in Servers : \A i \in DOMAIN scns[s] : scns[s][i] \in [name : Names, doc : Docs]
    /\ \A row \in demo : row.kind \in {"run", "eval"} /\ row.name \in Names

TypesInv ==
    /\ TokenTypes /\ ScenarioTypes /\ DemoTypes /\ DOMAIN scns = Servers
    /\ assigned \subseteq Workers \X Names /\ faults \in 0..MaxFaults

\* Each of the places in a finite list has its own number of places before it,
\* so that each number below their count is taken.
LEMMA Places ==
    ASSUME NEW S, S \subseteq Nat, IsFiniteSet(S), NEW k \in 1..Cardinality(S)
    PROVE  \E i \in S : Cardinality({j \in S : j < i}) = k - 1
  <1> DEFINE T == 0..Cardinality(S) - 1
             f == [i \in S |-> Cardinality({j \in S : j < i})]
  <1>1. Cardinality(S) \in Nat
    BY FS_CardinalityType
  <1>2. ASSUME NEW i \in S
        PROVE  f[i] \in T /\ IsFiniteSet({j \in S : j < i})
    <2>1. {j \in S : j < i} \in SUBSET S /\ i \notin {j \in S : j < i}
      OBVIOUS
    <2>2. /\ IsFiniteSet({j \in S : j < i}) /\ Cardinality({j \in S : j < i}) \in Nat
          /\ Cardinality({j \in S : j < i}) <= Cardinality(S) /\ Cardinality({j \in S : j < i}) # Cardinality(S)
      BY <2>1, FS_Subset, FS_CardinalityType
    <2> QED
      BY <1>1, <2>2
  <1>3. ASSUME NEW h \in S, NEW i \in S, h < i
        PROVE  f[h] # f[i]
    <2>1. \A j \in S : j < h => j < i
      BY <1>3
    <2>2. {j \in S : j < h} \in SUBSET {j \in S : j < i}
      BY <2>1
    <2>3. h \in {j \in S : j < i} /\ h \notin {j \in S : j < h}
      BY <1>3
    <2>4. Cardinality({j \in S : j < h}) # Cardinality({j \in S : j < i})
      BY <1>2, <2>2, <2>3, FS_Subset
    <2> QED
      BY <2>4
  <1>4. f \in Injection(S, T)
    <2>1. \A h, i \in S : h # i => h < i \/ i < h
      OBVIOUS
    <2> QED
      BY <1>2, <1>3, <2>1 DEF Injection, IsInjective
  <1>5. IsFiniteSet(T) /\ Cardinality(T) = Cardinality(S)
    <2>1. PICK n \in Nat : n = Cardinality(S)
      BY <1>1
    <2>2. 0 \in Int /\ n - 1 \in Int
      OBVIOUS
    <2>3. IsFiniteSet(0..n - 1) /\ Cardinality(0..n - 1) = IF 0 > n - 1 THEN 0 ELSE (n - 1) - 0 + 1
      BY <2>2, FS_Interval
    <2> QED
      BY <2>1, <2>3
  <1>6. f \in Surjection(S, T)
    BY <1>4, <1>5, FS_Injection
  <1>7. k - 1 \in T
    BY <1>1
  <1>8. PICK i \in S : f[i] = k - 1
    BY <1>6, <1>7 DEF Surjection
  <1> QED
    BY <1>8

\* The list seedDemoData works through has scenarios that are stored.
LEMMA DemoListTypes ==
    ASSUME NEW k \in 1..Cardinality(Listed)
    PROVE  NameOrder[Place(k)] \in Names /\ Stored(NameOrder[Place(k)])
  <1>1. NameOrder \in Seq(Names) /\ Len(NameOrder) \in Nat /\ DOMAIN NameOrder = 1..Len(NameOrder)
    BY ServerStartAssumption
  <1>2. 1 \in Int /\ Len(NameOrder) \in Int
    BY <1>1
  <1>3. Listed \in SUBSET (1..Len(NameOrder)) /\ Listed \subseteq Nat
    BY <1>1 DEF Listed
  <1>4. IsFiniteSet(1..Len(NameOrder))
    BY <1>2, FS_Interval
  <1>5. IsFiniteSet(Listed)
    BY <1>3, <1>4, FS_Subset
  <1>6. Place(k) \in Listed
    BY <1>3, <1>5, Places DEF Place
  <1> QED
    BY <1>1, <1>6 DEF Listed

LEMMA IssueTypes ==
    ASSUME TokenTypes, NEW x \in Secrets, NEW role \in Roles, Issue(x, role)
    PROVE  TokenTypes'
  <1>1. CASE x \in DOMAIN tokens
    BY <1>1 DEF Issue, TokenTypes
  <1>2. CASE x \notin DOMAIN tokens
    <2>1. /\ DOMAIN tokens' = DOMAIN tokens \cup {x} /\ lastId' = lastId + 1
          /\ \A k \in DOMAIN tokens' : tokens'[k] = IF k = x THEN [id |-> lastId + 1, role |-> role] ELSE tokens[k]
      BY <1>2 DEF Issue
    <2>2. lastId' \in Nat /\ lastId + 1 \in 1..lastId' /\ 1..lastId \subseteq 1..lastId'
      BY <2>1 DEF TokenTypes
    <2>3. \A k \in DOMAIN tokens : tokens[k] \in [id : 1..lastId', role : Roles]
      BY <2>2 DEF TokenTypes
    <2> QED
      BY <2>1, <2>2, <2>3 DEF TokenTypes
  <1> QED
    BY <1>1, <1>2

LEMMA UpsertTypes ==
    ASSUME ScenarioTypes, NEW n \in Names, NEW d \in Docs, Upsert(n, d)
    PROVE  ScenarioTypes'
  <1>1. PICK v \in Nat : v = catalog[n].version
    BY DEF ScenarioTypes
  <1>2. /\ catalog' = [catalog EXCEPT ![n] = [version |-> v + 1, doc |-> d]]
        /\ saved' = saved \cup {[name |-> n, version |-> v + 1, doc |-> d]}
    BY <1>1 DEF Upsert
  <1> QED
    BY <1>1, <1>2 DEF ScenarioTypes, Stored

LEMMA ReadTypes ==
    ASSUME ScenarioTypes, NEW n \in Names, Stored(n), catalog' = catalog,
           saved' = saved \cup {[name |-> n, version |-> catalog[n].version, doc |-> catalog[n].doc]}
    PROVE  ScenarioTypes'
  <1>1. catalog[n].version \in Nat /\ catalog[n].doc \in Docs
    BY DEF ScenarioTypes
  <1> QED
    BY <1>1 DEF ScenarioTypes, Stored

LEMMA FaultTypes ==
    ASSUME faults \in 0..MaxFaults, Fault \/ faults' = faults
    PROVE  faults' \in 0..MaxFaults
  BY ServerStartAssumption DEF Fault

\* A replica that starts: seeds, lists the scenarios, records demo rows.
LEMMA StartStepTypes ==
    ASSUME TypesInv, NEW s \in Servers, StartStep(s) \/ StartFault(s), assigned' = assigned
    PROVE  TypesInv'
  <1>1. TokenTypes'
    <2>1. CASE UNCHANGED <<tokens, lastId>>
      BY <2>1 DEF TypesInv, TokenTypes
    <2>2. CASE BootstrapToken(s)
      <3>1. PICK b \in {Bootstrap(s)[1], Bootstrap(s)[2]} :
                UNCHANGED <<tokens, lastId>> \/ (b.secret # NoSecret /\ Issue(b.secret, b.role))
        BY <2>2 DEF BootstrapToken
      <3>2. b.role \in Roles /\ b.secret \in Secrets \cup {NoSecret}
        BY ServerStartAssumption DEF Bootstrap, Roles
      <3> QED
        BY <2>1, <3>1, <3>2, IssueTypes DEF TypesInv
    <2>3. StartStep(s) \/ StartFault(s) => BootstrapToken(s) \/ UNCHANGED <<tokens, lastId>>
      BY DEF StartStep, StartFault, Open, LookUp, Apply, ApplyConflicts, Migrated, Bootstrapped, SeedScenario, Seeded,
             DemoBegins, DemoRecords, DemoRefused, DemoEnds, LookUpErrs, BootstrapErrs, StartErrs, Exit, dbVars
    <2> QED
      BY <2>1, <2>2, <2>3
  <1>2. ScenarioTypes'
    <2>1. CASE UNCHANGED <<catalog, saved>>
      BY <2>1 DEF TypesInv, ScenarioTypes, Stored
    <2>2. CASE SeedScenario(s)
      <3>1. at[s] \in DOMAIN SeedDir
        BY <2>2 DEF SeedScenario
      <3>2. PICK d \in Docs : d = SeedDir[at[s]]
        BY <3>1, MigrationFacts
      <3>3. CASE d \in Unparsable \/ NameOf[d] = NoName
        BY <2>1, <2>2, <3>2, <3>3 DEF SeedScenario
      <3>4. CASE ~(d \in Unparsable \/ NameOf[d] = NoName)
        <4>1. NameOf[d] \in Names /\ Upsert(NameOf[d], d)
          BY <2>2, <3>2, <3>4, ServerStartAssumption DEF SeedScenario
        <4> QED
          BY <4>1, UpsertTypes DEF TypesInv
      <3> QED
        BY <3>3, <3>4
    <2>3. StartStep(s) \/ StartFault(s) => SeedScenario(s) \/ UNCHANGED <<catalog, saved>>
      BY DEF StartStep, StartFault, Open, LookUp, Apply, ApplyConflicts, Migrated, BootstrapToken, Bootstrapped, Seeded,
             DemoBegins, DemoRecords, DemoRefused, DemoEnds, LookUpErrs, BootstrapErrs, StartErrs, Exit, dbVars
    <2> QED
      BY <2>1, <2>2, <2>3
  <1>3. DOMAIN scns' = Servers /\ \A x \in Servers \ {s} : scns'[x] = scns[x]
    BY DEF TypesInv, StartStep, StartFault, Open, LookUp, Apply, ApplyConflicts, Migrated, BootstrapToken, Bootstrapped,
           SeedScenario, Seeded, DemoBegins, DemoRecords, DemoRefused, DemoEnds, LookUpErrs, BootstrapErrs, StartErrs,
           Exit, dbVars
  <1>4. DemoTypes'
    <2>1. \A x \in Servers : \A i \in DOMAIN scns[x] : scns[x][i] \in [name : Names, doc : Docs]
      BY DEF TypesInv, DemoTypes
    <2>2. \A row \in demo : row.kind \in {"run", "eval"} /\ row.name \in Names
      BY DEF TypesInv, DemoTypes
    <2>3. CASE UNCHANGED <<scns, demo>>
      BY <2>1, <2>2, <2>3 DEF DemoTypes
    <2>4. CASE scns'[s] = <<>> /\ demo' = demo
      <3>1. DOMAIN scns'[s] = {}
        BY <2>4
      <3> QED
        BY <1>3, <2>1, <2>2, <2>4, <3>1 DEF DemoTypes
    <2>5. CASE DemoBegins(s)
      <3>1. /\ DOMAIN scns'[s] = 1..Cardinality(Listed) /\ demo' = demo
            /\ \A k \in 1..Cardinality(Listed) :
                   scns'[s][k] = [name |-> NameOrder[Place(k)], doc |-> catalog[NameOrder[Place(k)]].doc]
        BY <2>5 DEF DemoBegins, TypesInv
      <3>2. ASSUME NEW k \in 1..Cardinality(Listed)
            PROVE  scns'[s][k] \in [name : Names, doc : Docs]
        <4>1. PICK n : n = NameOrder[Place(k)]
          OBVIOUS
        <4>2. n \in Names /\ Stored(n)
          BY <4>1, DemoListTypes
        <4>3. catalog[n].doc \in Docs
          BY <4>2 DEF TypesInv, ScenarioTypes
        <4>4. scns'[s][k] = [name |-> n, doc |-> catalog[n].doc]
          BY <3>1, <4>1
        <4> QED
          BY <4>2, <4>3, <4>4
      <3> QED
        BY <1>3, <2>1, <2>2, <3>1, <3>2 DEF DemoTypes
    <2>6. CASE DemoRecords(s) \/ DemoRefused(s)
      <3>1. PICK sc, i : i = at[s] /\ sc = scns[s][i]
        OBVIOUS
      <3>2. /\ i \in DOMAIN scns[s] /\ scns' = scns
            /\ \E rows \in SUBSET DemoRows(i, sc.name, sc.doc) : demo' = demo \cup rows
        <4>1. CASE DemoRecords(s)
          <5>1. demo' = demo \cup {} \/ demo' = demo \cup DemoRows(i, sc.name, sc.doc)
            BY <3>1, <4>1 DEF DemoRecords
          <5> QED
            BY <3>1, <4>1, <5>1 DEF DemoRecords
        <4>2. CASE DemoRefused(s)
          <5>1. demo' = demo \cup {} \/ demo' = demo \cup {DemoRun(i, sc.name)}
            BY <3>1, <4>2 DEF DemoRefused
          <5> QED
            BY <3>1, <4>2, <5>1 DEF DemoRefused, DemoRows
        <4> QED
          BY <2>6, <4>1, <4>2
      <3>3. sc.name \in Names
        BY <2>1, <3>1, <3>2
      <3>4. \A row \in DemoRows(i, sc.name, sc.doc) : row.kind \in {"run", "eval"} /\ row.name = sc.name
        BY DEF DemoRows, DemoRun, DemoEvalRun
      <3> QED
        BY <2>1, <2>2, <3>2, <3>3, <3>4 DEF DemoTypes
    <2>7. \/ UNCHANGED <<scns, demo>> \/ DemoBegins(s) \/ DemoRecords(s) \/ DemoRefused(s)
          \/ scns'[s] = <<>> /\ demo' = demo
      BY DEF TypesInv, StartStep, StartFault, Open, LookUp, Apply, ApplyConflicts, Migrated, BootstrapToken,
             Bootstrapped, SeedScenario, Seeded, DemoEnds, LookUpErrs, BootstrapErrs, StartErrs, Exit, dbVars
    <2> QED
      BY <2>3, <2>4, <2>5, <2>6, <2>7
  <1>5. Fault \/ faults' = faults
    BY DEF StartStep, StartFault, Open, LookUp, Apply, ApplyConflicts, Migrated, BootstrapToken, Bootstrapped,
           SeedScenario, Seeded, DemoBegins, DemoRecords, DemoRefused, DemoEnds, LookUpErrs, BootstrapErrs, StartErrs,
           Exit, dbVars
  <1> QED
    BY <1>1, <1>2, <1>3, <1>4, <1>5, FaultTypes DEF TypesInv

\* A request that is admitted, answered or handled, call by call.
LEMMA HandlerTypes ==
    ASSUME ControlPlaneInv, TypesInv, NEW r \in Requests, Arrive(r) \/ Handler(r)
    PROVE  TypesInv'
  <1>1. RoleInv(r) /\ r \in Secrets
    BY ControlPlaneAssumption DEF ControlPlaneInv
  <1>2. UNCHANGED <<tokens, lastId>> => TokenTypes'
    BY DEF TypesInv, TokenTypes
  <1>3. UNCHANGED <<catalog, saved>> => ScenarioTypes'
    BY DEF TypesInv, ScenarioTypes, Stored
  <1>4. (Fault \/ faults' = faults) => faults' \in 0..MaxFaults
    BY FaultTypes DEF TypesInv
  <1>5. UNCHANGED <<scns, demo>> => DemoTypes' /\ DOMAIN scns' = Servers
    BY DEF TypesInv, DemoTypes
  <1>6. assigned' = assigned => assigned' \subseteq Workers \X Names
    BY DEF TypesInv
  <1>7. CASE Arrive(r) \/ Admit(r) \/ Reject(r) \/ LookupErrs(r) \/ IssueRefused(r)
             \/ McpRead(r) \/ McpDenied(r) \/ McpEnds(r)
    <2>1. UNCHANGED <<startVars, dbVars, demo, assigned>> /\ (Fault \/ faults' = faults)
      BY <1>7 DEF Arrive, Admit, Reject, LookupErrs, IssueRefused, McpRead, McpDenied, McpEnds, vars
    <2> QED
      BY <1>2, <1>3, <1>4, <1>5, <1>6, <2>1 DEF TypesInv, startVars, dbVars
  <1>8. ASSUME In(r, "handle", {"create", "update"}), Acceptable(Call(r)), Upsert(SaveName(Call(r)), Call(r).doc)
        PROVE  ScenarioTypes'
    <2>1. Call(r).doc \in Docs /\ SaveName(Call(r)) \in Names
      BY <1>1, <1>8, ServerStartAssumption DEF RoleInv, WellFormed, In, Acceptable, SaveName
    <2> QED
      BY <1>8, <2>1, UpsertTypes DEF TypesInv
  <1>9. CASE SaveScenario(r) \/ SaveErrs(r)
    <2>1. UNCHANGED <<startVars, tokens, lastId, demo, assigned>> /\ (Fault \/ faults' = faults)
      BY <1>9 DEF SaveScenario, SaveErrs
    <2>2. \/ UNCHANGED <<catalog, saved>>
          \/ /\ In(r, "handle", {"create", "update"}) /\ Acceptable(Call(r))
             /\ Upsert(SaveName(Call(r)), Call(r).doc)
      BY <1>9 DEF SaveScenario, SaveErrs
    <2>3. ScenarioTypes'
      BY <1>3, <1>8, <2>2
    <2> QED
      BY <1>2, <1>4, <1>5, <1>6, <2>1, <2>3 DEF TypesInv, startVars
  <1>10. CASE GetScenario(r)
    <2>1. PICK n : n = Call(r).name
      OBVIOUS
    <2>2. n \in Names
      BY <1>1, <1>10, <2>1 DEF GetScenario, In, RoleInv, WellFormed
    <2>3. /\ UNCHANGED <<startVars, tokens, lastId, catalog, demo, faults, assigned>>
          /\ \/ /\ Stored(n)
                /\ saved' = saved \cup {[name |-> n, version |-> catalog[n].version, doc |-> catalog[n].doc]}
             \/ saved' = saved
      BY <1>10, <2>1 DEF GetScenario
    <2>4. ScenarioTypes'
      BY <1>3, <2>2, <2>3, ReadTypes DEF TypesInv
    <2> QED
      BY <1>2, <1>4, <1>5, <1>6, <2>3, <2>4 DEF TypesInv, startVars
  <1>11. CASE IssueToken(r) \/ RevokeToken(r) \/ TokenErrs(r)
    <2>1. UNCHANGED <<startVars, catalog, saved, demo, assigned>> /\ (Fault \/ faults' = faults)
      BY <1>11 DEF IssueToken, RevokeToken, TokenErrs
    <2>2. ASSUME UNCHANGED <<tokens, lastId>> PROVE TokenTypes'
      BY <1>2, <2>2
    <2>3. ASSUME Call(r).role \in Roles, Issue(r, Call(r).role) PROVE TokenTypes'
      BY <1>1, <2>3, IssueTypes DEF TypesInv
    <2>4. ASSUME DropToken(Call(r).id), lastId' = lastId PROVE TokenTypes'
      <3>1. DOMAIN tokens' \subseteq DOMAIN tokens /\ \A k \in DOMAIN tokens' : tokens'[k] = tokens[k]
        BY <2>4 DEF DropToken
      <3> QED
        BY <2>4, <3>1 DEF TypesInv, TokenTypes
    <2>5. \/ UNCHANGED <<tokens, lastId>>
          \/ Call(r).role \in Roles /\ Issue(r, Call(r).role)
          \/ DropToken(Call(r).id) /\ lastId' = lastId
      BY <1>11 DEF IssueToken, RevokeToken, TokenErrs, In
    <2>6. TokenTypes'
      BY <2>2, <2>3, <2>4, <2>5
    <2> QED
      BY <1>3, <1>4, <1>5, <1>6, <2>1, <2>6 DEF TypesInv, startVars
  <1>12. ASSUME Dispatches(r)
         PROVE  /\ Tool(r).tool = "upsert_scenario" => Tool(r).name \in Names /\ Tool(r).doc \in Docs
                /\ Tool(r).tool = "assign_scenario" => Tool(r).name \in Names
    <2>1. PICK bt, i : bt = Call(r).batch /\ i = req[r].i
      OBVIOUS
    <2>2. i \in DOMAIN bt /\ req[r].pc = "handle" /\ Call(r).kind = "mcp"
      BY <1>12, <2>1 DEF Dispatches, In
    <2>3. bt[i] \in Range(bt)
      BY <2>2 DEF Range
    <2> QED
      BY <1>1, <2>1, <2>2, <2>3 DEF RoleInv, WellFormed, Tool
  <1>13. ASSUME Dispatches(r), Tool(r).tool = "assign_scenario", Assign(Tool(r))
         PROVE  assigned' \subseteq Workers \X Names
    <2>1. PICK n, x : n = Tool(r).name /\ x = Tool(r).worker
      OBVIOUS
    <2>2. x \in Workers /\ assigned' = assigned \cup {<<x, n>>} /\ n \in Names
      BY <1>13, <1>12, <2>1 DEF Assign, Assignable
    <2> QED
      BY <2>2 DEF TypesInv
  <1>14. CASE McpUpsert(r) \/ McpAssign(r) \/ McpErrs(r)
    <2>1. UNCHANGED <<startVars, tokens, lastId, demo>> /\ (Fault \/ faults' = faults) /\ Dispatches(r)
      BY <1>14 DEF McpUpsert, McpAssign, McpErrs, vars, dbVars
    <2>2. /\ \/ UNCHANGED <<catalog, saved>>
             \/ Tool(r).tool = "upsert_scenario" /\ Upsert(Tool(r).name, Tool(r).doc)
          /\ \/ UNCHANGED assigned
             \/ Tool(r).tool = "assign_scenario" /\ Assign(Tool(r))
      BY <1>14 DEF McpUpsert, McpAssign, McpErrs, vars, dbVars
    <2>3. ScenarioTypes'
      BY <1>3, <1>12, <2>1, <2>2, UpsertTypes DEF TypesInv
    <2>4. assigned' \subseteq Workers \X Names
      BY <1>13, <2>1, <2>2 DEF TypesInv
    <2> QED
      BY <1>2, <1>4, <1>5, <2>1, <2>3, <2>4 DEF TypesInv, startVars
  <1> QED
    BY <1>7, <1>9, <1>10, <1>11, <1>14 DEF Handler

LEMMA TypesBegin ==
    ASSUME ControlPlaneInit
    PROVE  TypesInv
  <1>1. /\ scns = [x \in Servers |-> <<>>] /\ demo = {} /\ assigned = {} /\ faults \in {0, MaxFaults - 1}
        /\ ColdStart \/ WarmStart
    BY DEF ControlPlaneInit, StartInit
  <1>2. \A x \in Servers : DOMAIN scns[x] = {}
    BY <1>1
  <1>3. catalog = [n \in Names |-> Absent] /\ saved = {}
    BY <1>1 DEF ColdStart, WarmStart
  <1>4. ScenarioTypes
    BY <1>3 DEF ScenarioTypes, Absent, Stored
  <1>5. TokenTypes
    <2>1. CASE ColdStart
      <3>1. DOMAIN tokens = {} /\ lastId = 0
        BY <2>1 DEF ColdStart
      <3> QED
        BY <3>1 DEF TokenTypes
    <2>2. CASE WarmStart
      <3>1. PICK s \in Servers : tokens = Installed(s) /\ lastId = 2
        BY <2>2 DEF WarmStart
      <3>2. 1 \in 1..2 /\ 2 \in 1..2 /\ AdminToken[s] \in Secrets \cup {NoSecret} /\ WorkerToken[s] \in Secrets \cup {NoSecret}
        BY ServerStartAssumption
      <3> QED
        BY <3>1, <3>2 DEF Installed, Roles, TokenTypes
    <2> QED
      BY <1>1, <2>1, <2>2
  <1>6. faults \in 0..MaxFaults
    BY <1>1, ServerStartAssumption
  <1> QED
    BY <1>1, <1>2, <1>4, <1>5, <1>6 DEF TypesInv, DemoTypes

LEMMA TypesKeep ==
    ASSUME ControlPlaneInv, TypesInv, [ControlPlaneNext]_allVars
    PROVE  TypesInv'
  <1>1. CASE UNCHANGED allVars
    BY <1>1 DEF allVars, vars, startVars, dbVars, reqVars, TypesInv, TokenTypes, ScenarioTypes, DemoTypes, Stored
  <1>2. ASSUME NEW s \in Servers, ServerStep(s)
        PROVE  TypesInv'
    BY <1>2, StartStepTypes DEF ServerStep
  <1>3. ASSUME NEW r \in Requests, Arrive(r) \/ Handler(r)
        PROVE  TypesInv'
    BY <1>3, HandlerTypes
  <1> QED
    BY <1>1, <1>2, <1>3 DEF ControlPlaneNext

-----------------------------------------------------------------------------
(* The control plane                                                       *)

LEMMA StepKeeps ==
    ASSUME ControlPlaneInv, ControlPlaneNext
    PROVE  ControlPlaneInv'
  <1>1. Witness /\ auth' = auth
    BY DEF ControlPlaneNext
  <1>2. ASSUME NEW s \in Servers, ServerStep(s) PROVE ControlPlaneInv'
    BY <1>1, <1>2, ServerStepKeeps
  <1>3. ASSUME NEW r \in Requests, Arrive(r) PROVE ControlPlaneInv'
    BY <1>1, <1>3, ArriveKeeps
  <1>4. ASSUME NEW r \in Requests, Handler(r) PROVE ControlPlaneInv'
    BY <1>1, <1>4, HandlerKeeps
  <1> QED
    BY <1>2, <1>3, <1>4 DEF ControlPlaneNext

LEMMA StutterKeeps ==
    ASSUME ControlPlaneInv, UNCHANGED allVars
    PROVE  ControlPlaneInv'
  <1>1. UNCHANGED <<startVars, auth, req, answers, made, held, tokens, catalog, saved>>
    BY DEF allVars, vars, dbVars, reqVars
  <1>2. StartInv' /\ CatalogInv'
    BY <1>1, StartUnchanged, CatalogUnchanged DEF ControlPlaneInv
  <1>3. RequestTypeOK'
    BY <1>1 DEF ControlPlaneInv, RequestTypeOK
  <1>4. ASSUME NEW x \in Requests
        PROVE  /\ RoleInv(x)' /\ AnswerInv(x)' /\ Authorised(x)'
               /\ (req'[x].pc = "done" /\ WritesOf(x)' # {} => Balanced(x, Silent(x))')
    <2>1. /\ RoleInv(x) /\ AnswerInv(x) /\ Authorised(x)
          /\ (req[x].pc = "done" /\ WritesOf(x) # {} => Balanced(x, Silent(x)))
      BY DEF ControlPlaneInv, ChangesAuthorised, AnswersTellTheTruth
    <2> QED
      BY <1>1, <2>1 DEF RoleInv, AnswerInv, Authorised, Balanced, Count, Silent, WritesOf, Call
  <1> QED
    BY <1>2, <1>3, <1>4 DEF ControlPlaneInv, ChangesAuthorised, AnswersTellTheTruth

LEMMA ControlPlaneBegins ==
    ASSUME ControlPlaneInit
    PROVE  ControlPlaneInv
  <1>1. StartInv /\ CatalogInv
    BY StartBegins, CatalogBegins DEF ControlPlaneInit
  <1>2. \A k \in DOMAIN tokens : tokens[k].role \in Roles
    <2>1. CASE ColdStart
      <3>1. DOMAIN tokens = {}
        BY <2>1 DEF ColdStart
      <3> QED
        BY <3>1
    <2>2. CASE WarmStart
      <3>1. PICK s \in Servers : tokens = Installed(s)
        BY <2>2 DEF WarmStart
      <3> QED
        BY <3>1 DEF Installed, Roles
    <2> QED
      BY <2>1, <2>2 DEF ControlPlaneInit, StartInit
  <1>3. PICK first, quiet : first = Idle /\ quiet = [Idle EXCEPT !.pc = "lost"]
    OBVIOUS
  <1>4. /\ first \in RequestType /\ first.pc = "idle" /\ first.role = NoRole /\ first.i = 1
        /\ quiet \in RequestType /\ quiet.pc = "lost" /\ quiet.role = NoRole /\ quiet.i = 1
    BY <1>3 DEF Idle, RequestType
  <1>5. \A r \in Requests : (req[r] = first \/ req[r] = quiet) /\ answers[r] = <<>> /\ made[r] = <<>>
    BY <1>3 DEF ControlPlaneInit
  <1>6. RequestTypeOK
    <2>1. req \in [Requests -> RequestType]
      BY <1>3, <1>4 DEF ControlPlaneInit
    <2>2. /\ answers \in [Requests -> Seq(Outcomes)] /\ made \in [Requests -> Seq(Changes)]
          /\ held \in [Requests -> SUBSET Roles] /\ auth \in BOOLEAN
      BY DEF ControlPlaneInit
    <2> QED
      BY <1>2, <2>1, <2>2 DEF RequestTypeOK
  <1>7. ASSUME NEW r \in Requests
        PROVE  RoleInv(r) /\ AnswerInv(r) /\ Authorised(r) /\ req[r].pc # "done"
    BY <1>4, <1>5 DEF RoleInv, AnswerInv, Authorised
  <1> QED
    BY <1>1, <1>6, <1>7 DEF ControlPlaneInv, ChangesAuthorised, AnswersTellTheTruth

\* The invariant holds for every number of replicas, requests and faults: the
\* schema is one replica's, the versions of a scenario stand for one document
\* each, and every request has made what its role allows and its answers say.
THEOREM ControlPlaneInvariance == ControlPlaneSpec => []ControlPlaneInv
  <1>1. ControlPlaneInit => ControlPlaneInv
    BY ControlPlaneBegins
  <1>2. ControlPlaneInv /\ [ControlPlaneNext]_allVars => ControlPlaneInv'
    BY StepKeeps, StutterKeeps
  <1> QED
    BY <1>1, <1>2, PTL DEF ControlPlaneSpec

\* applyMigrations: replicas that start together, die half-way and start again
\* leave every migration committed at most once, in order, and complete before
\* anybody serves, though nothing is locked between the look and the apply.
THEOREM MigrationsOnceHolds == ControlPlaneSpec => []MigrationsOnce
  <1>1. ControlPlaneInv => MigrationsOnce
    BY DEF ControlPlaneInv, StartInv
  <1> QED
    BY <1>1, ControlPlaneInvariance, PTL

\* UpsertScenario and GetScenario: whoever was shown a version of a scenario
\* was shown its one document, whatever else saves it, through the routes, the
\* batches on /mcp and the seed directory of a replica that starts.
THEOREM VersionNamesOneDocumentHolds == ControlPlaneSpec => []VersionNamesOneDocument
  <1>1. ControlPlaneInv => VersionNamesOneDocument
    BY DEF ControlPlaneInv, CatalogInv
  <1> QED
    BY <1>1, ControlPlaneInvariance, PTL

\* RequireRole and mcpWritePolicy: every change was asked for with a token that
\* had, at some moment after the request arrived, a role that allows it.
THEOREM ChangesAuthorisedHolds == ControlPlaneSpec => []ChangesAuthorised
  <1>1. ControlPlaneInv => ChangesAuthorised
    BY DEF ControlPlaneInv
  <1> QED
    BY <1>1, ControlPlaneInvariance, PTL

\* The handlers and the endpoint /mcp: a request made as many changes as it was
\* told "ok", and more only where it was told 500 (a statement that saves, issues,
\* revokes or assigns may be executed with its result lost) or asked for no answer.
THEOREM AnswersTellTheTruthHolds == ControlPlaneSpec => []AnswersTellTheTruth
  <1>1. ControlPlaneInv => AnswersTellTheTruth
    BY DEF ControlPlaneInv
  <1> QED
    BY <1>1, ControlPlaneInvariance, PTL

\* newServeCmd, the handlers and the tables they share keep their types: what is
\* stored, listed for the demo seed and shown is a scenario document, every
\* token has an id that was given out, and no more faults than MaxFaults occur.
THEOREM ControlPlaneTypeCorrect == ControlPlaneSpec => []ControlPlaneTypeOK
  <1>1. ControlPlaneInit => ControlPlaneInv /\ TypesInv
    BY ControlPlaneBegins, TypesBegin
  <1>2. ControlPlaneInv /\ TypesInv /\ [ControlPlaneNext]_allVars => ControlPlaneInv' /\ TypesInv'
    BY StepKeeps, StutterKeeps, TypesKeep
  <1>3. ControlPlaneInv /\ TypesInv => ControlPlaneTypeOK
    BY DEF ControlPlaneTypeOK, StartTypeOK, ControlPlaneInv, StartInv, TypesInv, TokenTypes, ScenarioTypes, DemoTypes
  <1> QED
    BY <1>1, <1>2, <1>3, PTL DEF ControlPlaneSpec
=============================================================================
