------------------------ MODULE StorageBackendsProofs ------------------------
(***************************************************************************)
(* Proof that the two backends agree (StorageBackends), for any scenarios, *)
(* workers, tokens, runs and reads, as long as a list without a limit      *)
(* holds no more than the 100 rows Postgres returns; and what is proved of *)
(* the replicas and of the stores, put together.                           *)
(***************************************************************************)
EXTENDS MCControlPlane, ControlPlaneProofs, FiniteSetTheorems, TLAPS

-----------------------------------------------------------------------------
(* Sorted lists                                                            *)

\* Keys that differ: what every list is sorted by.
Keyed(S, key) ==
    /\ IsFiniteSet(S) /\ key \in [S -> Int]
    /\ \A q, r \in S : key[q] = key[r] => q = r

Before(S, key, r) == {q \in S : key[q] < key[r]}

\* Of n rows each has its own number of rows before it, and those numbers are
\* 0 to n - 1.
LEMMA Ranks ==
    ASSUME NEW S, NEW key, Keyed(S, key)
    PROVE  /\ Cardinality(S) \in Nat
           /\ \A r \in S : Cardinality(Before(S, key, r)) \in 0..Cardinality(S) - 1
           /\ \A q, r \in S : Cardinality(Before(S, key, q)) = Cardinality(Before(S, key, r)) => q = r
           /\ \A k \in 0..Cardinality(S) - 1 : \E r \in S : Cardinality(Before(S, key, r)) = k
  <1>1. IsFiniteSet(S) /\ Cardinality(S) \in Nat
    BY FS_CardinalityType DEF Keyed
  <1>2. ASSUME NEW q \in S, NEW r \in S, key[q] < key[r]
        PROVE  Cardinality(Before(S, key, q)) < Cardinality(Before(S, key, r))
    <2>1. Before(S, key, q) \in SUBSET Before(S, key, r) /\ q \in Before(S, key, r) /\ q \notin Before(S, key, q)
      BY <1>2 DEF Before, Keyed
    <2>2. IsFiniteSet(Before(S, key, r)) /\ IsFiniteSet(Before(S, key, q))
      BY <1>1, FS_Subset DEF Before
    <2>3. /\ Cardinality(Before(S, key, q)) \in Nat /\ Cardinality(Before(S, key, r)) \in Nat
          /\ Cardinality(Before(S, key, q)) <= Cardinality(Before(S, key, r))
          /\ Cardinality(Before(S, key, q)) # Cardinality(Before(S, key, r))
      BY <2>1, <2>2, FS_Subset, FS_CardinalityType
    <2> QED
      BY <2>3
  <1>3. ASSUME NEW r \in S
        PROVE  Cardinality(Before(S, key, r)) \in 0..Cardinality(S) - 1
    <2>1. Before(S, key, r) \in SUBSET S /\ r \notin Before(S, key, r)
      BY DEF Before, Keyed
    <2>2. /\ Cardinality(Before(S, key, r)) \in Nat
          /\ Cardinality(Before(S, key, r)) <= Cardinality(S)
          /\ Cardinality(Before(S, key, r)) # Cardinality(S)
      BY <1>1, <2>1, FS_Subset, FS_CardinalityType
    <2> QED
      BY <1>1, <2>2
  <1>4. ASSUME NEW q \in S, NEW r \in S, Cardinality(Before(S, key, q)) = Cardinality(Before(S, key, r))
        PROVE  q = r
    <2>1. Cardinality(Before(S, key, q)) \in Nat /\ Cardinality(Before(S, key, r)) \in Nat
      BY <1>1, <1>3
    <2>2. ~(key[q] < key[r]) /\ ~(key[r] < key[q])
      BY <1>2, <1>4, <2>1
    <2>3. key[q] = key[r]
      BY <2>2 DEF Keyed
    <2> QED
      BY <2>3 DEF Keyed
  <1>5. ASSUME NEW k \in 0..Cardinality(S) - 1
        PROVE  \E r \in S : Cardinality(Before(S, key, r)) = k
    <2> DEFINE T == 0..Cardinality(S) - 1
               f == [r \in S |-> Cardinality(Before(S, key, r))]
    <2>1. f \in Injection(S, T)
      BY <1>3, <1>4 DEF Injection, IsInjective
    <2>2. IsFiniteSet(T) /\ Cardinality(T) = Cardinality(S)
      <3>1. PICK n \in Nat : n = Cardinality(S)
        BY <1>1
      <3>2. 0 \in Int /\ n - 1 \in Int
        OBVIOUS
      <3>3. IsFiniteSet(0..n - 1) /\ Cardinality(0..n - 1) = IF 0 > n - 1 THEN 0 ELSE (n - 1) - 0 + 1
        BY <3>2, FS_Interval
      <3> QED
        BY <3>1, <3>3
    <2>3. f \in Surjection(S, T)
      BY <2>1, <2>2, FS_Injection
    <2> QED
      BY <2>3 DEF Surjection
  <1> QED
    BY <1>1, <1>3, <1>4, <1>5

\* The k-th of a sorted list is the row with k - 1 rows before it.
LEMMA InOrderPlaces ==
    ASSUME NEW S, NEW key, Keyed(S, key)
    PROVE  /\ DOMAIN InOrder(S, key) = 1..Cardinality(S) /\ Cardinality(S) \in Nat
           /\ \A k \in 1..Cardinality(S) :
                  InOrder(S, key)[k] \in S /\ Cardinality(Before(S, key, InOrder(S, key)[k])) = k - 1
           /\ \A r \in S : \E k \in 1..Cardinality(S) : InOrder(S, key)[k] = r
  <1>1. DOMAIN InOrder(S, key) = 1..Cardinality(S)
    BY DEF InOrder
  <1>2. ASSUME NEW k \in 1..Cardinality(S)
        PROVE  InOrder(S, key)[k] \in S /\ Cardinality(Before(S, key, InOrder(S, key)[k])) = k - 1
    <2>1. k - 1 \in 0..Cardinality(S) - 1
      BY Ranks
    <2>2. \E r \in S : Cardinality(Before(S, key, r)) = k - 1
      BY <2>1, Ranks
    <2>3. InOrder(S, key)[k] = CHOOSE r \in S : Cardinality(Before(S, key, r)) = k - 1
      BY DEF InOrder, Before
    <2> QED
      BY <2>2, <2>3
  <1>3. ASSUME NEW r \in S
        PROVE  \E k \in 1..Cardinality(S) : InOrder(S, key)[k] = r
    <2>1. PICK k \in 1..Cardinality(S) : k - 1 = Cardinality(Before(S, key, r))
      <3>1. PICK b \in 0..Cardinality(S) - 1 : b = Cardinality(Before(S, key, r))
        BY Ranks
      <3>2. b + 1 \in 1..Cardinality(S) /\ (b + 1) - 1 = b
        BY Ranks
      <3> QED
        BY <3>1, <3>2
    <2>2. InOrder(S, key)[k] = r
      BY <1>2, <2>1, Ranks
    <2> QED
      BY <2>2
  <1> QED
    BY <1>1, <1>2, <1>3, Ranks

LEMMA RankTaken ==
    ASSUME NEW S, NEW key, Keyed(S, key), NEW k \in 0..Cardinality(S) - 1
    PROVE  \E r \in S : Cardinality(Before(S, key, r)) = k
  BY Ranks

\* A set of numbers has a least one.
LEMMA Least ==
    ASSUME NEW S \in SUBSET Int, IsFiniteSet(S), S # {}
    PROVE  \E i \in S : \A j \in S : i <= j
  <1> DEFINE key == [x \in S |-> x]
  <1>1. Keyed(S, key)
    BY DEF Keyed
  <1>2. Cardinality(S) \in Nat /\ Cardinality(S) # 0
    <2>1. Cardinality(S) # 0
      BY FS_EmptySet
    <2>2. Cardinality(S) \in Nat
      BY FS_CardinalityType
    <2> QED
      BY <2>1, <2>2
  <1>3. PICK i \in S : Cardinality(Before(S, key, i)) = 0
    <2>1. 0 \in 0..Cardinality(S) - 1
      BY <1>2
    <2> HIDE DEF key
    <2> QED
      BY <1>1, <2>1, RankTaken
  <1>4. Before(S, key, i) = {}
    <2>1. IsFiniteSet(Before(S, key, i))
      BY FS_Subset DEF Before
    <2> QED
      BY <1>3, <2>1, FS_EmptySet
  <1>5. ASSUME NEW j \in S PROVE i <= j
    <2>1. key[i] = i /\ key[j] = j /\ i \in Int /\ j \in Int
      OBVIOUS
    <2>2. ~(key[j] < key[i])
      BY <1>4 DEF Before
    <2> QED
      BY <2>1, <2>2
  <1> QED
    BY <1>5

\* Rows that correspond one to one, in the same order, are listed in the same
\* order.
LEMMA SameOrder ==
    ASSUME NEW S, NEW key, Keyed(S, key), NEW T, NEW pos, pos \in [T -> Int], IsFiniteSet(T),
           NEW h, h \in Bijection(S, T),
           \A q, r \in S : key[q] < key[r] <=> pos[h[q]] < pos[h[r]]
    PROVE  /\ Keyed(T, pos) /\ Cardinality(T) = Cardinality(S)
           /\ \A k \in 1..Cardinality(S) : InOrder(T, pos)[k] = h[InOrder(S, key)[k]]
  <1>1. h \in [S -> T] /\ (\A q, r \in S : h[q] = h[r] => q = r) /\ (\A t \in T : \E r \in S : h[r] = t)
    BY DEF Bijection, Injection, Surjection, IsInjective
  <1>2. Keyed(T, pos)
    <2>1. ASSUME NEW t \in T, NEW u \in T, pos[t] = pos[u]
          PROVE  t = u
      <3>1. PICK q \in S, r \in S : h[q] = t /\ h[r] = u
        BY <1>1
      <3>2. ~(key[q] < key[r]) /\ ~(key[r] < key[q])
        BY <2>1, <3>1
      <3>3. key[q] = key[r]
        BY <3>2 DEF Keyed
      <3> QED
        BY <3>1, <3>3 DEF Keyed
    <2> QED
      BY <2>1 DEF Keyed
  <1>3. Cardinality(T) = Cardinality(S)
    BY FS_Bijection DEF Keyed, ExistsBijection
  <1>4. ASSUME NEW r \in S
        PROVE  Cardinality(Before(T, pos, h[r])) = Cardinality(Before(S, key, r))
    <2> DEFINE A == Before(S, key, r)
               B == Before(T, pos, h[r])
               g == [q \in A |-> h[q]]
    <2>1. A \subseteq S /\ B \subseteq T /\ \A q \in S : q \in A <=> h[q] \in B
      BY <1>1 DEF Before
    <2>2. g \in [A -> B] /\ (\A q, p \in A : g[q] = g[p] => q = p)
      BY <1>1, <2>1
    <2>3. \A b \in B : \E q \in A : g[q] = b
      BY <1>1, <2>1
    <2>4. g \in Bijection(A, B)
      BY <2>2, <2>3 DEF Bijection, Injection, Surjection, IsInjective
    <2>5. IsFiniteSet(A)
      BY <2>1, FS_Subset DEF Keyed
    <2> HIDE DEF A, B, g
    <2> QED
      <3>1. Cardinality(B) = Cardinality(A)
        BY <2>4, <2>5, FS_Bijection DEF ExistsBijection
      <3> QED
        BY <3>1 DEF A, B
  <1>5. ASSUME NEW k \in 1..Cardinality(S)
        PROVE  InOrder(T, pos)[k] = h[InOrder(S, key)[k]]
    <2>1. PICK r \in S : r = InOrder(S, key)[k] /\ Cardinality(Before(S, key, r)) = k - 1
      BY InOrderPlaces
    <2>2. PICK t \in T : t = InOrder(T, pos)[k] /\ Cardinality(Before(T, pos, t)) = k - 1
      BY <1>2, <1>3, InOrderPlaces
    <2>3. h[r] \in T /\ Cardinality(Before(T, pos, h[r])) = Cardinality(Before(T, pos, t))
      BY <1>1, <1>4, <2>1, <2>2
    <2>4. h[r] = t
      BY <1>2, <2>3, Ranks
    <2> QED
      BY <2>1, <2>2, <2>4
  <1> QED
    BY <1>2, <1>3, <1>5
-----------------------------------------------------------------------------
(* Rows and maps                                                           *)

LEMMA OneRow == One({}) = NotFound /\ \A r : One({r}) = r
  BY DEF One

LEMMA PutFacts ==
    ASSUME NEW m, NEW k, NEW v
    PROVE  /\ DOMAIN Put(m, k, v) = DOMAIN m \cup {k} /\ Put(m, k, v)[k] = v
           /\ \A x \in DOMAIN m : x # k => Put(m, k, v)[x] = m[x]
  BY DEF Put

\* Replacing a key in a map of rows is replacing its row in the table.
LEMMA PutRange ==
    ASSUME NEW m, NEW k, NEW v
    PROVE  Range(Put(m, k, v)) = {m[x] : x \in DOMAIN m \ {k}} \cup {v}
  <1> DEFINE p == Put(m, k, v)
  <1>1. DOMAIN p = DOMAIN m \cup {k} /\ p[k] = v /\ \A x \in DOMAIN m \ {k} : p[x] = m[x]
    <2>1. DOMAIN p = DOMAIN m \cup {k}
      BY PutFacts
    <2>2. p[k] = v
      BY DEF Put
    <2>3. \A x \in DOMAIN m \ {k} : p[x] = m[x]
      BY DEF Put
    <2> QED
      BY <2>1, <2>2, <2>3
  <1> HIDE DEF p
  <1>2. Range(p) = {m[x] : x \in DOMAIN m \ {k}} \cup {v}
    <2>1. ASSUME NEW e \in Range(p)
          PROVE  e \in {m[x] : x \in DOMAIN m \ {k}} \/ e = v
      BY <1>1 DEF Range
    <2>2. ASSUME NEW x \in DOMAIN m \ {k}
          PROVE  m[x] \in Range(p)
      BY <1>1 DEF Range
    <2>3. v \in Range(p)
      BY <1>1 DEF Range
    <2> QED
      BY <2>1, <2>2, <2>3
  <1> QED
    BY <1>2 DEF p

LEMMA AppendRange ==
    ASSUME NEW S, NEW s \in Seq(S), NEW e \in S
    PROVE  /\ Append(s, e) \in Seq(S) /\ Len(Append(s, e)) = Len(s) + 1
           /\ Append(s, e)[Len(s) + 1] = e /\ \A i \in 1..Len(s) : Append(s, e)[i] = s[i]
           /\ Range(Append(s, e)) = Range(s) \cup {e}
  <1>1. /\ Append(s, e) \in Seq(S) /\ Len(Append(s, e)) = Len(s) + 1
        /\ Append(s, e)[Len(s) + 1] = e /\ \A i \in 1..Len(s) : Append(s, e)[i] = s[i]
        /\ DOMAIN Append(s, e) = 1..Len(s) + 1 /\ DOMAIN s = 1..Len(s) /\ Len(s) \in Nat
    OBVIOUS
  <1>2. 1..Len(s) + 1 = 1..Len(s) \cup {Len(s) + 1}
    BY <1>1
  <1> QED
    BY <1>1, <1>2 DEF Range
-----------------------------------------------------------------------------
(* What the invariant says of reads                                        *)

LEMMA ScenariosReadAlike ==
    ASSUME SameScenarios
    PROVE  /\ MemListScenarios = PgListScenarios
           /\ \A n : MemGetScenario(n) = PgGetScenario(n)
           /\ \A n : PgGetScenario(n) # NotFound <=> n \in DOMAIN mem.scenarios
  <1>1. MemListScenarios = PgListScenarios
    BY DEF SameScenarios, MemListScenarios, PgListScenarios
  <1>2. ASSUME NEW n, n \in DOMAIN mem.scenarios
        PROVE  MemGetScenario(n) = PgGetScenario(n) /\ PgGetScenario(n) # NotFound
    <2>1. {r \in pg.scenarios : r.name = n} = {mem.scenarios[n]}
      BY <1>2 DEF SameScenarios, Range
    <2>2. mem.scenarios[n] # NotFound
      BY <1>2, StorageBackendsAssumption DEF SameScenarios
    <2> QED
      BY <1>2, <2>1, <2>2, OneRow DEF MemGetScenario, PgGetScenario
  <1>3. ASSUME NEW n, n \notin DOMAIN mem.scenarios
        PROVE  MemGetScenario(n) = PgGetScenario(n) /\ PgGetScenario(n) = NotFound
    <2>1. {r \in pg.scenarios : r.name = n} = {}
      BY <1>3 DEF SameScenarios, Range
    <2> QED
      BY <1>3, <2>1, OneRow DEF MemGetScenario, PgGetScenario
  <1> QED
    BY <1>1, <1>2, <1>3

LEMMA TokensReadAlike ==
    ASSUME SameTokens
    PROVE  /\ MemListTokens = PgListTokens
           /\ \A k : MemLookup(k) = PgLookup(k)
  <1>1. {[id |-> t.id, role |-> t.role] : t \in Range(mem.tokens)}
            = {[id |-> t.id, role |-> t.role] : t \in pg.tokens}
    <2>1. ASSUME NEW k \in DOMAIN mem.tokens
          PROVE  \E t \in pg.tokens : t.id = mem.tokens[k].id /\ t.role = mem.tokens[k].role
      <3> DEFINE row == [digest |-> k, id |-> mem.tokens[k].id, role |-> mem.tokens[k].role]
      <3>1. row \in pg.tokens
        BY DEF SameTokens
      <3>2. row.id = mem.tokens[k].id /\ row.role = mem.tokens[k].role
        OBVIOUS
      <3> QED
        BY <3>1, <3>2
    <2>2. ASSUME NEW t \in pg.tokens
          PROVE  \E k \in DOMAIN mem.tokens : t.id = mem.tokens[k].id /\ t.role = mem.tokens[k].role
      BY DEF SameTokens
    <2>3. ASSUME NEW e
          PROVE  (\E k \in DOMAIN mem.tokens : e = [id |-> mem.tokens[k].id, role |-> mem.tokens[k].role])
                     <=> (\E t \in pg.tokens : e = [id |-> t.id, role |-> t.role])
      BY <2>1, <2>2
    <2>4. \A e : e \in {[id |-> t.id, role |-> t.role] : t \in Range(mem.tokens)}
                    <=> \E k \in DOMAIN mem.tokens : e = [id |-> mem.tokens[k].id, role |-> mem.tokens[k].role]
      BY DEF Range
    <2> QED
      BY <2>3, <2>4
  <1>2. ASSUME NEW k, k \in DOMAIN mem.tokens
        PROVE  MemLookup(k) = PgLookup(k)
    <2> DEFINE row == [digest |-> k, id |-> mem.tokens[k].id, role |-> mem.tokens[k].role]
    <2>1. {r \in pg.tokens : r.digest = k} = {row}
      BY <1>2 DEF SameTokens
    <2>2. row # NotFound
      BY <1>2, StorageBackendsAssumption DEF SameTokens, Token
    <2>3. PgLookup(k) = row.role
      BY <2>1, <2>2, OneRow DEF PgLookup
    <2> QED
      BY <1>2, <2>3 DEF MemLookup
  <1>3. ASSUME NEW k, k \notin DOMAIN mem.tokens
        PROVE  MemLookup(k) = PgLookup(k)
    <2>1. {r \in pg.tokens : r.digest = k} = {}
      BY <1>3 DEF SameTokens
    <2> QED
      BY <1>3, <2>1, OneRow DEF MemLookup, PgLookup
  <1> QED
    BY <1>1, <1>2, <1>3 DEF MemListTokens, PgListTokens

\* The first entries of a worker's slice are its rows, in the order of time.
LEMMA AssignmentsReadAlike ==
    ASSUME SameAssignments, calls \in Nat, NEW x \in WorkerIds
    PROVE  NamesIn(MemAssigned(x)) = PgListAssignments(x)
  <1> DEFINE R == {a \in pg.assignments : a.worker = x}
             key == [r \in R |-> r.at]
  <1>1. PICK s \in Seq(ScenarioNames) : s = MemAssigned(x)
    BY DEF SameAssignments
  <1> DEFINE F == Firsts(s)
             pos == [i \in F |-> i]
             h == [a \in R |-> CHOOSE i \in F : s[i] = a.name]
  <1>2. /\ DOMAIN s = 1..Len(s) /\ Len(s) \in Nat /\ F \subseteq 1..Len(s)
        /\ \A i, j \in F : s[i] = s[j] => i = j
    <2>1. DOMAIN s = 1..Len(s) /\ Len(s) \in Nat /\ F \subseteq 1..Len(s)
      BY DEF Firsts
    <2>2. ASSUME NEW i \in F, NEW j \in F, s[i] = s[j], i < j
          PROVE  FALSE
      BY <2>1, <2>2 DEF Firsts
    <2> QED
      BY <2>1, <2>2
  <1>3. /\ \A a \in R : a.name \in Range(s) /\ a.at \in Int
        /\ \A i \in F : \E a \in R : a.name = s[i]
        /\ \A a, b \in R : a.name = b.name \/ a.at = b.at => a = b
        /\ \A a, b \in R : \A i, j \in F : s[i] = a.name /\ s[j] = b.name => (a.at < b.at <=> i < j)
    <2>1. Range(s) = {a.name : a \in R}
      BY <1>1 DEF SameAssignments
    <2>2. \A i \in F : s[i] \in Range(s)
      BY DEF Firsts, Range
    <2>3. \A a \in R : a.worker = x /\ a.at \in Int
      BY DEF SameAssignments
    <2>4. \A a, b \in R : a.name = b.name \/ a.at = b.at => a = b
      BY <2>3 DEF SameAssignments
    <2>5. \A a, b \in R : \A i, j \in F : s[i] = a.name /\ s[j] = b.name => (a.at < b.at <=> i < j)
      BY <1>1, <2>3 DEF SameAssignments
    <2> QED
      BY <2>1, <2>2, <2>3, <2>4, <2>5
  <1>4. ASSUME NEW a \in R
        PROVE  \E i \in F : s[i] = a.name
    <2> DEFINE P == {i \in 1..Len(s) : s[i] = a.name}
    <2>1. P # {}
      BY <1>2, <1>3 DEF Range
    <2>2. P \in SUBSET Int /\ IsFiniteSet(P)
      <3>1. IsFiniteSet(1..Len(s))
        BY <1>2, FS_Interval
      <3> QED
        BY <1>2, <3>1, FS_Subset
    <2>3. PICK i \in P : \A j \in P : i <= j
      <3> HIDE DEF P
      <3> QED
        BY <2>1, <2>2, Least
    <2>4. \A j \in 1..(i - 1) : s[j] # s[i]
      BY <1>2, <2>3
    <2>5. i \in F
      BY <1>2, <2>3, <2>4 DEF Firsts
    <2> QED
      BY <2>3, <2>5
  <1>5. \A a \in R : h[a] \in F /\ s[h[a]] = a.name
    BY <1>4
  <1>6. h \in Bijection(R, F)
    <2>1. h \in [R -> F]
      BY <1>5
    <2> HIDE DEF h, R, F
    <2>2. \A a, b \in R : h[a] = h[b] => a = b
      BY <1>3, <1>5
    <2>3. ASSUME NEW i \in F
          PROVE  \E a \in R : h[a] = i
      <3>1. PICK a \in R : a.name = s[i]
        BY <1>3
      <3>2. h[a] \in F /\ s[h[a]] = s[i]
        BY <1>5, <3>1
      <3> QED
        BY <1>2, <3>2
    <2> QED
      BY <2>1, <2>2, <2>3 DEF Bijection, Injection, Surjection, IsInjective
  <1> HIDE DEF h, R, F
  <1>7. IsFiniteSet(F)
    <2>1. IsFiniteSet(1..Len(s))
      BY <1>2, FS_Interval
    <2> QED
      BY <1>2, <2>1, FS_Subset
  <1>8. IsFiniteSet(R)
    BY <1>6, <1>7, FS_Injection DEF Bijection
  <1>9. Keyed(R, key) /\ pos \in [F -> Int]
    BY <1>2, <1>3, <1>8 DEF Keyed
  <1>10. \A q, r \in R : key[q] < key[r] <=> pos[h[q]] < pos[h[r]]
    BY <1>3, <1>5
  <1> DEFINE rows == InOrder(R, key)
             firsts == InOrder(F, pos)
  <1>11. /\ \A k \in 1..Cardinality(R) : firsts[k] = h[rows[k]]
         /\ Keyed(F, pos) /\ Cardinality(F) = Cardinality(R)
    <2> HIDE DEF key, pos
    <2> QED
      BY <1>6, <1>7, <1>9, <1>10, SameOrder
  <1>12. /\ DOMAIN rows = 1..Cardinality(R) /\ DOMAIN firsts = 1..Cardinality(R)
         /\ \A k \in 1..Cardinality(R) : rows[k] \in R
    <2> HIDE DEF key, pos
    <2> QED
      BY <1>9, <1>11, InOrderPlaces
  <1> HIDE DEF rows, firsts
  <1>13. \A k \in 1..Cardinality(R) : s[firsts[k]] = rows[k].name
    BY <1>5, <1>11, <1>12
  <1>14. [k \in DOMAIN firsts |-> s[firsts[k]]] = [k \in DOMAIN rows |-> rows[k].name]
    BY <1>12, <1>13
  <1>15. NamesIn(s) = [k \in DOMAIN firsts |-> s[firsts[k]]]
    BY DEF NamesIn, Sorted, firsts, F, pos
  <1>16. PgListAssignments(x) = [k \in DOMAIN rows |-> rows[k].name]
    BY DEF PgListAssignments, ByTime, rows, R, key
  <1> QED
    BY <1>1, <1>14, <1>15, <1>16

\* A list without a limit: as long as there are at most 100 rows the default
\* of Postgres cuts none.
LEMMA DefaultCutsNothing ==
    ASSUME MaxCalls <= 100, calls \in Nat, calls <= MaxCalls, NEW limit \in Limits,
           NEW D, IsFiniteSet(D), Cardinality(D) <= calls, NEW f, f \in [D -> Range(f)],
           NEW rows, rows \subseteq Range(f)
    PROVE  Take(Newest(rows), limit) = Take(Newest(rows), IF limit <= 0 THEN 100 ELSE limit)
  <1>1. Cardinality(D) \in Nat
    BY FS_CardinalityType
  <1>2. IsFiniteSet(Range(f)) /\ Cardinality(Range(f)) \in Nat /\ Cardinality(Range(f)) <= Cardinality(D)
    <2>1. f \in Surjection(D, Range(f))
      BY DEF Surjection, Range
    <2>2. IsFiniteSet(Range(f)) /\ Cardinality(Range(f)) <= Cardinality(D)
      BY <2>1, FS_Surjection
    <2> QED
      BY <2>2, FS_CardinalityType
  <1>3. IsFiniteSet(rows) /\ Cardinality(rows) \in Nat /\ Cardinality(rows) <= Cardinality(Range(f))
    BY <1>2, FS_Subset, FS_CardinalityType
  <1>4. PICK n \in Nat : n = Len(Newest(rows)) /\ n <= 100
    <2>1. Len(Newest(rows)) = Cardinality(rows)
      BY <1>3 DEF Newest, InOrder
    <2> QED
      BY <1>1, <1>2, <1>3, <2>1, StorageBackendsAssumption
  <1>5. limit \in Int
    BY StorageBackendsAssumption
  <1> QED
    BY <1>4, <1>5 DEF Take

\* What tables of runs hold, run by run.
LEMMA KeptRuns ==
    ASSUME SameRuns
    PROVE  /\ \A i \in DOMAIN mem.runs \ RefusedRuns : mem.runs[i] \in pg.runs
           /\ \A i \in DOMAIN mem.runs : mem.runs[i] \in Run /\ mem.runs[i].id = i
           /\ \A r \in pg.runs : r.id \in DOMAIN mem.runs \ RefusedRuns /\ r = mem.runs[r.id]
           /\ \A i \in DOMAIN mem.runs \ RefusedRuns : \A k \in DOMAIN mem.checksByRun[i] :
                  [run |-> i, name |-> mem.checksByRun[i][k].name, passed |-> mem.checksByRun[i][k].passed]
                      \in pg.checkResults
           /\ \A e \in pg.checkResults :
                  /\ e.run \in DOMAIN mem.runs \ RefusedRuns
                  /\ \E k \in DOMAIN mem.checksByRun[e.run] :
                         e = [run |-> e.run, name |-> mem.checksByRun[e.run][k].name,
                              passed |-> mem.checksByRun[e.run][k].passed]
  <1> DEFINE K == DOMAIN mem.runs \ RefusedRuns
             cs == mem.checksByRun
  <1>1. /\ pg.runs = {mem.runs[i] : i \in K} /\ \A i \in DOMAIN mem.runs : mem.runs[i] \in Run /\ mem.runs[i].id = i
        /\ pg.checkResults = UNION {CheckRows(i, cs[i]) : i \in K}
    BY DEF SameRuns
  <1>2. \A i, e : e \in CheckRows(i, cs[i])
                    <=> \E k \in DOMAIN cs[i] : e = [run |-> i, name |-> cs[i][k].name, passed |-> cs[i][k].passed]
    BY DEF CheckRows, Range
  <1>3. ASSUME NEW i \in K, NEW k \in DOMAIN cs[i]
        PROVE  [run |-> i, name |-> cs[i][k].name, passed |-> cs[i][k].passed] \in pg.checkResults
    BY <1>1, <1>2
  <1>4. ASSUME NEW e \in pg.checkResults
        PROVE  /\ e.run \in K
               /\ \E k \in DOMAIN cs[e.run] :
                      e = [run |-> e.run, name |-> cs[e.run][k].name, passed |-> cs[e.run][k].passed]
    <2>1. PICK i \in K : e \in CheckRows(i, cs[i])
      BY <1>1
    <2>2. PICK k \in DOMAIN cs[i] : e = [run |-> i, name |-> cs[i][k].name, passed |-> cs[i][k].passed]
      BY <1>2, <2>1
    <2>3. e.run = i
      BY <2>2
    <2> QED
      BY <2>2, <2>3
  <1>5. \A r \in pg.runs : r.id \in K /\ r = mem.runs[r.id]
    BY <1>1
  <1> QED
    BY <1>1, <1>3, <1>4, <1>5

LEMMA GetRunsAlike ==
    ASSUME SameRuns, NEW i
    PROVE  IF i \in RefusedRuns THEN PgGetRun(i) = NotFound ELSE SameReport(MemGetRun(i), PgGetRun(i))
  <1>1. CASE i \notin DOMAIN mem.runs \ RefusedRuns
    <2>1. {r \in pg.runs : r.id = i} = {}
      BY <1>1, KeptRuns
    <2>2. PgGetRun(i) = NotFound
      BY <2>1, OneRow DEF PgGetRun
    <2> QED
      BY <1>1, <2>2 DEF SameReport, MemGetRun
  <1>2. CASE i \in DOMAIN mem.runs \ RefusedRuns
    <2>1. PICK row \in Run, checks \in CheckResults :
              row = mem.runs[i] /\ checks = mem.checksByRun[i] /\ row.id = i /\ row \in pg.runs
      BY <1>2, KeptRuns DEF SameRuns
    <2> DEFINE rows == {[name |-> e.name, passed |-> e.passed] : e \in {x \in pg.checkResults : x.run = i}}
    <2>2. {r \in pg.runs : r.id = i} = {row}
      BY <2>1, KeptRuns
    <2>3. row # NotFound /\ <<row, checks>> # NotFound
      BY <2>1, StorageBackendsAssumption
    <2>4. \A k \in DOMAIN checks : checks[k] \in Check
      <3>1. checks \in Seq(Check)
        BY StorageBackendsAssumption
      <3> QED
        BY <3>1
    <2>5. rows = Range(checks)
      <3>1. ASSUME NEW k \in DOMAIN checks
            PROVE  checks[k] = [name |-> checks[k].name, passed |-> checks[k].passed]
        <4>1. checks[k] \in Check
          BY <2>4
        <4> QED
          BY <4>1 DEF Check
      <3>2. ASSUME NEW k \in DOMAIN checks
            PROVE  checks[k] \in rows
        <4>1. [run |-> i, name |-> checks[k].name, passed |-> checks[k].passed] \in pg.checkResults
          BY <1>2, <2>1, KeptRuns
        <4> QED
          BY <3>1, <4>1
      <3>3. ASSUME NEW e \in pg.checkResults, e.run = i
            PROVE  \E k \in DOMAIN checks : [name |-> e.name, passed |-> e.passed] = checks[k]
        <4>1. PICK k \in DOMAIN checks : e = [run |-> i, name |-> checks[k].name, passed |-> checks[k].passed]
          BY <2>1, <3>3, KeptRuns
        <4> QED
          BY <3>1, <4>1
      <3> QED
        BY <3>2, <3>3 DEF Range
    <2> HIDE DEF rows
    <2>6. rows \in SUBSET Check
      BY <2>4, <2>5 DEF Range
    <2>7. PgGetRun(i) = <<row, rows>>
      BY <2>2, <2>3, OneRow DEF PgGetRun, rows
    <2>8. <<row, rows>> # NotFound
      BY <2>6, StorageBackendsAssumption
    <2>9. MemGetRun(i) = <<row, checks>>
      BY <1>2, <2>1 DEF MemGetRun
    <2> QED
      BY <1>2, <2>3, <2>5, <2>7, <2>8, <2>9 DEF SameReport
  <1> QED
    BY <1>1, <1>2

\* Verdicts that correspond one to one have one rate.
LEMMA SameRates ==
    ASSUME NEW V, NEW W, IsFiniteSet(V), NEW h, h \in Bijection(V, W), \A v \in V : h[v].passed <=> v.passed
    PROVE  Rate(V) = Rate(W)
  <1> DEFINE A == {v \in V : v.passed}
             B == {v \in W : v.passed}
             g == [v \in A |-> h[v]]
  <1>1. h \in [V -> W] /\ (\A q, r \in V : h[q] = h[r] => q = r) /\ (\A u \in W : \E v \in V : h[v] = u)
    BY DEF Bijection, Injection, Surjection, IsInjective
  <1>2. A \subseteq V /\ B \subseteq W /\ \A v \in V : v \in A <=> h[v] \in B
    BY <1>1
  <1> HIDE DEF A, B
  <1>3. g \in [A -> B] /\ (\A q, p \in A : g[q] = g[p] => q = p) /\ (\A b \in B : \E q \in A : g[q] = b)
    BY <1>1, <1>2
  <1>4. g \in Bijection(A, B)
    BY <1>3 DEF Bijection, Injection, Surjection, IsInjective
  <1>5. IsFiniteSet(A)
    BY <1>2, FS_Subset
  <1> HIDE DEF g
  <1>6. Cardinality(B) = Cardinality(A) /\ Cardinality(W) = Cardinality(V)
    BY <1>4, <1>5, FS_Bijection DEF ExistsBijection
  <1> QED
    BY <1>6 DEF Rate, A, B

\* In a run that was kept a name has one entry, and one row.
LEMMA RatesAlike ==
    ASSUME SameRuns, NEW n, AllRunsKept(n), NEW since \in Nat, NEW c
    PROVE  MemSLO(n, since, c) = PgSLO(n, since, c)
  <1> DEFINE V == MemVerdicts(n, since, c)
             W == PgVerdicts(n, since, c)
             cs == mem.checksByRun
             I == {i \in DOMAIN mem.runs : mem.runs[i].scenario = n /\ ~(mem.runs[i].started < since)}
             verdict(i, k) == [run |-> i, entry |-> k, passed |-> cs[i][k].passed]
             h == [v \in V |-> [run |-> v.run, name |-> c, passed |-> v.passed]]
  <1>1. /\ \A v \in V : \E i \in I : \E k \in DOMAIN cs[i] : cs[i][k].name = c /\ v = verdict(i, k)
        /\ \A i \in I : \A k \in DOMAIN cs[i] : cs[i][k].name = c => verdict(i, k) \in V
    BY DEF MemVerdicts
  <1>2. \A e : e \in W <=> /\ e \in pg.checkResults /\ e.name = c
                           /\ \E r \in pg.runs : r.id = e.run /\ r.scenario = n /\ r.started >= since
    BY DEF PgVerdicts
  <1>3. ASSUME NEW i \in I
        PROVE  /\ i \in DOMAIN mem.runs \ RefusedRuns /\ mem.runs[i].started >= since
               /\ \A j, k \in DOMAIN cs[i] : cs[i][j].name = cs[i][k].name => j = k
    <2>1. i \in DOMAIN mem.runs \ RefusedRuns
      BY DEF AllRunsKept
    <2>2. mem.runs[i].started \in Nat
      BY <2>1, KeptRuns DEF Run
    <2>3. ~Repeats(NamesOf(cs[i]))
      BY <2>1 DEF RefusedRuns
    <2> QED
      BY <2>1, <2>2, <2>3 DEF Repeats, NamesOf
  <1>4. \A i \in DOMAIN mem.runs : mem.runs[i].started \in Nat /\ mem.runs[i].id = i
    BY KeptRuns DEF Run
  <1> HIDE DEF V, W, cs
  <1>5. \A u, v \in V : u.run = v.run => u = v
    <2>1. ASSUME NEW u \in V, NEW v \in V, u.run = v.run
          PROVE  u = v
      <3>1. PICK i \in I : \E k \in DOMAIN cs[i] : cs[i][k].name = c /\ u = verdict(i, k)
        BY <1>1
      <3>2. PICK j \in DOMAIN cs[i] : cs[i][j].name = c /\ u = verdict(i, j)
        BY <3>1
      <3>3. PICK m \in I : \E k \in DOMAIN cs[m] : cs[m][k].name = c /\ v = verdict(m, k)
        BY <1>1
      <3>4. PICK k \in DOMAIN cs[m] : cs[m][k].name = c /\ v = verdict(m, k)
        BY <3>3
      <3>5. i = m
        BY <2>1, <3>2, <3>4
      <3>6. j = k
        BY <1>3, <3>2, <3>4, <3>5
      <3> QED
        BY <3>2, <3>4, <3>5, <3>6
    <2> QED
      BY <2>1
  <1>6. \A v \in V : v.run \in DOMAIN mem.runs
    BY <1>1
  <1>7. IsFiniteSet(V)
    <2> DEFINE g == [v \in V |-> v.run]
    <2>1. g \in Injection(V, DOMAIN mem.runs)
      BY <1>5, <1>6 DEF Injection, IsInjective
    <2>2. IsFiniteSet(DOMAIN mem.runs)
      BY DEF SameRuns
    <2> QED
      BY <2>1, <2>2, FS_Injection
  <1>8. ASSUME NEW v \in V
        PROVE  h[v] \in W
    <2>1. PICK i \in I : \E k \in DOMAIN cs[i] : cs[i][k].name = c /\ v = verdict(i, k)
      BY <1>1
    <2>2. PICK k \in DOMAIN cs[i] : cs[i][k].name = c /\ v = verdict(i, k)
      BY <2>1
    <2>3. h[v] = [run |-> i, name |-> cs[i][k].name, passed |-> cs[i][k].passed]
      BY <2>2
    <2>4. h[v] \in pg.checkResults
      BY <1>3, <2>3, KeptRuns DEF cs
    <2>5. mem.runs[i] \in pg.runs /\ mem.runs[i].id = i /\ mem.runs[i].scenario = n /\ mem.runs[i].started >= since
      BY <1>3, <1>4, KeptRuns
    <2> QED
      BY <1>2, <2>2, <2>3, <2>4, <2>5
  <1>9. ASSUME NEW e \in W
        PROVE  \E v \in V : h[v] = e
    <2>1. PICK r \in pg.runs : r.id = e.run /\ r.scenario = n /\ r.started >= since
      BY <1>2
    <2>2. e.run \in DOMAIN mem.runs /\ r = mem.runs[e.run]
      BY <2>1, KeptRuns
    <2>3. e.run \in I
      BY <1>4, <2>1, <2>2
    <2>4. PICK k \in DOMAIN cs[e.run] : e = [run |-> e.run, name |-> cs[e.run][k].name, passed |-> cs[e.run][k].passed]
      BY <1>2, KeptRuns DEF cs
    <2>5. cs[e.run][k].name = c
      BY <1>2, <2>4
    <2>6. verdict(e.run, k) \in V
      BY <1>1, <2>3, <2>5
    <2>7. h[verdict(e.run, k)] = e
      BY <2>4, <2>5, <2>6
    <2> QED
      BY <2>6, <2>7
  <1>10. h \in Bijection(V, W)
    <2>1. h \in [V -> W]
      BY <1>8
    <2>2. \A u, v \in V : h[u] = h[v] => u = v
      BY <1>5
    <2> HIDE DEF h
    <2> QED
      BY <1>9, <2>1, <2>2 DEF Bijection, Injection, Surjection, IsInjective
  <1>11. \A v \in V : h[v].passed <=> v.passed
    OBVIOUS
  <1> HIDE DEF h
  <1>12. Rate(V) = Rate(W)
    BY <1>7, <1>10, <1>11, SameRates
  <1> QED
    BY <1>12 DEF MemSLO, PgSLO, V, W

LEMMA RunsReadAlike ==
    ASSUME SameRuns, calls \in Nat, calls <= MaxCalls, MaxCalls <= 100, NEW n, AllRunsKept(n)
    PROVE  /\ \A limit \in Limits : MemListRuns(n, limit) = PgListRuns(n, limit)
           /\ \A since \in 0..calls : MemSamples(n, since) = PgSamples(n, since)
  <1>1. {r \in Range(mem.runs) : r.scenario = n} = {r \in pg.runs : r.scenario = n}
    BY KeptRuns DEF AllRunsKept, Range
  <1>2. ASSUME NEW limit \in Limits
        PROVE  MemListRuns(n, limit) = PgListRuns(n, limit)
    <2> DEFINE rows == {r \in pg.runs : r.scenario = n}
               f == [i \in DOMAIN mem.runs |-> mem.runs[i]]
    <2>1. rows \subseteq Range(f) /\ f \in [DOMAIN mem.runs -> Range(f)]
      <3>1. \A r \in rows : \E i \in DOMAIN mem.runs : f[i] = r
        BY KeptRuns
      <3>2. DOMAIN f = DOMAIN mem.runs /\ f = [i \in DOMAIN f |-> f[i]]
        OBVIOUS
      <3> HIDE DEF rows, f
      <3>3. \A i \in DOMAIN f : f[i] \in Range(f)
        BY DEF Range
      <3> QED
        BY <3>1, <3>2, <3>3
    <2>2. IsFiniteSet(DOMAIN mem.runs) /\ Cardinality(DOMAIN mem.runs) <= calls
      BY DEF SameRuns
    <2>3. MemListRuns(n, limit) = Take(Newest(rows), limit)
      BY <1>1 DEF MemListRuns
    <2> HIDE DEF rows, f
    <2>4. Take(Newest(rows), limit) = Take(Newest(rows), IF limit <= 0 THEN 100 ELSE limit)
      BY <2>1, <2>2, DefaultCutsNothing
    <2> QED
      BY <2>3, <2>4 DEF PgListRuns, rows
  <1>3. ASSUME NEW since \in 0..calls
        PROVE  MemSamples(n, since) = PgSamples(n, since)
    <2>1. ASSUME NEW s \in Range(mem.samples), s.scenario = n
          PROVE  s \in pg.samples /\ (~(s.started < since) <=> s.started >= since)
      <3>1. s.id \in DOMAIN mem.runs /\ s = mem.runs[s.id]
        BY DEF SameRuns
      <3>2. s.id \notin RefusedRuns
        BY <2>1, <3>1 DEF AllRunsKept
      <3>3. s.started \in Nat
        BY <3>1, KeptRuns DEF Run
      <3> QED
        BY <3>2, <3>3 DEF SameRuns
    <2>2. pg.samples \subseteq Range(mem.samples)
      BY DEF SameRuns
    <2>3. {s \in Range(mem.samples) : s.scenario = n /\ ~(s.started < since)}
              = {s \in pg.samples : s.scenario = n /\ s.started >= since}
      BY <2>1, <2>2
    <2> QED
      BY <2>3 DEF MemSamples, PgSamples
  <1> QED
    BY <1>2, <1>3

LEMMA EvalRunsReadAlike ==
    ASSUME SameEvalRuns, calls \in Nat, calls <= MaxCalls, MaxCalls <= 100
    PROVE  /\ \A i : i \notin RefusedEvalRuns => SameReport(MemGetEvalRun(i), PgGetEvalRun(i))
           /\ \A n : AllEvalRunsKept(n) =>
                  \A limit \in Limits : MemListEvalRuns(n, limit) = PgListEvalRuns(n, limit)
  <1>1. ASSUME NEW i, i \notin DOMAIN mem.evalRuns
        PROVE  SameReport(MemGetEvalRun(i), PgGetEvalRun(i))
    <2>1. {r \in pg.evalRuns : r.id = i} = {}
      BY <1>1 DEF SameEvalRuns
    <2> QED
      BY <1>1, <2>1, OneRow DEF MemGetEvalRun, PgGetEvalRun, SameReport
  <1>2. ASSUME NEW i, i \in DOMAIN mem.evalRuns \ RefusedEvalRuns
        PROVE  SameReport(MemGetEvalRun(i), PgGetEvalRun(i))
    <2>1. PICK row \in Run, results \in EvalResults : mem.evalRuns[i] = <<row, results>> /\ row.id = i
      BY <1>2 DEF SameEvalRuns
    <2> DEFINE names == {e.name : e \in {x \in pg.evalResults : x.run = i}}
    <2>2. {r \in pg.evalRuns : r.id = i} = {row} /\ names = Range(results)
      BY <1>2, <2>1 DEF SameEvalRuns
    <2>3. row # NotFound /\ <<row, results>> # NotFound
      BY <2>1, StorageBackendsAssumption
    <2>4. PgGetEvalRun(i) = <<row, names>>
      BY <2>2, <2>3, OneRow DEF PgGetEvalRun
    <2> HIDE DEF names
    <2>5. MemGetEvalRun(i) = <<row, results>>
      BY <1>2, <2>1 DEF MemGetEvalRun
    <2>6. <<row, names>> # NotFound
      <3>1. results \in Seq(Nat)
        BY StorageBackendsAssumption
      <3>2. names \in SUBSET Nat
        BY <2>2, <3>1 DEF Range
      <3> QED
        BY <3>2, StorageBackendsAssumption
    <2> QED
      BY <2>2, <2>3, <2>4, <2>5, <2>6 DEF SameReport
  <1>3. ASSUME NEW n, AllEvalRunsKept(n), NEW limit \in Limits
        PROVE  MemListEvalRuns(n, limit) = PgListEvalRuns(n, limit)
    <2> DEFINE rows == {r \in pg.evalRuns : r.scenario = n}
               f == [i \in DOMAIN mem.evalRuns |-> mem.evalRuns[i][1]]
    <2>1. ASSUME NEW r \in rows
          PROVE  r.id \in DOMAIN mem.evalRuns /\ r = mem.evalRuns[r.id][1]
      <3>1. r.id \in DOMAIN mem.evalRuns \ RefusedEvalRuns
        BY <1>3 DEF SameEvalRuns, AllEvalRunsKept
      <3>2. {q \in pg.evalRuns : q.id = r.id} = {mem.evalRuns[r.id][1]}
        BY <3>1 DEF SameEvalRuns
      <3> QED
        BY <3>1, <3>2
    <2>2. ASSUME NEW i \in DOMAIN mem.evalRuns, mem.evalRuns[i][1].scenario = n
          PROVE  mem.evalRuns[i][1] \in rows
      <3>1. i \notin RefusedEvalRuns
        BY <1>3, <2>2 DEF AllEvalRunsKept
      <3>2. {q \in pg.evalRuns : q.id = i} = {mem.evalRuns[i][1]}
        BY <3>1 DEF SameEvalRuns
      <3> QED
        BY <2>2, <3>2
    <2>3. {r[1] : r \in {x \in Range(mem.evalRuns) : x[1].scenario = n}} = rows
      BY <2>1, <2>2 DEF Range
    <2>4. rows \subseteq Range(f) /\ f \in [DOMAIN mem.evalRuns -> Range(f)]
      <3>1. \A r \in rows : \E i \in DOMAIN mem.evalRuns : f[i] = r
        BY <2>1
      <3>2. DOMAIN f = DOMAIN mem.evalRuns /\ f = [i \in DOMAIN f |-> f[i]]
        OBVIOUS
      <3> HIDE DEF rows, f
      <3>3. \A i \in DOMAIN f : f[i] \in Range(f)
        BY DEF Range
      <3> QED
        BY <3>1, <3>2, <3>3
    <2>5. IsFiniteSet(DOMAIN mem.evalRuns) /\ Cardinality(DOMAIN mem.evalRuns) <= calls
      BY DEF SameEvalRuns
    <2> HIDE DEF rows, f
    <2>6. Take(Newest(rows), limit) = Take(Newest(rows), IF limit <= 0 THEN 100 ELSE limit)
      BY <2>4, <2>5, DefaultCutsNothing
    <2> QED
      BY <2>3, <2>6 DEF MemListEvalRuns, PgListEvalRuns, rows
  <1> QED
    BY <1>1, <1>2, <1>3

\* Every read of the two stores, from the invariant.
LEMMA ReadsAlike ==
    ASSUME StoresInv, MaxCalls <= 100
    PROVE  BackendsAgree
  <1>1. calls \in Nat /\ calls <= MaxCalls /\ SameAnswers
    BY DEF StoresInv
  <1>2. SameScenarios /\ SameWorkers /\ SameTokens /\ SameAssignments /\ SameRuns /\ SameEvalRuns
    BY DEF StoresInv
  <1>3. MemListWorkers = PgListWorkers
    BY <1>2 DEF SameWorkers, MemListWorkers, PgListWorkers
  <1>4. \A i \in RunIds : IF i \in RefusedRuns THEN PgGetRun(i) = NotFound ELSE SameReport(MemGetRun(i), PgGetRun(i))
    BY <1>2, GetRunsAlike
  <1>5. ASSUME NEW n \in ScenarioNames, AllRunsKept(n)
        PROVE  /\ \A limit \in Limits : MemListRuns(n, limit) = PgListRuns(n, limit)
               /\ \A since \in 0..calls :
                      /\ \A c \in CheckNames : MemSLO(n, since, c) = PgSLO(n, since, c)
                      /\ MemSamples(n, since) = PgSamples(n, since)
    <2>1. \A since \in 0..calls : since \in Nat
      BY <1>1
    <2>2. \A since \in 0..calls : \A c \in CheckNames : MemSLO(n, since, c) = PgSLO(n, since, c)
      BY <1>2, <1>5, <2>1, RatesAlike
    <2> QED
      BY <1>1, <1>2, <1>5, <2>2, RunsReadAlike
  <1> QED
    BY <1>1, <1>2, <1>3, <1>4, <1>5, ScenariosReadAlike, TokensReadAlike, AssignmentsReadAlike, EvalRunsReadAlike
       DEF BackendsAgree
-----------------------------------------------------------------------------
(* What a call that leaves a table alone leaves of the invariant           *)

LEMMA ScenariosFrame ==
    ASSUME SameScenarios, mem'.scenarios = mem.scenarios, pg'.scenarios = pg.scenarios
    PROVE  SameScenarios'
  BY DEF SameScenarios

LEMMA WorkersFrame ==
    ASSUME SameWorkers, mem'.workers = mem.workers, pg'.workers = pg.workers
    PROVE  SameWorkers'
  BY DEF SameWorkers

LEMMA TokensFrame ==
    ASSUME SameTokens, mem'.tokens = mem.tokens, mem'.tokensByID = mem.tokensByID, pg'.tokens = pg.tokens,
           calls \in Nat, calls' = calls + 1
    PROVE  SameTokens'
  <1>1. ASSUME NEW k \in DOMAIN mem.tokens PROVE mem.tokens[k].id < calls'
    BY DEF SameTokens
  <1> QED
    BY <1>1 DEF SameTokens

LEMMA AssignmentsFrame ==
    ASSUME SameAssignments, mem'.assignments = mem.assignments, pg'.assignments = pg.assignments,
           calls \in Nat, calls' = calls + 1
    PROVE  SameAssignments'
  <1>1. \A x : MemAssigned(x)' = MemAssigned(x)
    BY DEF MemAssigned
  <1>2. pg'.assignments \subseteq [worker : WorkerIds, name : ScenarioNames, at : 0..calls' - 1]
    <2>1. 0..calls - 1 \subseteq 0..calls' - 1
      OBVIOUS
    <2> QED
      BY <2>1 DEF SameAssignments
  <1> QED
    BY <1>1, <1>2 DEF SameAssignments

LEMMA RunsFrame ==
    ASSUME SameRuns, mem'.runs = mem.runs, mem'.checksByRun = mem.checksByRun, mem'.samples = mem.samples,
           pg'.runs = pg.runs, pg'.checkResults = pg.checkResults, pg'.samples = pg.samples,
           calls \in Nat, calls' = calls + 1
    PROVE  SameRuns'
  <1>1. Cardinality(DOMAIN mem.runs) <= calls'
    BY FS_CardinalityType DEF SameRuns
  <1>2. RefusedRuns' = RefusedRuns
    BY DEF RefusedRuns
  <1> QED
    BY <1>1, <1>2 DEF SameRuns

LEMMA EvalRunsFrame ==
    ASSUME SameEvalRuns, mem'.evalRuns = mem.evalRuns, pg'.evalRuns = pg.evalRuns,
           pg'.evalResults = pg.evalResults, calls \in Nat, calls' = calls + 1
    PROVE  SameEvalRuns'
  <1>1. Cardinality(DOMAIN mem.evalRuns) <= calls'
    BY FS_CardinalityType DEF SameEvalRuns
  <1>2. RefusedEvalRuns' = RefusedEvalRuns
    BY DEF RefusedEvalRuns
  <1> QED
    BY <1>1, <1>2 DEF SameEvalRuns
-----------------------------------------------------------------------------
(* The invariant holds, call by call                                       *)

LEMMA StoresStart ==
    ASSUME StoresInit
    PROVE  StoresInv
  <1> DEFINE empty == <<>>
  <1>1. DOMAIN empty = {} /\ Range(empty) = {} /\ empty \in Seq(Run) /\ empty \in Seq(ScenarioNames)
    BY DEF Range
  <1> HIDE DEF empty
  <1>2. /\ mem.scenarios = empty /\ mem.workers = empty /\ mem.assignments = empty /\ mem.tokens = empty
        /\ mem.tokensByID = empty /\ mem.runs = empty /\ mem.checksByRun = empty
        /\ mem.evalRuns = empty /\ mem.samples = empty
        /\ DOMAIN mem = {"scenarios", "workers", "assignments", "tokens", "tokensByID", "runs", "checksByRun",
                         "evalRuns", "samples"}
    BY DEF StoresInit, empty
  <1>3. /\ pg.scenarios = {} /\ pg.workers = {} /\ pg.assignments = {} /\ pg.tokens = {}
        /\ pg.runs = {} /\ pg.checkResults = {} /\ pg.evalRuns = {} /\ pg.evalResults = {} /\ pg.samples = {}
        /\ DOMAIN pg = {"scenarios", "workers", "assignments", "tokens", "runs", "checkResults",
                        "evalRuns", "evalResults", "samples"}
    BY DEF StoresInit
  <1>4. calls \in Nat /\ calls <= MaxCalls /\ returned.mem = returned.pg
    BY StorageBackendsAssumption DEF StoresInit
  <1>5. IsFiniteSet({}) /\ Cardinality({}) <= calls
    BY <1>4, FS_EmptySet DEF StoresInit
  <1>6. SameScenarios /\ SameWorkers /\ SameTokens
    BY <1>1, <1>2, <1>3 DEF SameScenarios, SameWorkers, SameTokens
  <1>7. SameAssignments
    <2>1. \A x : MemAssigned(x) = empty
      BY <1>1, <1>2 DEF MemAssigned, empty
    <2> QED
      BY <1>1, <1>3, <2>1 DEF SameAssignments
  <1>8. SameRuns /\ SameEvalRuns
    BY <1>1, <1>2, <1>3, <1>5 DEF SameRuns, SameEvalRuns
  <1> QED
    BY <1>2, <1>3, <1>4, <1>6, <1>7, <1>8 DEF StoresInv, SameAnswers

LEMMA UpsertKeepsInv ==
    ASSUME StoresInv, NEW n \in ScenarioNames, NEW d \in Documents, UpsertScenario(n, d)
    PROVE  StoresInv'
  <1> DEFINE row == MemScenario(n, d)
             ms == mem.scenarios
             others == {ms[x] : x \in DOMAIN ms \ {n}}
  <1>1. SameScenarios /\ SameWorkers /\ SameTokens /\ SameAssignments /\ SameRuns /\ SameEvalRuns /\ calls \in Nat
    BY DEF StoresInv
  <1>2. row = PgScenario(n, d) /\ row \in Scenario /\ row.name = n
    <2>1. CASE n \in DOMAIN ms
      <3>1. {r \in pg.scenarios : r.name = n} = {ms[n]}
        BY <1>1, <2>1 DEF SameScenarios, Range
      <3>2. ms[n] \in Scenario
        BY <1>1, <2>1 DEF SameScenarios
      <3>3. row = [name |-> n, doc |-> d, version |-> ms[n].version + 1]
        BY <2>1 DEF MemScenario
      <3>4. PgScenario(n, d) = [name |-> n, doc |-> d, version |-> ms[n].version + 1]
        BY <3>1, OneRow DEF PgScenario
      <3>5. ms[n].version + 1 \in Nat
        BY <3>2 DEF Scenario
      <3> HIDE DEF row, ms
      <3> QED
        BY <3>3, <3>4, <3>5 DEF Scenario
    <2>2. CASE n \notin DOMAIN ms
      <3>1. {r \in pg.scenarios : r.name = n} = {}
        BY <1>1, <2>2 DEF SameScenarios, Range
      <3> QED
        BY <2>2, <3>1 DEF MemScenario, PgScenario, Scenario
    <2> QED
      BY <2>1, <2>2
  <1> HIDE DEF row
  <1>3. /\ calls' = calls + 1 /\ calls' <= MaxCalls /\ returned'.mem = returned'.pg
        /\ DOMAIN mem' = DOMAIN mem /\ DOMAIN pg' = DOMAIN pg
        /\ mem'.scenarios = Put(ms, n, row) /\ pg'.scenarios = {r \in pg.scenarios : r.name # n} \cup {row}
        /\ mem'.workers = mem.workers /\ mem'.assignments = mem.assignments /\ mem'.tokens = mem.tokens
        /\ mem'.tokensByID = mem.tokensByID /\ mem'.runs = mem.runs /\ mem'.evalRuns = mem.evalRuns
        /\ mem'.samples = mem.samples /\ mem'.checksByRun = mem.checksByRun
        /\ pg'.workers = pg.workers /\ pg'.assignments = pg.assignments /\ pg'.tokens = pg.tokens
        /\ pg'.runs = pg.runs /\ pg'.evalRuns = pg.evalRuns /\ pg'.evalResults = pg.evalResults
        /\ pg'.samples = pg.samples /\ pg'.checkResults = pg.checkResults
    BY <1>2, StorageBackendsAssumption DEF StoresInv, UpsertScenario, Both, row
  <1>4. Range(Put(ms, n, row)) = others \cup {row}
    BY PutRange
  <1>5. {r \in pg.scenarios : r.name # n} = others
    BY <1>1 DEF SameScenarios, Range
  <1>6. SameScenarios'
    <2>1. mem'.scenarios = Put(ms, n, row)
      BY <1>3
    <2>2. /\ DOMAIN mem'.scenarios = DOMAIN ms \cup {n} /\ mem'.scenarios[n] = row
          /\ \A x \in DOMAIN ms : x # n => mem'.scenarios[x] = ms[x]
      BY <2>1 DEF Put
    <2>3. pg'.scenarios = Range(mem'.scenarios)
      BY <1>3, <1>4, <1>5
    <2>4. DOMAIN ms \subseteq ScenarioNames /\ \A x \in DOMAIN ms : ms[x] \in Scenario /\ ms[x].name = x
      BY <1>1 DEF SameScenarios
    <2> HIDE DEF ms, others
    <2> QED
      BY <1>2, <2>2, <2>3, <2>4 DEF SameScenarios
  <1> QED
    BY <1>1, <1>3, <1>6, WorkersFrame, TokensFrame, AssignmentsFrame, RunsFrame, EvalRunsFrame
       DEF StoresInv, SameAnswers

LEMMA RegisterKeepsInv ==
    ASSUME StoresInv, NEW x \in WorkerIds, RegisterWorker(x)
    PROVE  StoresInv'
  <1> DEFINE row == [id |-> x, beat |-> calls]
  <1>1. SameScenarios /\ SameWorkers /\ SameTokens /\ SameAssignments /\ SameRuns /\ SameEvalRuns /\ calls \in Nat
    BY DEF StoresInv
  <1>2. /\ calls' = calls + 1 /\ calls' <= MaxCalls /\ returned'.mem = returned'.pg
        /\ DOMAIN mem' = DOMAIN mem /\ DOMAIN pg' = DOMAIN pg
        /\ mem'.workers = Put(mem.workers, x, calls) /\ pg'.workers = pg.workers \cup {row}
        /\ mem'.scenarios = mem.scenarios /\ mem'.assignments = mem.assignments /\ mem'.tokens = mem.tokens
        /\ mem'.tokensByID = mem.tokensByID /\ mem'.runs = mem.runs /\ mem'.evalRuns = mem.evalRuns
        /\ mem'.samples = mem.samples
        /\ mem'.checksByRun = mem.checksByRun
        /\ pg'.scenarios = pg.scenarios /\ pg'.assignments = pg.assignments /\ pg'.tokens = pg.tokens
        /\ pg'.runs = pg.runs /\ pg'.evalRuns = pg.evalRuns /\ pg'.evalResults = pg.evalResults
        /\ pg'.samples = pg.samples /\ pg'.checkResults = pg.checkResults
    BY StorageBackendsAssumption DEF StoresInv, RegisterWorker, Both
  <1>3. SameWorkers'
    <2>1. x \notin DOMAIN mem.workers
      BY DEF RegisterWorker
    <2>2. /\ DOMAIN mem'.workers = DOMAIN mem.workers \cup {x} /\ mem'.workers[x] = calls
          /\ \A y \in DOMAIN mem.workers : y # x => mem'.workers[y] = mem.workers[y]
      BY <1>2 DEF Put
    <2>3. {[id |-> y, beat |-> mem'.workers[y]] : y \in DOMAIN mem'.workers}
              = {[id |-> y, beat |-> mem.workers[y]] : y \in DOMAIN mem.workers} \cup {row}
      BY <2>1, <2>2
    <2> QED
      BY <1>1, <1>2, <2>3 DEF SameWorkers
  <1> QED
    BY <1>1, <1>2, <1>3, ScenariosFrame, TokensFrame, AssignmentsFrame, RunsFrame, EvalRunsFrame
       DEF StoresInv, SameAnswers

\* A row of the table is a worker of the map.
LEMMA WorkerRows ==
    ASSUME SameWorkers
    PROVE  \A x : (\E r \in pg.workers : r.id = x) <=> x \in DOMAIN mem.workers
  <1>1. ASSUME NEW x \in DOMAIN mem.workers
        PROVE  \E r \in pg.workers : r.id = x
    <2>1. [id |-> x, beat |-> mem.workers[x]] \in pg.workers
      BY DEF SameWorkers
    <2> QED
      BY <2>1
  <1>2. ASSUME NEW r \in pg.workers
        PROVE  r.id \in DOMAIN mem.workers
    BY DEF SameWorkers
  <1> QED
    BY <1>1, <1>2

LEMMA HeartbeatKeepsInv ==
    ASSUME StoresInv, NEW x \in WorkerIds, Heartbeat(x)
    PROVE  StoresInv'
  <1> DEFINE ws == IF x \in DOMAIN mem.workers THEN Put(mem.workers, x, calls) ELSE mem.workers
  <1>1. SameScenarios /\ SameWorkers /\ SameTokens /\ SameAssignments /\ SameRuns /\ SameEvalRuns /\ calls \in Nat
    BY DEF StoresInv
  <1>2. (\E r \in pg.workers : r.id = x) <=> x \in DOMAIN mem.workers
    BY <1>1, WorkerRows
  <1>3. /\ calls' = calls + 1 /\ calls' <= MaxCalls /\ returned'.mem = returned'.pg
        /\ DOMAIN mem' = DOMAIN mem /\ DOMAIN pg' = DOMAIN pg
        /\ mem'.workers = ws /\ pg'.workers = PgBeat(x)
        /\ mem'.scenarios = mem.scenarios /\ mem'.assignments = mem.assignments /\ mem'.tokens = mem.tokens
        /\ mem'.tokensByID = mem.tokensByID /\ mem'.runs = mem.runs /\ mem'.evalRuns = mem.evalRuns
        /\ mem'.samples = mem.samples
        /\ mem'.checksByRun = mem.checksByRun
        /\ pg'.scenarios = pg.scenarios /\ pg'.assignments = pg.assignments /\ pg'.tokens = pg.tokens
        /\ pg'.runs = pg.runs /\ pg'.evalRuns = pg.evalRuns /\ pg'.evalResults = pg.evalResults
        /\ pg'.samples = pg.samples /\ pg'.checkResults = pg.checkResults
    BY <1>2, StorageBackendsAssumption DEF StoresInv, Heartbeat, Both
  <1>4. SameWorkers'
    <2> DEFINE rows(m) == {[id |-> y, beat |-> m[y]] : y \in DOMAIN m}
    <2>1. DOMAIN ws = DOMAIN mem.workers
      BY DEF Put
    <2>2. \A y \in DOMAIN ws : ws[y] = IF y = x THEN calls ELSE mem.workers[y]
      BY DEF Put
    <2> HIDE DEF ws
    <2>3. PgBeat(x) = {[id |-> y, beat |-> IF y = x THEN calls ELSE mem.workers[y]] : y \in DOMAIN mem.workers}
      <3>1. \A y : LET r == [id |-> y, beat |-> mem.workers[y]]
                   IN  (IF r.id = x THEN [r EXCEPT !.beat = calls] ELSE r)
                           = [id |-> y, beat |-> IF y = x THEN calls ELSE mem.workers[y]]
        OBVIOUS
      <3>2. PgBeat(x) = {IF r.id = x THEN [r EXCEPT !.beat = calls] ELSE r : r \in rows(mem.workers)}
        BY <1>1 DEF PgBeat, SameWorkers
      <3>3. \A y \in DOMAIN mem.workers :
                [id |-> y, beat |-> IF y = x THEN calls ELSE mem.workers[y]] \in PgBeat(x)
        BY <3>1, <3>2
      <3>4. \A b \in PgBeat(x) : \E y \in DOMAIN mem.workers :
                b = [id |-> y, beat |-> IF y = x THEN calls ELSE mem.workers[y]]
        BY <3>1, <3>2
      <3> QED
        BY <3>3, <3>4
    <2>4. rows(ws) = {[id |-> y, beat |-> IF y = x THEN calls ELSE mem.workers[y]] : y \in DOMAIN mem.workers}
      BY <2>1, <2>2
    <2> QED
      BY <1>3, <2>3, <2>4 DEF SameWorkers
  <1> QED
    BY <1>1, <1>3, <1>4, ScenariosFrame, TokensFrame, AssignmentsFrame, RunsFrame, EvalRunsFrame
       DEF StoresInv, SameAnswers

\* A name the slice has: its first entries stay; a new one is a first entry.
LEMMA AppendFirsts ==
    ASSUME NEW S, NEW s \in Seq(S), NEW e \in S
    PROVE  Firsts(Append(s, e)) = IF e \in Range(s) THEN Firsts(s) ELSE Firsts(s) \cup {Len(s) + 1}
  <1> DEFINE t == Append(s, e)
  <1>1. /\ Len(s) \in Nat /\ DOMAIN s = 1..Len(s) /\ DOMAIN t = 1..Len(s) + 1
        /\ t[Len(s) + 1] = e /\ \A i \in 1..Len(s) : t[i] = s[i]
    OBVIOUS
  <1> HIDE DEF t
  <1>2. ASSUME NEW i \in 1..Len(s)
        PROVE  i \in Firsts(t) <=> i \in Firsts(s)
    <2>1. i \in Int /\ 1..(i - 1) \subseteq 1..Len(s) /\ i \in DOMAIN t /\ i \in DOMAIN s /\ t[i] = s[i]
      BY <1>1
    <2>2. \A j \in 1..(i - 1) : t[j] = s[j]
      BY <1>1, <2>1
    <2> QED
      BY <2>1, <2>2 DEF Firsts
  <1>3. Len(s) + 1 \in Firsts(t) <=> e \notin Range(s)
    <2>1. Len(s) + 1 \in DOMAIN t /\ (Len(s) + 1) - 1 = Len(s)
      BY <1>1
    <2>2. Len(s) + 1 \in Firsts(t) <=> \A j \in 1..Len(s) : t[j] # e
      BY <1>1, <2>1 DEF Firsts
    <2>3. e \notin Range(s) <=> \A j \in 1..Len(s) : s[j] # e
      BY <1>1 DEF Range
    <2> QED
      BY <1>1, <2>2, <2>3
  <1>4. Firsts(t) \subseteq 1..Len(s) \cup {Len(s) + 1} /\ Firsts(s) \subseteq 1..Len(s)
    BY <1>1 DEF Firsts
  <1>5. CASE e \in Range(s)
    <2>1. Firsts(t) = Firsts(s)
      BY <1>2, <1>3, <1>4, <1>5
    <2> QED
      BY <1>5, <2>1 DEF t
  <1>6. CASE e \notin Range(s)
    <2>1. Firsts(t) = Firsts(s) \cup {Len(s) + 1}
      BY <1>2, <1>3, <1>4, <1>6
    <2> QED
      BY <1>6, <2>1 DEF t
  <1> QED
    BY <1>5, <1>6

LEMMA AssignKeepsInv ==
    ASSUME StoresInv, NEW x \in WorkerIds, NEW n \in ScenarioNames, AssignScenario(x, n)
    PROVE  StoresInv'
  <1> DEFINE row == [worker |-> x, name |-> n, at |-> calls]
             s == MemAssigned(x)
             known == \E a \in pg.assignments : a.worker = x /\ a.name = n
  <1>1. /\ SameScenarios /\ SameWorkers /\ SameTokens /\ SameAssignments /\ SameRuns /\ SameEvalRuns
        /\ calls \in Nat
    BY DEF StoresInv
  <1>2. MemCanAssign(x, n) <=> PgCanAssign(x, n)
    BY <1>1, WorkerRows, ScenariosReadAlike DEF MemCanAssign, PgCanAssign
  <1>3. (\A a \in pg.assignments : <<a.worker, a.name>> # <<x, n>>) <=> ~known
    OBVIOUS
  <1>4. /\ calls' = calls + 1 /\ calls' <= MaxCalls /\ returned'.mem = returned'.pg
        /\ DOMAIN mem' = DOMAIN mem /\ DOMAIN pg' = DOMAIN pg
        /\ mem'.scenarios = mem.scenarios /\ mem'.workers = mem.workers /\ mem'.tokens = mem.tokens
        /\ mem'.tokensByID = mem.tokensByID /\ mem'.runs = mem.runs /\ mem'.evalRuns = mem.evalRuns
        /\ mem'.samples = mem.samples
        /\ mem'.checksByRun = mem.checksByRun
        /\ pg'.scenarios = pg.scenarios /\ pg'.workers = pg.workers /\ pg'.tokens = pg.tokens
        /\ pg'.runs = pg.runs /\ pg'.evalRuns = pg.evalRuns /\ pg'.evalResults = pg.evalResults
        /\ pg'.samples = pg.samples /\ pg'.checkResults = pg.checkResults
    BY <1>2, StorageBackendsAssumption DEF StoresInv, AssignScenario, Both
  <1>5. /\ mem'.assignments = IF MemCanAssign(x, n) THEN Put(mem.assignments, x, Append(s, n)) ELSE mem.assignments
        /\ pg'.assignments = IF MemCanAssign(x, n) /\ ~known THEN pg.assignments \cup {row} ELSE pg.assignments
    BY <1>2, <1>3 DEF StoresInv, AssignScenario, Both
  <1>6. SameAssignments'
    <2>1. CASE ~MemCanAssign(x, n)
      BY <1>1, <1>4, <1>5, <2>1, AssignmentsFrame
    <2>2. CASE MemCanAssign(x, n)
      <3> DEFINE t == Append(s, n)
                 R(y) == {a.name : a \in {r \in pg.assignments : r.worker = y}}
      <3>1. s \in Seq(ScenarioNames) /\ Range(s) = R(x)
        BY <1>1 DEF SameAssignments
      <3>2. n \in Range(s) <=> known
        BY <3>1
      <3>3. MemAssigned(x)' = t /\ \A y : y # x => MemAssigned(y)' = MemAssigned(y)
        BY <1>5, <2>2 DEF MemAssigned, Put
      <3>4. /\ t \in Seq(ScenarioNames) /\ Range(t) = Range(s) \cup {n}
            /\ t[Len(s) + 1] = n /\ \A i \in 1..Len(s) : t[i] = s[i]
        BY <3>1, AppendRange
      <3>5. Firsts(t) = (IF known THEN Firsts(s) ELSE Firsts(s) \cup {Len(s) + 1})
            /\ Firsts(s) \subseteq 1..Len(s) /\ Len(s) \in Nat
        BY <3>1, <3>2, AppendFirsts DEF Firsts
      <3> DEFINE P == pg.assignments
                 Q == pg'.assignments
      <3>6. /\ P \subseteq [worker : WorkerIds, name : ScenarioNames, at : 0..calls - 1]
            /\ \A a, b \in P : (a.worker = b.worker /\ a.name = b.name) \/ a.at = b.at => a = b
            /\ \A a, b \in P : \A i, j \in Firsts(s) :
                   a.worker = x /\ b.worker = x /\ s[i] = a.name /\ s[j] = b.name => (a.at < b.at <=> i < j)
        BY <1>1 DEF SameAssignments
      <3>7. /\ Q = IF known THEN P ELSE P \cup {row}
            /\ row.worker = x /\ row.name = n /\ row.at = calls
            /\ row \in [worker : WorkerIds, name : ScenarioNames, at : 0..calls]
            /\ known <=> \E a \in P : a.worker = x /\ a.name = n
        BY <1>1, <1>5, <2>2
      <3>8. \A a \in P : a.at \in 0..calls - 1 /\ a.at # calls /\ a.at < calls
        BY <1>1, <3>6
      <3> HIDE DEF s, t, row, known, P, Q
      <3>9. Q \subseteq [worker : WorkerIds, name : ScenarioNames, at : 0..calls' - 1]
        <4>1. 0..calls' - 1 = 0..calls /\ 0..calls - 1 \subseteq 0..calls
          BY <1>1, <1>4
        <4>2. P \subseteq [worker : WorkerIds, name : ScenarioNames, at : 0..calls]
          BY <3>6, <4>1
        <4> QED
          BY <3>7, <4>1, <4>2
      <3>10. \A a, b \in Q : (a.worker = b.worker /\ a.name = b.name) \/ a.at = b.at => a = b
        BY <3>6, <3>7, <3>8
      <3>11. ASSUME NEW y \in WorkerIds, y # x
             PROVE  /\ MemAssigned(y)' \in Seq(ScenarioNames)
                    /\ Range(MemAssigned(y)') = {a.name : a \in {r \in Q : r.worker = y}}
                    /\ \A a, b \in Q : \A i, j \in Firsts(MemAssigned(y)') :
                           a.worker = y /\ b.worker = y /\ MemAssigned(y)'[i] = a.name /\ MemAssigned(y)'[j] = b.name
                               => (a.at < b.at <=> i < j)
        <4>1. MemAssigned(y)' = MemAssigned(y)
          BY <3>3, <3>11
        <4>2. {r \in Q : r.worker = y} = {r \in P : r.worker = y}
          BY <3>7, <3>11
        <4>3. \A a \in Q : a.worker = y => a \in P
          BY <3>7, <3>11
        <4> QED
          BY <1>1, <4>1, <4>2, <4>3 DEF SameAssignments, P
      <3>12. Range(t) = {a.name : a \in {r \in Q : r.worker = x}}
        <4>1. Range(s) = {a.name : a \in {r \in P : r.worker = x}}
          BY <3>1 DEF P
        <4> QED
          BY <3>2, <3>4, <3>7, <4>1
      <3>13. ASSUME NEW a \in Q, NEW b \in Q, NEW i \in Firsts(t), NEW j \in Firsts(t),
                    a.worker = x, b.worker = x, t[i] = a.name, t[j] = b.name
             PROVE  a.at < b.at <=> i < j
        <4>1. CASE known
          BY <3>4, <3>5, <3>6, <3>7, <3>13, <4>1
        <4>2. CASE ~known
          <5>1. \A k \in 1..Len(s) : s[k] # n
            BY <3>1, <3>2, <4>2 DEF Range
          <5>2. /\ (i = Len(s) + 1) <=> a = row
                /\ (j = Len(s) + 1) <=> b = row
            BY <3>4, <3>5, <3>7, <3>13, <4>2, <5>1
          <5>3. CASE i # Len(s) + 1 /\ j # Len(s) + 1
            BY <3>4, <3>5, <3>6, <3>7, <3>13, <4>2, <5>2, <5>3
          <5>4. CASE i = Len(s) + 1 \/ j = Len(s) + 1
            <6>1. i \in 1..Len(s) + 1 /\ j \in 1..Len(s) + 1
              BY <3>5, <4>2
            <6>2. a.at \in 0..calls /\ b.at \in 0..calls /\ (a = row \/ a.at < calls) /\ (b = row \/ b.at < calls)
              BY <1>1, <3>7, <3>8, <4>2
            <6> QED
              BY <1>1, <3>5, <3>7, <5>2, <5>4, <6>1, <6>2
          <5> QED
            BY <5>3, <5>4
        <4> QED
          BY <4>1, <4>2
      <3> QED
        BY <3>3, <3>4, <3>9, <3>10, <3>11, <3>12, <3>13 DEF SameAssignments, Q
    <2> QED
      BY <2>1, <2>2
  <1> QED
    BY <1>1, <1>4, <1>6, ScenariosFrame, WorkersFrame, TokensFrame, RunsFrame, EvalRunsFrame
       DEF StoresInv, SameAnswers

LEMMA IssueKeepsInv ==
    ASSUME StoresInv, NEW k \in Digests, NEW role \in TokenRoles, StoreIssueToken(k, role)
    PROVE  StoresInv'
  <1> DEFINE tok == MemToken(k, role)
             row == [digest |-> k, id |-> tok.id, role |-> tok.role]
  <1>1. /\ SameScenarios /\ SameWorkers /\ SameTokens /\ SameAssignments /\ SameRuns /\ SameEvalRuns
        /\ calls \in Nat
    BY DEF StoresInv
  <1>2. /\ PgToken(k, role) = row /\ tok \in [id : Nat, role : TokenRoles] /\ tok.id < calls + 1
        /\ \A id : id \in DOMAIN mem.tokensByID /\ id = tok.id => mem.tokensByID[id] = k
    <2>1. CASE k \in DOMAIN mem.tokens
      <3>1. tok = mem.tokens[k]
        BY <2>1 DEF MemToken
      <3>2. tok \in [id : Nat, role : TokenRoles] /\ tok.id < calls /\ mem.tokensByID[tok.id] = k
        BY <1>1, <2>1, <3>1 DEF SameTokens
      <3> HIDE DEF tok
      <3>3. {r \in pg.tokens : r.digest = k} = {row}
        BY <1>1, <2>1, <3>1 DEF SameTokens
      <3>4. PgToken(k, role) = row
        BY <3>3, OneRow DEF PgToken
      <3> QED
        BY <1>1, <3>2, <3>4
    <2>2. CASE k \notin DOMAIN mem.tokens
      <3>1. tok = [id |-> calls, role |-> role]
        BY <2>2 DEF MemToken
      <3>2. {r \in pg.tokens : r.digest = k} = {}
        BY <1>1, <2>2 DEF SameTokens
      <3>3. PgToken(k, role) = row
        BY <3>1, <3>2 DEF PgToken
      <3>4. calls \notin DOMAIN mem.tokensByID
        BY <1>1 DEF SameTokens
      <3> QED
        BY <1>1, <3>1, <3>3, <3>4
    <2> QED
      BY <2>1, <2>2
  <1>3. /\ calls' = calls + 1 /\ calls' <= MaxCalls /\ returned'.mem = tok.role /\ returned'.pg = PgToken(k, role).role
        /\ DOMAIN mem' = DOMAIN mem /\ DOMAIN pg' = DOMAIN pg
        /\ mem'.tokens = Put(mem.tokens, k, tok) /\ mem'.tokensByID = Put(mem.tokensByID, tok.id, k)
        /\ pg'.tokens = pg.tokens \cup {PgToken(k, role)}
        /\ mem'.scenarios = mem.scenarios /\ mem'.workers = mem.workers /\ mem'.assignments = mem.assignments
        /\ mem'.runs = mem.runs /\ mem'.evalRuns = mem.evalRuns /\ mem'.samples = mem.samples
        /\ mem'.checksByRun = mem.checksByRun
        /\ pg'.scenarios = pg.scenarios /\ pg'.workers = pg.workers /\ pg'.assignments = pg.assignments
        /\ pg'.runs = pg.runs /\ pg'.evalRuns = pg.evalRuns /\ pg'.evalResults = pg.evalResults
        /\ pg'.samples = pg.samples /\ pg'.checkResults = pg.checkResults
    BY StorageBackendsAssumption DEF StoresInv, StoreIssueToken, MemIssue, Both
  <1> HIDE DEF tok
  <1>4. returned'.mem = returned'.pg
    BY <1>2, <1>3
  <1>5. SameTokens'
    <2> DEFINE ts == mem.tokens
               ids == mem.tokensByID
               us == mem'.tokens
               jds == mem'.tokensByID
    <2>1. /\ DOMAIN us = DOMAIN ts \cup {k} /\ us[k] = tok
          /\ \A d \in DOMAIN ts : d # k => us[d] = ts[d]
      BY <1>3 DEF Put
    <2>2. /\ DOMAIN jds = DOMAIN ids \cup {tok.id} /\ jds[tok.id] = k
          /\ \A id \in DOMAIN ids : jds[id] = ids[id]
      BY <1>2, <1>3 DEF Put
    <2>3. /\ \A d \in DOMAIN ts :
                 /\ d \in Digests /\ ts[d] \in [id : Nat, role : TokenRoles] /\ ts[d].id < calls
                 /\ ts[d].id \in DOMAIN ids /\ ids[ts[d].id] = d
          /\ \A id \in DOMAIN ids : ids[id] \in DOMAIN ts /\ ts[ids[id]].id = id
          /\ pg.tokens = {[digest |-> d, id |-> ts[d].id, role |-> ts[d].role] : d \in DOMAIN ts}
      BY <1>1 DEF SameTokens
    <2>4. k \in DOMAIN ts => tok = ts[k]
      BY DEF tok, MemToken
    <2>5. \A d \in DOMAIN ts : us[d] = ts[d]
      BY <2>1, <2>4
    <2>6. pg'.tokens = {[digest |-> d, id |-> us[d].id, role |-> us[d].role] : d \in DOMAIN us}
      <3>1. pg'.tokens = pg.tokens \cup {row}
        BY <1>2, <1>3
      <3> HIDE DEF ts, us
      <3>2. {[digest |-> d, id |-> us[d].id, role |-> us[d].role] : d \in DOMAIN us}
                = {[digest |-> d, id |-> ts[d].id, role |-> ts[d].role] : d \in DOMAIN ts} \cup {row}
        BY <2>1, <2>5
      <3> QED
        BY <2>3, <3>1, <3>2
    <2>7. \A d \in DOMAIN us :
              /\ d \in Digests /\ us[d] \in [id : Nat, role : TokenRoles] /\ us[d].id < calls'
              /\ us[d].id \in DOMAIN jds /\ jds[us[d].id] = d
      <3> HIDE DEF ts, us, ids, jds
      <3> QED
        BY <1>1, <1>2, <1>3, <2>1, <2>2, <2>3, <2>5
    <2>8. \A id \in DOMAIN jds : jds[id] \in DOMAIN us /\ us[jds[id]].id = id
      <3> HIDE DEF ts, us, ids, jds
      <3> QED
        BY <2>1, <2>2, <2>3, <2>5
    <2> QED
      BY <2>6, <2>7, <2>8 DEF SameTokens
  <1> QED
    BY <1>1, <1>3, <1>4, <1>5, ScenariosFrame, WorkersFrame, AssignmentsFrame, RunsFrame, EvalRunsFrame
       DEF StoresInv, SameAnswers

LEMMA RevokeKeepsInv ==
    ASSUME StoresInv, NEW id \in 0..MaxCalls, StoreRevokeToken(id)
    PROVE  StoresInv'
  <1> DEFINE ts == mem.tokens
             ids == mem.tokensByID
             known == id \in DOMAIN ids
  <1>1. /\ SameScenarios /\ SameWorkers /\ SameTokens /\ SameAssignments /\ SameRuns /\ SameEvalRuns
        /\ calls \in Nat
    BY DEF StoresInv
  <1>2. /\ \A d \in DOMAIN ts :
               /\ d \in Digests /\ ts[d] \in [id : Nat, role : TokenRoles] /\ ts[d].id < calls
               /\ ts[d].id \in DOMAIN ids /\ ids[ts[d].id] = d
        /\ \A i \in DOMAIN ids : ids[i] \in DOMAIN ts /\ ts[ids[i]].id = i
        /\ pg.tokens = {[digest |-> d, id |-> ts[d].id, role |-> ts[d].role] : d \in DOMAIN ts}
    BY <1>1 DEF SameTokens
  <1>3. known <=> \E r \in pg.tokens : r.id = id
    <2>1. ASSUME NEW r \in pg.tokens PROVE r.id \in DOMAIN ids
      BY <1>2
    <2>2. ASSUME known PROVE \E r \in pg.tokens : r.id = id
      <3>1. [digest |-> ids[id], id |-> ts[ids[id]].id, role |-> ts[ids[id]].role] \in pg.tokens
        BY <1>2, <2>2
      <3> QED
        BY <1>2, <2>2, <3>1
    <2> QED
      BY <2>1, <2>2
  <1>4. /\ calls' = calls + 1 /\ calls' <= MaxCalls /\ returned'.mem = returned'.pg
        /\ DOMAIN mem' = DOMAIN mem /\ DOMAIN pg' = DOMAIN pg
        /\ mem'.tokens = (IF known THEN Delete(ts, ids[id]) ELSE ts)
        /\ mem'.tokensByID = (IF known THEN Delete(ids, id) ELSE ids)
        /\ pg'.tokens = {r \in pg.tokens : r.id # id}
        /\ mem'.scenarios = mem.scenarios /\ mem'.workers = mem.workers /\ mem'.assignments = mem.assignments
        /\ mem'.runs = mem.runs /\ mem'.evalRuns = mem.evalRuns /\ mem'.samples = mem.samples
        /\ mem'.checksByRun = mem.checksByRun
        /\ pg'.scenarios = pg.scenarios /\ pg'.workers = pg.workers /\ pg'.assignments = pg.assignments
        /\ pg'.runs = pg.runs /\ pg'.evalRuns = pg.evalRuns /\ pg'.evalResults = pg.evalResults
        /\ pg'.samples = pg.samples /\ pg'.checkResults = pg.checkResults
    BY <1>3, StorageBackendsAssumption DEF StoresInv, StoreRevokeToken, MemRevoke, PgRevoke, Both
  <1>5. SameTokens'
    <2>1. CASE ~known
      <3>1. pg'.tokens = pg.tokens
        BY <1>3, <1>4, <2>1
      <3> QED
        BY <1>1, <1>4, <2>1, <3>1, TokensFrame
    <2>2. CASE known
      <3> DEFINE us == mem'.tokens
                 jds == mem'.tokensByID
      <3>1. /\ DOMAIN us = DOMAIN ts \ {ids[id]} /\ \A d \in DOMAIN us : us[d] = ts[d]
            /\ DOMAIN jds = DOMAIN ids \ {id} /\ \A i \in DOMAIN jds : jds[i] = ids[i]
        BY <1>4, <2>2 DEF Delete
      <3>2. \A d \in DOMAIN ts : d # ids[id] <=> ts[d].id # id
        BY <1>2, <2>2
      <3> HIDE DEF ts, us, ids, jds
      <3>3. {[digest |-> d, id |-> us[d].id, role |-> us[d].role] : d \in DOMAIN us}
                = {r \in {[digest |-> d, id |-> ts[d].id, role |-> ts[d].role] : d \in DOMAIN ts} : r.id # id}
        BY <3>1, <3>2
      <3>4. \A d \in DOMAIN us :
                /\ d \in Digests /\ us[d] \in [id : Nat, role : TokenRoles] /\ us[d].id < calls'
                /\ us[d].id \in DOMAIN jds /\ jds[us[d].id] = d
        BY <1>1, <1>2, <1>4, <3>1, <3>2
      <3>5. \A i \in DOMAIN jds : jds[i] \in DOMAIN us /\ us[jds[i]].id = i
        BY <1>2, <3>1, <3>2
      <3> QED
        BY <1>2, <1>4, <3>3, <3>4, <3>5 DEF SameTokens, us, jds
    <2> QED
      BY <2>1, <2>2
  <1> QED
    BY <1>1, <1>4, <1>5, ScenariosFrame, WorkersFrame, AssignmentsFrame, RunsFrame, EvalRunsFrame
       DEF StoresInv, SameAnswers

LEMMA RecordRunKeepsInv ==
    ASSUME StoresInv, NEW i \in RunIds, NEW n \in ScenarioNames, NEW checks \in CheckResults, RecordRun(i, n, checks)
    PROVE  StoresInv'
  <1> DEFINE row == RunRow(i, n)
             rs == mem.runs
             cs == mem.checksByRun
             refused == Repeats(NamesOf(checks))
  <1>1. /\ SameScenarios /\ SameWorkers /\ SameTokens /\ SameAssignments /\ SameRuns /\ SameEvalRuns
        /\ calls \in Nat /\ i \notin DOMAIN rs
    BY DEF StoresInv, RecordRun
  <1>2. row \in Run /\ row.id = i /\ row.started = calls
    BY <1>1 DEF RunRow, Run
  <1> HIDE DEF row
  <1>3. /\ calls' = calls + 1 /\ calls' <= MaxCalls
        /\ mem' = MemRecordRun(row, checks) /\ pg' = PgRecordRun(row, checks)
        /\ returned' = [mem |-> Ok, pg |-> PgRecorded(NamesOf(checks))]
    BY StorageBackendsAssumption DEF StoresInv, RecordRun, Both, row
  <1>4. /\ DOMAIN mem' = DOMAIN mem /\ mem'.runs = Put(rs, i, row) /\ mem'.checksByRun = Put(cs, i, checks)
        /\ mem'.samples = Append(mem.samples, row)
        /\ mem'.scenarios = mem.scenarios /\ mem'.workers = mem.workers /\ mem'.assignments = mem.assignments
        /\ mem'.tokens = mem.tokens /\ mem'.tokensByID = mem.tokensByID /\ mem'.evalRuns = mem.evalRuns
    BY <1>2, <1>3 DEF StoresInv, MemRecordRun
  <1>5. /\ DOMAIN pg' = DOMAIN pg
        /\ pg'.scenarios = pg.scenarios /\ pg'.workers = pg.workers /\ pg'.assignments = pg.assignments
        /\ pg'.tokens = pg.tokens /\ pg'.evalRuns = pg.evalRuns /\ pg'.evalResults = pg.evalResults
        /\ refused => pg' = pg
        /\ ~refused => /\ pg'.runs = {r \in pg.runs : r.id # i} \cup {row}
                       /\ pg'.checkResults = {e \in pg.checkResults : e.run # i} \cup CheckRows(i, checks)
                       /\ pg'.samples = pg.samples \cup {row}
    BY <1>2, <1>3 DEF StoresInv, PgRecordRun
  <1>6. /\ DOMAIN mem'.runs = DOMAIN rs \cup {i} /\ mem'.runs[i] = row
        /\ DOMAIN mem'.checksByRun = DOMAIN cs \cup {i} /\ mem'.checksByRun[i] = checks
        /\ \A j \in DOMAIN rs : mem'.runs[j] = rs[j] /\ mem'.checksByRun[j] = cs[j]
    <2>1. DOMAIN cs = DOMAIN rs
      BY <1>1 DEF SameRuns
    <2> QED
      BY <1>1, <1>4, <2>1 DEF Put
  <1>7. RefusedRuns' = IF refused THEN RefusedRuns \cup {i} ELSE RefusedRuns
    BY <1>1, <1>6 DEF RefusedRuns
  <1>8. SameRuns'
    <2> DEFINE K == DOMAIN rs \ RefusedRuns
               L == DOMAIN mem'.runs \ RefusedRuns'
    <2>1. /\ DOMAIN cs = DOMAIN rs
          /\ \A j \in DOMAIN rs : rs[j] \in Run /\ rs[j].id = j /\ cs[j] \in CheckResults
          /\ IsFiniteSet(DOMAIN rs) /\ Cardinality(DOMAIN rs) <= calls
          /\ pg.runs = {rs[j] : j \in K} /\ pg.checkResults = UNION {CheckRows(j, cs[j]) : j \in K}
          /\ mem.samples \in Seq(Run) /\ \A s \in Range(mem.samples) : s.id \in DOMAIN rs /\ s = rs[s.id]
          /\ pg.samples = {s \in Range(mem.samples) : s.id \notin RefusedRuns}
      BY <1>1 DEF SameRuns
    <2>2. L = (IF refused THEN K ELSE K \cup {i}) /\ i \notin K
      BY <1>1, <1>6, <1>7 DEF RefusedRuns
    <2>3. IsFiniteSet(DOMAIN rs \cup {i}) /\ Cardinality(DOMAIN rs \cup {i}) <= calls'
      <3>1. IsFiniteSet(DOMAIN rs) /\ Cardinality(DOMAIN rs) <= calls /\ i \notin DOMAIN rs
        BY <1>1 DEF SameRuns
      <3>2. IsFiniteSet(DOMAIN rs \cup {i}) /\ Cardinality(DOMAIN rs \cup {i}) = Cardinality(DOMAIN rs) + 1
        BY <3>1, FS_AddElement
      <3>3. Cardinality(DOMAIN rs) \in Nat /\ calls \in Nat /\ calls' = calls + 1
        BY <1>1, <1>3, <3>1, FS_CardinalityType
      <3> HIDE DEF rs
      <3> QED
        BY <3>1, <3>2, <3>3
    <2>4. \A j, e : e \in CheckRows(j, cs[j]) \/ e \in CheckRows(j, checks) => e.run = j
      BY DEF CheckRows
    <2> HIDE DEF K, L, rs, cs, refused
    <2>5. {mem'.runs[j] : j \in L} = IF refused THEN pg.runs ELSE {r \in pg.runs : r.id # i} \cup {row}
      <3>1. \A j \in K : j # i /\ j \in DOMAIN rs /\ mem'.runs[j] = rs[j] /\ rs[j].id = j
        BY <1>6, <2>1, <2>2 DEF K
      <3>2. {r \in pg.runs : r.id # i} = {rs[j] : j \in K}
        BY <2>1, <3>1
      <3>3. {mem'.runs[j] : j \in K} = {rs[j] : j \in K}
        BY <3>1
      <3>4. ASSUME ~refused
            PROVE  {mem'.runs[j] : j \in L} = {mem'.runs[j] : j \in K} \cup {mem'.runs[i]}
        BY <2>2, <3>4
      <3>5. {mem'.runs[j] : j \in K} = pg.runs
        BY <2>1, <3>3
      <3>6. {mem'.runs[j] : j \in K} = {r \in pg.runs : r.id # i}
        BY <3>2, <3>3
      <3>7. mem'.runs[i] = row
        BY <1>6
      <3>8. CASE refused
        BY <2>2, <3>5, <3>8
      <3>9. CASE ~refused
        BY <3>4, <3>6, <3>7, <3>9
      <3> QED
        BY <3>8, <3>9
    <2>6. UNION {CheckRows(j, mem'.checksByRun[j]) : j \in L}
              = IF refused THEN pg.checkResults
                ELSE {e \in pg.checkResults : e.run # i} \cup CheckRows(i, checks)
      <3>1. \A j \in K : j # i /\ mem'.checksByRun[j] = cs[j]
        BY <1>6, <2>2 DEF K
      <3>2. UNION {CheckRows(j, mem'.checksByRun[j]) : j \in K} = pg.checkResults
        <4>1. {CheckRows(j, mem'.checksByRun[j]) : j \in K} = {CheckRows(j, cs[j]) : j \in K}
          BY <3>1
        <4> QED
          BY <2>1, <4>1
      <3>3. {e \in pg.checkResults : e.run # i} = pg.checkResults
        <4>1. \A e \in pg.checkResults : \E j \in K : e \in CheckRows(j, cs[j])
          BY <2>1
        <4>2. \A e \in pg.checkResults : e.run # i
          BY <2>4, <3>1, <4>1
        <4> QED
          BY <4>2
      <3>4. CASE refused
        BY <2>2, <3>2, <3>4
      <3>5. CASE ~refused
        <4> DEFINE rowsOf(j) == CheckRows(j, mem'.checksByRun[j])
        <4>1. L = K \cup {i}
          BY <2>2, <3>5
        <4>2. rowsOf(i) = CheckRows(i, checks)
          BY <1>6
        <4> HIDE DEF rowsOf
        <4>3. UNION {rowsOf(j) : j \in L} = (UNION {rowsOf(j) : j \in K}) \cup rowsOf(i)
          BY <4>1
        <4>4. UNION {rowsOf(j) : j \in K} = pg.checkResults
          BY <3>2 DEF rowsOf
        <4>5. UNION {rowsOf(j) : j \in L} = {e \in pg.checkResults : e.run # i} \cup CheckRows(i, checks)
          BY <3>3, <4>2, <4>3, <4>4
        <4> QED
          BY <3>5, <4>5, Zenon DEF rowsOf
      <3> QED
        BY <3>4, <3>5
    <2>7. /\ mem'.samples \in Seq(Run) /\ Range(mem'.samples) = Range(mem.samples) \cup {row}
      BY <1>2, <1>4, <2>1, AppendRange
    <2>8. \A s \in Range(mem'.samples) : s.id \in DOMAIN mem'.runs /\ s = mem'.runs[s.id]
      BY <1>2, <1>6, <2>1, <2>7 DEF rs, cs
    <2>9. {s \in Range(mem'.samples) : s.id \notin RefusedRuns'}
              = IF refused THEN pg.samples ELSE pg.samples \cup {row}
      <3>1. \A s \in Range(mem.samples) : s.id # i
        BY <1>1 DEF SameRuns, RecordRun
      <3>2. i \notin RefusedRuns
        BY DEF RefusedRuns, RecordRun
      <3>3. \A s \in Range(mem.samples) : s.id \in RefusedRuns' <=> s.id \in RefusedRuns
        BY <1>7, <3>1 DEF refused
      <3>4. row.id \in RefusedRuns' <=> refused
        BY <1>2, <1>7, <3>2 DEF refused
      <3>5. \A s : s \in Range(mem'.samples) <=> s \in Range(mem.samples) \/ s = row
        BY <2>7
      <3> QED
        BY <2>1, <3>3, <3>4, <3>5
    <2>10. \A j \in DOMAIN mem'.runs :
               mem'.runs[j] \in Run /\ mem'.runs[j].id = j /\ mem'.checksByRun[j] \in CheckResults
      BY <1>2, <1>6, <2>1 DEF rs, cs
    <2>11. /\ pg'.runs = {mem'.runs[j] : j \in L}
           /\ pg'.checkResults = UNION {CheckRows(j, mem'.checksByRun[j]) : j \in L}
           /\ pg'.samples = {s \in Range(mem'.samples) : s.id \notin RefusedRuns'}
      BY <1>5, <2>5, <2>6, <2>9
    <2>12. /\ DOMAIN mem'.checksByRun = DOMAIN mem'.runs
           /\ IsFiniteSet(DOMAIN mem'.runs) /\ Cardinality(DOMAIN mem'.runs) <= calls'
      BY <1>6, <2>1, <2>3 DEF rs, cs
    <2> QED
      BY <2>7, <2>8, <2>10, <2>11, <2>12 DEF SameRuns, L
  <1>9. SameAnswers'
    <2>1. CASE refused
      <3>1. i \in RefusedRuns' /\ mem'.runs[i].started = calls' - 1
        BY <1>1, <1>2, <1>3, <1>6, <1>7, <2>1
      <3>2. returned'.mem = Ok /\ returned'.pg = DuplicateKey
        BY <1>3, <2>1 DEF PgRecorded
      <3> QED
        BY <3>1, <3>2 DEF SameAnswers
    <2>2. CASE ~refused
      BY <1>3, <2>2 DEF PgRecorded, SameAnswers
    <2> QED
      BY <2>1, <2>2
  <1> HIDE DEF rs, cs, refused
  <1> QED
    BY <1>1, <1>3, <1>4, <1>5, <1>8, <1>9, ScenariosFrame, WorkersFrame, TokensFrame, AssignmentsFrame, EvalRunsFrame
       DEF StoresInv

LEMMA RecordEvalRunKeepsInv ==
    ASSUME StoresInv, NEW i \in RunIds, NEW n \in ScenarioNames, NEW results \in EvalResults,
           RecordEvalRun(i, n, results)
    PROVE  StoresInv'
  <1> DEFINE row == RunRow(i, n)
             pair == <<row, results>>
             es == mem.evalRuns
             refused == Repeats(results)
             added == {[run |-> i, name |-> e] : e \in Range(results)}
  <1>1. /\ SameScenarios /\ SameWorkers /\ SameTokens /\ SameAssignments /\ SameRuns /\ SameEvalRuns
        /\ calls \in Nat
    BY DEF StoresInv
  <1>2. row \in Run /\ row.id = i /\ row.started = calls
    BY <1>1 DEF RunRow, Run
  <1> HIDE DEF row
  <1>3. pair \in Run \X EvalResults /\ pair[1] = row /\ pair[2] = results
    BY <1>2
  <1>4. /\ calls' = calls + 1 /\ calls' <= MaxCalls
        /\ mem' = MemRecordEvalRun(row, results) /\ pg' = PgRecordEvalRun(row, results)
        /\ returned' = [mem |-> Ok, pg |-> PgRecorded(results)]
    BY StorageBackendsAssumption DEF StoresInv, RecordEvalRun, Both, row
  <1>5. /\ DOMAIN mem' = DOMAIN mem /\ mem'.evalRuns = Put(es, i, pair)
        /\ mem'.scenarios = mem.scenarios /\ mem'.workers = mem.workers /\ mem'.assignments = mem.assignments
        /\ mem'.tokens = mem.tokens /\ mem'.tokensByID = mem.tokensByID /\ mem'.runs = mem.runs
        /\ mem'.checksByRun = mem.checksByRun /\ mem'.samples = mem.samples
    BY <1>2, <1>4 DEF StoresInv, MemRecordEvalRun
  <1>6. /\ DOMAIN pg' = DOMAIN pg
        /\ pg'.scenarios = pg.scenarios /\ pg'.workers = pg.workers /\ pg'.assignments = pg.assignments
        /\ pg'.tokens = pg.tokens /\ pg'.runs = pg.runs /\ pg'.checkResults = pg.checkResults
        /\ pg'.samples = pg.samples
        /\ refused => pg'.evalRuns = pg.evalRuns /\ pg'.evalResults = pg.evalResults
        /\ ~refused => /\ pg'.evalRuns = {r \in pg.evalRuns : r.id # i} \cup {row}
                       /\ pg'.evalResults = {e \in pg.evalResults : e.run # i} \cup added
    BY <1>2, <1>4 DEF StoresInv, PgRecordEvalRun
  <1> DEFINE fs == mem'.evalRuns
  <1> HIDE DEF pair
  <1>7. /\ DOMAIN fs = DOMAIN es \cup {i} /\ fs[i] = pair
        /\ \A j \in DOMAIN es : j # i => fs[j] = es[j]
    BY <1>5 DEF Put
  <1>8. RefusedEvalRuns' = (RefusedEvalRuns \ {i}) \cup (IF refused THEN {i} ELSE {})
    BY <1>3, <1>7 DEF RefusedEvalRuns
  <1>9. SameEvalRuns'
    <2> DEFINE ResultsOf(E, j) == {e.name : e \in {x \in E : x.run = j}}
    <2>1. /\ \A j \in DOMAIN es : es[j] \in Run \X EvalResults /\ es[j][1].id = j
          /\ IsFiniteSet(DOMAIN es) /\ Cardinality(DOMAIN es) <= calls
          /\ \A j \in DOMAIN es \ RefusedEvalRuns :
                 /\ {r \in pg.evalRuns : r.id = j} = {es[j][1]}
                 /\ ResultsOf(pg.evalResults, j) = Range(es[j][2])
          /\ \A r \in pg.evalRuns : r.id \in DOMAIN es
      BY <1>1 DEF SameEvalRuns
    <2>2. IsFiniteSet(DOMAIN fs) /\ Cardinality(DOMAIN fs) <= calls'
      <3>1. /\ IsFiniteSet(DOMAIN es \cup {i})
            /\ Cardinality(DOMAIN es \cup {i}) = Cardinality(DOMAIN es)
                   \/ Cardinality(DOMAIN es \cup {i}) = Cardinality(DOMAIN es) + 1
        BY <2>1, FS_AddElement
      <3>2. Cardinality(DOMAIN es) \in Nat
        BY <2>1, FS_CardinalityType
      <3> QED
        BY <1>1, <1>4, <1>7, <2>1, <3>1, <3>2
    <2>3. ASSUME ~refused PROVE ResultsOf(pg'.evalResults, i) = Range(results)
      <3>1. {e \in pg'.evalResults : e.run = i} = added
        BY <1>6, <2>3
      <3>2. {e.name : e \in added} = Range(results)
        <4> DEFINE R == Range(results)
        <4> HIDE DEF R
        <4>1. ASSUME NEW e \in R PROVE \E a \in added : a.name = e
          <5>1. [run |-> i, name |-> e] \in added
            BY DEF R
          <5> QED
            BY <5>1
        <4>2. \A a \in added : a.name \in R
          BY DEF R
        <4> QED
          BY <4>1, <4>2 DEF R
      <3> QED
        BY <3>1, <3>2
    <2>4. ASSUME NEW j, j # i
          PROVE  /\ ResultsOf(pg'.evalResults, j) = ResultsOf(pg.evalResults, j)
                 /\ {r \in pg'.evalRuns : r.id = j} = {r \in pg.evalRuns : r.id = j}
      <3>1. {e \in pg'.evalResults : e.run = j} = {e \in pg.evalResults : e.run = j}
        BY <1>6, <2>4
      <3>2. {r \in pg'.evalRuns : r.id = j} = {r \in pg.evalRuns : r.id = j}
        BY <1>2, <1>6, <2>4
      <3> QED
        BY <3>1, <3>2
    <2>5. ASSUME ~refused PROVE {r \in pg'.evalRuns : r.id = i} = {row}
      BY <1>2, <1>6, <2>5
    <2> HIDE DEF es, fs, ResultsOf, added, refused
    <2>6. ASSUME NEW j \in DOMAIN fs \ RefusedEvalRuns'
          PROVE  /\ {r \in pg'.evalRuns : r.id = j} = {fs[j][1]}
                 /\ ResultsOf(pg'.evalResults, j) = Range(fs[j][2])
      <3>1. CASE j = i
        BY <1>3, <1>7, <1>8, <2>3, <2>5, <2>6, <3>1
      <3>2. CASE j # i
        <4>1. j \in DOMAIN es \ RefusedEvalRuns /\ fs[j] = es[j]
          BY <1>7, <1>8, <2>6, <3>2
        <4> QED
          BY <2>1, <2>4, <3>2, <4>1
      <3> QED
        BY <3>1, <3>2
    <2>7. \A r \in pg'.evalRuns : r.id \in DOMAIN fs
      BY <1>2, <1>6, <1>7, <2>1
    <2>8. \A j \in DOMAIN fs : fs[j] \in Run \X EvalResults /\ fs[j][1].id = j
      BY <1>2, <1>3, <1>7, <2>1
    <2> QED
      BY <2>2, <2>6, <2>7, <2>8 DEF SameEvalRuns, fs, ResultsOf
  <1>10. SameAnswers'
    <2>1. CASE refused
      <3>1. i \in RefusedEvalRuns' /\ mem'.evalRuns[i][1].started = calls' - 1
        BY <1>1, <1>2, <1>3, <1>4, <1>7, <1>8, <2>1
      <3>2. returned'.mem = Ok /\ returned'.pg = DuplicateKey
        BY <1>4, <2>1 DEF PgRecorded
      <3> QED
        BY <3>1, <3>2 DEF SameAnswers
    <2>2. CASE ~refused
      BY <1>4, <2>2 DEF PgRecorded, SameAnswers
    <2> QED
      BY <2>1, <2>2
  <1> HIDE DEF es, fs, refused, added
  <1> QED
    BY <1>1, <1>4, <1>5, <1>6, <1>9, <1>10, ScenariosFrame, WorkersFrame, TokensFrame, AssignmentsFrame, RunsFrame
       DEF StoresInv

\* storage/memory.go and storage/postgres.go: the tables have what the maps have
\* of every report that Postgres did not refuse, after any calls.
THEOREM StoresInvariance == StoresSpec => []StoresInv
  <1>1. StoresInit => StoresInv
    BY StoresStart
  <1>2. ASSUME StoresInv, [StoresNext]_storeVars
        PROVE  StoresInv'
    <2>1. CASE UNCHANGED storeVars
      <3>1. mem' = mem /\ pg' = pg /\ calls' = calls /\ returned' = returned
        BY <2>1 DEF storeVars
      <3>2. (SameScenarios' <=> SameScenarios) /\ (SameWorkers' <=> SameWorkers) /\ (SameTokens' <=> SameTokens)
        BY <3>1 DEF SameScenarios, SameWorkers, SameTokens
      <3>3. SameAssignments' <=> SameAssignments
        BY <3>1 DEF SameAssignments, MemAssigned
      <3>4. RefusedRuns' = RefusedRuns /\ RefusedEvalRuns' = RefusedEvalRuns
        BY <3>1 DEF RefusedRuns, RefusedEvalRuns
      <3>5. (SameRuns' <=> SameRuns) /\ (SameEvalRuns' <=> SameEvalRuns) /\ (SameAnswers' <=> SameAnswers)
        BY <3>1, <3>4 DEF SameRuns, SameEvalRuns, SameAnswers
      <3> QED
        BY <1>2, <3>1, <3>2, <3>3, <3>5 DEF StoresInv
    <2>2. CASE StoresNext
      BY <1>2, <2>2, UpsertKeepsInv, RegisterKeepsInv, HeartbeatKeepsInv, AssignKeepsInv, IssueKeepsInv,
         RevokeKeepsInv, RecordRunKeepsInv, RecordEvalRunKeepsInv
         DEF StoresNext
    <2> QED
      BY <1>2, <2>1, <2>2
  <1> QED
    BY <1>1, <1>2, PTL DEF StoresSpec

\* What the in-memory store answers, Postgres answers, after any calls: the
\* tests of the handlers, which use MemStore, say something of production, but
\* for reports that name a check or an eval twice: those Postgres refuses.
\* Up to 100 runs of a kind: a list without a limit is longer in memory.
THEOREM BackendsAgreeHolds ==
    ASSUME MaxCalls <= 100
    PROVE  StoresSpec => []BackendsAgree
  <1>1. StoresInv => BackendsAgree
    BY ReadsAlike
  <1> QED
    BY <1>1, StoresInvariance, PTL
-----------------------------------------------------------------------------
(* Types                                                                   *)

\* A version counts the upserts of its name, of which there are no more than
\* calls.
Counted ==
    /\ \A n \in DOMAIN mem.scenarios : mem.scenarios[n].version \in 1..calls
    /\ DOMAIN mem.workers \subseteq WorkerIds

LEMMA CountedKeeps ==
    ASSUME StoresInv, Counted, [StoresNext]_storeVars
    PROVE  Counted'
  <1>1. /\ calls \in Nat
        /\ DOMAIN mem = {"scenarios", "workers", "assignments", "tokens", "tokensByID", "runs", "checksByRun",
                         "evalRuns", "samples"}
    BY DEF StoresInv
  <1>2. ASSUME NEW n \in ScenarioNames, NEW d \in Documents, UpsertScenario(n, d)
        PROVE  Counted'
    <2>1. calls' = calls + 1 /\ mem'.workers = mem.workers /\ mem'.scenarios = Put(mem.scenarios, n, MemScenario(n, d))
      BY <1>1, <1>2 DEF UpsertScenario, Both
    <2>2. MemScenario(n, d).version \in 1..calls'
      BY <1>1, <2>1 DEF MemScenario, Counted
    <2>3. /\ DOMAIN mem'.scenarios = DOMAIN mem.scenarios \cup {n} /\ mem'.scenarios[n] = MemScenario(n, d)
          /\ \A x \in DOMAIN mem.scenarios : x # n => mem'.scenarios[x] = mem.scenarios[x]
      BY <2>1 DEF Put
    <2>4. \A x \in DOMAIN mem.scenarios : mem.scenarios[x].version \in 1..calls'
      BY <1>1, <2>1 DEF Counted
    <2> QED
      BY <2>1, <2>2, <2>3, <2>4 DEF Counted
  <1>3. ASSUME NEW x \in WorkerIds, RegisterWorker(x) \/ Heartbeat(x)
        PROVE  Counted'
    <2>1. calls' = calls + 1 /\ mem'.scenarios = mem.scenarios
      BY <1>1, <1>3 DEF RegisterWorker, Heartbeat, Both
    <2>2. mem'.workers = Put(mem.workers, x, calls) \/ mem'.workers = mem.workers
      <3>1. CASE RegisterWorker(x)
        BY <1>1, <3>1 DEF RegisterWorker, Both
      <3>2. CASE Heartbeat(x)
        BY <1>1, <3>2 DEF Heartbeat, Both
      <3> QED
        BY <1>3, <3>1, <3>2
    <2>3. DOMAIN mem'.workers \subseteq WorkerIds
      BY <2>2 DEF Put, Counted
    <2> QED
      BY <1>1, <2>1, <2>3 DEF Counted
  <1>4. ASSUME calls' = calls + 1 \/ calls' = calls, mem'.scenarios = mem.scenarios, mem'.workers = mem.workers
        PROVE  Counted'
    BY <1>1, <1>4 DEF Counted
  <1>5. ASSUME NEW x \in WorkerIds, NEW n \in ScenarioNames, AssignScenario(x, n)
        PROVE  Counted'
    BY <1>1, <1>4, <1>5 DEF AssignScenario, Both
  <1>6. ASSUME NEW k \in Digests, NEW role \in TokenRoles, StoreIssueToken(k, role)
        PROVE  Counted'
    BY <1>1, <1>4, <1>6 DEF StoreIssueToken, MemIssue, Both
  <1>7. ASSUME NEW id \in 0..MaxCalls, StoreRevokeToken(id)
        PROVE  Counted'
    BY <1>1, <1>4, <1>7 DEF StoreRevokeToken, MemRevoke, Both
  <1>8. ASSUME NEW i \in RunIds, NEW n \in ScenarioNames, NEW cs \in CheckResults, RecordRun(i, n, cs)
        PROVE  Counted'
    BY <1>1, <1>4, <1>8 DEF RecordRun, MemRecordRun, Both
  <1>9. ASSUME NEW i \in RunIds, NEW n \in ScenarioNames, NEW rs \in EvalResults, RecordEvalRun(i, n, rs)
        PROVE  Counted'
    BY <1>1, <1>4, <1>9 DEF RecordEvalRun, MemRecordEvalRun, Both
  <1>10. CASE UNCHANGED storeVars
    BY <1>4, <1>10 DEF storeVars
  <1> QED
    BY <1>2, <1>3, <1>5, <1>6, <1>7, <1>8, <1>9, <1>10 DEF StoresNext

\* Keys and rows are what the handlers put there, versions and ids are small.
THEOREM StoresTypeCorrect == StoresSpec => []StoresTypeOK
  <1>1. StoresInit => Counted
    BY DEF StoresInit, Counted
  <1>2. StoresInv /\ Counted /\ [StoresNext]_storeVars => Counted'
    BY CountedKeeps
  <1>3. StoresInv /\ Counted => StoresTypeOK
    <2> SUFFICES ASSUME StoresInv, Counted PROVE StoresTypeOK
      OBVIOUS
    <2>1. /\ calls \in Nat /\ MaxCalls \in Nat /\ calls <= MaxCalls
          /\ SameScenarios /\ SameTokens /\ SameRuns
      BY StorageBackendsAssumption DEF StoresInv
    <2>2. pg.scenarios \subseteq [name : ScenarioNames, doc : Documents, version : 1..MaxCalls]
      <3>1. ASSUME NEW n \in DOMAIN mem.scenarios
            PROVE  mem.scenarios[n] \in Scenario /\ mem.scenarios[n].version \in 1..MaxCalls
        BY <2>1 DEF SameScenarios, Counted
      <3>2. \A r \in Scenario : r.version \in 1..MaxCalls => r \in [name : ScenarioNames, doc : Documents, version : 1..MaxCalls]
        BY DEF Scenario
      <3> QED
        BY <2>1, <3>1, <3>2 DEF SameScenarios, Range
    <2>3. pg.tokens \subseteq [digest : Digests, id : 0..MaxCalls, role : TokenRoles]
      BY <2>1 DEF SameTokens
    <2>4. DOMAIN mem.runs \subseteq RunIds
      BY <2>1 DEF SameRuns, Run
    <2> QED
      BY <2>1, <2>2, <2>3, <2>4 DEF StoresTypeOK, SameScenarios, SameTokens, Counted
  <1> QED
    BY <1>1, <1>2, <1>3, StoresInvariance, PTL DEF StoresSpec
-----------------------------------------------------------------------------
(* The replicas and the stores, put together                               *)

\* pkg/controlplane and its storage: what is proved of the replicas and of the
\* stores each alone holds of both together, whatever the replicas' fairness.
THEOREM PartsImplemented == Spec => ControlPlaneSpec /\ StoresSpec
  <1>1. Init => ControlPlaneInit /\ StoresInit
    BY DEF Init
  <1>2. [Next]_<<allVars, storeVars, part>> => [ControlPlaneNext]_allVars /\ [StoresNext]_storeVars
    BY DEF Next
  <1> QED
    BY <1>1, <1>2, PTL DEF Spec, ControlPlaneSpec, StoresSpec

\* Phases, tables and requests of the replicas, and maps and tables of the
\* stores, keep their types.
THEOREM TypeCorrect == Spec => []TypeOK
  <1>1. (ControlPlaneTypeOK /\ StoresTypeOK) => TypeOK
    BY DEF TypeOK
  <1> QED
    BY <1>1, PartsImplemented, ControlPlaneTypeCorrect, StoresTypeCorrect, PTL
=============================================================================
