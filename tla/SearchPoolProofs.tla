--------------------------- MODULE SearchPoolProofs ---------------------------
(***************************************************************************)
(* Proofs about SearchPool, for any number of searches, paths, workers and *)
(* items: the work of every search is counted right, and the pools grow    *)
(* within their targets and the global cap.                                *)
(***************************************************************************)
EXTENDS SearchPool, FoldProofs, FiniteSetTheorems, SequenceTheorems, TLAPS

------------------------------------------------------------------------------
(* How many workers there are *)

\* Searches are numbered from 1, so no pool is registered under NoSearch's key, and
\* there are finitely many.
LEMMA SearchesFinite ==
    /\ Searches \subseteq Nat \ {0} /\ NoSearch \notin Searches
    /\ \A T \in SUBSET Searches : IsFiniteSet(T) /\ Cardinality(T) \in Nat
<1>1. MaxSearches \in Nat
  BY SizesAssumption
<1>2. IsFiniteSet(Searches)
  BY <1>1, FS_Interval DEF Searches
<1>3. Searches \subseteq Nat \ {0} /\ NoSearch \notin Searches
  BY <1>1 DEF Searches, NoSearch
<1> QED
  BY <1>2, <1>3, FS_Subset, FS_CardinalityType

\* Pools by search, and whose pool each path's key leads to.
Pools == [Searches -> PoolRecord]
Owners == [Paths -> Searches \cup {NoSearch}]

\* The registered pools are pools of searches.
LEMMA PoolsInSearches == \A reg \in Owners : PoolsIn(reg) \in SUBSET Searches
BY DEF Owners, PoolsIn

\* A pool has a number of workers.
LEMMA ActiveIsNat == \A p \in PoolRecord : Active(p) \in Nat
BY DEF PoolRecord, Active

\* TotalWorkers adds up the workers of the registered pools, one pool at a time.
LEMMA TotalAdds ==
    ASSUME NEW pools \in Pools, NEW reg \in Owners
    PROVE  \E it \in [SUBSET PoolsIn(reg) -> Nat] :
              /\ TotalWorkers(pools, reg) = it[PoolsIn(reg)]
              /\ it[{}] = 0
              /\ \A T \in SUBSET PoolsIn(reg) :
                    T # {} => it[T] = it[Rest(T)] + Active(pools[Pick(T)])
<1> DEFINE S == PoolsIn(reg)
           Sum(it) == it = [T \in SUBSET S |->
                               IF T = {} THEN 0
                               ELSE LET x == CHOOSE x \in T : TRUE
                                    IN it[T \ {x}] + Active(pools[x])]
           chosen == CHOOSE it : Sum(it)
           h == [sn \in S \X Nat |-> sn[2] + Active(pools[sn[1]])]
<1>1. TotalWorkers(pools, reg) = chosen[S]
  BY DEF TotalWorkers, FoldSet, MapThenFoldSet
<1>2. \A x \in S : Active(pools[x]) \in Nat
  BY ActiveIsNat, PoolsInSearches DEF Pools
<1>3. \A x \in S : \A n \in Nat : h[<<x, n>>] = n + Active(pools[x]) /\ h[<<x, n>>] \in Nat
  BY <1>2
<1>4. IsFiniteSet(S)
  BY PoolsInSearches, SearchesFinite
<1> HIDE DEF S
<1>5. PICK it \in [SUBSET S -> Nat] : \A T \in SUBSET S : it[T] = FoldStep(it, T, 0, h)
  <2> DEFINE Acc == Nat
             zero == 0
  <2>1. zero \in Acc /\ Steps(h, S, Acc)
    BY <1>3 DEF Steps
  <2> HIDE DEF h, Acc, zero
  <2>2. \E it : Folds(it, S, Acc, zero, h)
    BY <1>4, <2>1, FoldExists
  <2> QED
    BY <2>2 DEF Acc, zero, Folds
<1>6. ASSUME NEW T \in SUBSET S, T # {} PROVE Pick(T) \in S /\ Rest(T) \in SUBSET S
  BY <1>6 DEF Pick, Rest
<1>7. Sum(it)
  <2>1. ASSUME NEW T \in SUBSET S, T # {}
        PROVE  it[T] = it[Rest(T)] + Active(pools[Pick(T)])
    BY <1>5, <1>6, <2>1 DEF FoldStep
  <2> QED
    BY <1>5, <2>1 DEF FoldStep, Pick, Rest
<1>8. Sum(chosen)
  BY <1>7
<1>9. /\ DOMAIN chosen = SUBSET S
      /\ chosen = [T \in SUBSET S |-> chosen[T]]
      /\ chosen[{}] = 0
      /\ \A T \in SUBSET S : T # {} => chosen[T] = chosen[Rest(T)] + Active(pools[Pick(T)])
  BY <1>8 DEF Pick, Rest
<1> HIDE DEF chosen
<1>10. \A T \in SUBSET S : chosen[T] \in Nat
  <2> DEFINE G == {T \in SUBSET S : chosen[T] \in Nat}
  <2>1. {} \in G
    BY <1>9
  <2>2. ASSUME NEW T \in SUBSET S, T # {}, Rest(T) \in G PROVE T \in G
    <3>1. chosen[T] = chosen[Rest(T)] + Active(pools[Pick(T)]) /\ chosen[Rest(T)] \in Nat
      BY <1>9, <2>2
    <3>2. Active(pools[Pick(T)]) \in Nat
      BY <1>2, <1>6, <2>2
    <3> QED
      BY <3>1, <3>2
  <2> HIDE DEF G
  <2>3. SUBSET S \subseteq G
    BY <1>4, <2>1, <2>2, FoldInduction
  <2> QED
    BY <2>3 DEF G
<1> QED
  BY <1>1, <1>9, <1>10 DEF S

\* Workers that join one registered pool add to the total; no others do.
LEMMA TotalGrows ==
    ASSUME NEW old \in Pools, NEW new \in Pools, NEW reg \in Owners, NEW s \in Searches,
           NEW n \in Nat, Active(new[s]) = Active(old[s]) + n,
           \A t \in Searches \ {s} : Active(new[t]) = Active(old[t])
    PROVE  /\ TotalWorkers(old, reg) \in Nat
           /\ s \in PoolsIn(reg) => TotalWorkers(new, reg) = TotalWorkers(old, reg) + n
           /\ s \notin PoolsIn(reg) => TotalWorkers(new, reg) = TotalWorkers(old, reg)
<1> DEFINE S == PoolsIn(reg)
           more(T) == IF s \in T THEN n ELSE 0
<1>1. PICK was \in [SUBSET S -> Nat] :
         /\ TotalWorkers(old, reg) = was[S]
         /\ was[{}] = 0
         /\ \A T \in SUBSET S : T # {} => was[T] = was[Rest(T)] + Active(old[Pick(T)])
  BY TotalAdds
<1>2. PICK is \in [SUBSET S -> Nat] :
         /\ TotalWorkers(new, reg) = is[S]
         /\ is[{}] = 0
         /\ \A T \in SUBSET S : T # {} => is[T] = is[Rest(T)] + Active(new[Pick(T)])
  BY TotalAdds
<1>3. S \in SUBSET Searches /\ IsFiniteSet(S)
  BY PoolsInSearches, SearchesFinite
<1> HIDE DEF S
<1> DEFINE G == {T \in SUBSET S : is[T] = was[T] + more(T)}
<1>4. {} \in G
  BY <1>1, <1>2
<1>5. ASSUME NEW T \in SUBSET S, T # {}, Rest(T) \in G PROVE T \in G
  <2>1. Pick(T) \in T /\ Pick(T) \in Searches /\ Rest(T) = T \ {Pick(T)} /\ Rest(T) \in SUBSET S
    BY <1>3, <1>5 DEF Pick, Rest
  <2>2. Active(old[Pick(T)]) \in Nat
    BY <2>1, ActiveIsNat DEF Pools
  <2>3. is[Rest(T)] = was[Rest(T)] + more(Rest(T)) /\ was[Rest(T)] \in Nat
    BY <1>1, <1>5, <2>1
  <2>4. /\ was[T] = was[Rest(T)] + Active(old[Pick(T)])
        /\ is[T] = is[Rest(T)] + Active(new[Pick(T)])
    BY <1>1, <1>2, <1>5
  <2>5. CASE Pick(T) = s
    <3>1. more(Rest(T)) = 0 /\ more(T) = n
      BY <2>1, <2>5
    <3> QED
      BY <2>2, <2>3, <2>4, <2>5, <3>1
  <2>6. CASE Pick(T) # s
    <3>1. more(Rest(T)) = more(T) /\ more(T) \in Nat
      BY <2>1, <2>6
    <3> HIDE DEF more
    <3>2. Active(new[Pick(T)]) = Active(old[Pick(T)])
      BY <2>1, <2>6
    <3> QED
      BY <2>2, <2>3, <2>4, <3>1, <3>2
  <2> QED
    BY <2>5, <2>6
<1>6. S \in G
  <2> HIDE DEF G
  <2>1. SUBSET S \subseteq G
    BY <1>3, <1>4, <1>5, FoldInduction
  <2> QED
    BY <2>1
<1> QED
  BY <1>1, <1>2, <1>6 DEF S

------------------------------------------------------------------------------
(* Workers that join *)

\* What a search has queued or in the hands of its workers.
Work(p) == Len(p.queue) + p.listing + p.grepping

\* q is p with the same work and no fewer workers on it.
Manned(p, q) ==
    /\ q \in PoolRecord
    /\ Active(p) <= Active(q)
    /\ Work(q) = Work(p)
    /\ q.pending + p.listing = p.pending + q.listing
    /\ p.listing <= q.listing
    /\ p.queue = <<>> => q.queue = <<>> /\ q.listing = p.listing /\ q.grepping = p.grepping

\* Workers that join take items of the queue, or wait.
LEMMA JoinedManned ==
    ASSUME NEW p \in PoolRecord, NEW n \in Nat
    PROVE  /\ Manned(p, Joined(p, n))
           /\ Active(Joined(p, n)) = Active(p) + n
           /\ Joined(p, n).desired = p.desired /\ Joined(p, n).full = p.full
<1> DEFINE len == Len(p.queue)
           k == Smaller(n, len)
           left == SubSeq(p.queue, k + 1, len)
           found == {i \in 1 .. k : p.queue[i] = "dir"}
           dirs == Cardinality(found)
           q == Joined(p, n)
<1>1. /\ p.queue \in Seq({"dir", "files"}) /\ p.listing \in Nat /\ p.grepping \in Nat
      /\ p.waiting \in Nat /\ p.posting \in Nat /\ p.pending \in Nat
      /\ p.desired \in 1 .. MaxProcesses /\ p.full \in 1 .. MaxProcesses
  BY DEF PoolRecord
<1>2. len \in Nat
  BY <1>1
<1>3. k \in Nat /\ k <= n /\ k <= len /\ (len = 0 => k = 0)
  BY <1>2 DEF Smaller
<1>4. left \in Seq({"dir", "files"}) /\ Len(left) = len - k
  <2>1. \A i \in k + 1 .. len : p.queue[i] \in {"dir", "files"}
    BY <1>1, <1>3, ElementOfSeq
  <2> HIDE DEF k
  <2> QED
    BY <1>1, <1>2, <1>3, <2>1, SubSeqProperties
<1>5. dirs \in Nat /\ dirs <= k
  <2>1. IsFiniteSet(1 .. k) /\ Cardinality(1 .. k) = k
    BY <1>3, FS_Interval
  <2>2. found \in SUBSET (1 .. k)
    OBVIOUS
  <2> HIDE DEF found, k
  <2> QED
    BY <2>1, <2>2, FS_Subset, FS_CardinalityType
<1>6. q = [p EXCEPT !.queue = left, !.listing = p.listing + dirs, !.pending = p.pending + dirs,
                    !.grepping = p.grepping + k - dirs, !.waiting = p.waiting + n - k]
  BY DEF Joined
<1>7. p.queue = <<>> => len = 0
  OBVIOUS
<1>8. len = 0 => left = <<>>
  <2> HIDE DEF left
  <2> QED
    BY <1>2, <1>3, <1>4, EmptySeq
<1> HIDE DEF len, k, left, found, dirs, q
<1>9. /\ q.queue = left /\ q.listing = p.listing + dirs /\ q.pending = p.pending + dirs
      /\ q.grepping = p.grepping + k - dirs /\ q.waiting = p.waiting + n - k
      /\ q.posting = p.posting /\ q.desired = p.desired /\ q.full = p.full
  BY <1>6 DEF PoolRecord
<1>10. q \in PoolRecord
  <2>1. /\ p.listing + dirs \in Nat /\ p.pending + dirs \in Nat
        /\ p.grepping + k - dirs \in Nat
        /\ p.waiting + n - k \in Nat
    <3>1. p.listing + dirs \in Nat
      BY <1>1, <1>5
    <3>2. p.pending + dirs \in Nat
      BY <1>1, <1>5
    <3>3. p.grepping + k - dirs \in Nat
      BY <1>1, <1>3, <1>5
    <3>4. p.waiting + n - k \in Nat
      BY <1>1, <1>3, <1>5
    <3> QED
      BY <3>1, <3>2, <3>3, <3>4
  <2> QED
    BY <1>4, <1>6, <2>1 DEF PoolRecord
<1>11. Active(q) = Active(p) + n
  <2>1. \A a, b, c, d, x, y \in Nat : (a + x) + (b + y - x) + (c + n - y) + d = (a + b + c + d) + n
    OBVIOUS
  <2>2. Active(q) = (p.listing + dirs) + (p.grepping + k - dirs) + (p.waiting + n - k) + p.posting
    BY <1>9 DEF Active
  <2>3. Active(p) = p.listing + p.grepping + p.waiting + p.posting
    BY DEF Active
  <2>4. /\ p.listing \in Nat /\ p.grepping \in Nat /\ p.waiting \in Nat /\ p.posting \in Nat
        /\ dirs \in Nat /\ k \in Nat
    BY <1>1, <1>3, <1>5
  <2> QED
    BY <2>1, <2>2, <2>3, <2>4
<1>12. Work(q) = Work(p)
  <2>1. \A a, b, x, y, l \in Nat : (l - y) + (a + x) + (b + y - x) = l + a + b
    OBVIOUS
  <2>2. Work(q) = (len - k) + (p.listing + dirs) + (p.grepping + k - dirs)
    BY <1>4, <1>9 DEF Work
  <2>3. Work(p) = len + p.listing + p.grepping
    BY DEF Work, len
  <2>4. len \in Nat /\ p.listing \in Nat /\ p.grepping \in Nat /\ dirs \in Nat /\ k \in Nat
    BY <1>1, <1>2, <1>3, <1>5 DEF len
  <2> HIDE DEF len
  <2> QED
    BY <2>1, <2>2, <2>3, <2>4
<1>13. q.pending + p.listing = p.pending + q.listing
  BY <1>1, <1>5, <1>9
<1>16. p.listing <= q.listing
  BY <1>1, <1>5, <1>9
<1>14. p.queue = <<>> => q.queue = <<>> /\ q.listing = p.listing /\ q.grepping = p.grepping
  <2> SUFFICES ASSUME p.queue = <<>>
               PROVE  q.queue = <<>> /\ q.listing = p.listing /\ q.grepping = p.grepping
    OBVIOUS
  <2>1. k = 0 /\ dirs = 0
    BY <1>3, <1>5, <1>7
  <2> QED
    BY <1>1, <1>7, <1>8, <1>9, <2>1
<1>15. Active(p) \in Nat
  BY ActiveIsNat
<1> QED
  BY <1>9, <1>10, <1>11, <1>12, <1>13, <1>14, <1>15, <1>16 DEF Manned, q

\* A pool is manned as it is, and however often workers join.
LEMMA MannedAgain ==
    /\ \A p \in PoolRecord : Manned(p, p)
    /\ \A p, q, r \in PoolRecord : Manned(p, q) /\ Manned(q, r) => Manned(p, r)
<1>1. \A p \in PoolRecord : Active(p) \in Nat /\ p.pending \in Nat /\ p.listing \in Nat
  BY ActiveIsNat DEF PoolRecord
<1>2. ASSUME NEW p \in PoolRecord PROVE Manned(p, p)
  BY <1>1 DEF Manned
<1>3. ASSUME NEW p \in PoolRecord, NEW q \in PoolRecord, NEW r \in PoolRecord,
             Manned(p, q), Manned(q, r)
      PROVE  Manned(p, r)
  <2>1. Active(p) <= Active(r)
    BY <1>1, <1>3 DEF Manned
  <2>2. r.pending + p.listing = p.pending + r.listing
    <3>1. /\ q.pending + p.listing = p.pending + q.listing
          /\ r.pending + q.listing = q.pending + r.listing
      BY <1>3 DEF Manned
    <3>2. /\ p.pending \in Nat /\ q.pending \in Nat /\ r.pending \in Nat
          /\ p.listing \in Nat /\ q.listing \in Nat /\ r.listing \in Nat
      BY <1>1
    <3> QED
      BY <3>1, <3>2
  <2>3. p.listing <= r.listing
    BY <1>1, <1>3 DEF Manned
  <2> QED
    BY <1>3, <2>1, <2>2, <2>3 DEF Manned
<1> QED
  BY <1>2, <1>3

------------------------------------------------------------------------------
(* Throttling *)

\* Every pool keeps a worker, and none wants more than it was set to.
LEMMA EffectiveCountType ==
    ASSUME NEW full \in 1 .. MaxProcesses, NEW searches \in Nat \ {0}, NEW ops \in BOOLEAN
    PROVE  EffectiveCount(full, searches, ops) \in 1 .. MaxProcesses
<1>1. MaxProcesses \in Nat \ {0, 1} /\ full \in Nat \ {0} /\ full <= MaxProcesses
  BY SizesAssumption
<1> DEFINE n == full + searches - 1
           e == n \div searches
<1>2. n \in Nat /\ n >= searches
  BY <1>1
<1>3. e \in Int /\ e * searches <= n /\ n < (e + 1) * searches
  BY <1>2, SMTT(30)
<1>4. e >= 1
  <2>1. e <= 0 => (e + 1) * searches <= searches
    BY <1>3, SMTT(30)
  <2> QED
    BY <1>2, <1>3, <2>1
<1>5. e <= full
  <2> SUFFICES ASSUME e >= full + 1 PROVE FALSE
    BY <1>1, <1>3
  <2>1. e * searches >= (full + 1) * searches
    BY <1>1, <1>3, SMTT(30)
  <2>2. (full + 1) * searches = full * searches + searches
    BY <1>1, SMTT(30)
  <2>3. full * searches >= full
    BY <1>1, SMTT(30)
  <2> QED
    BY <1>1, <1>2, <1>3, <2>1, <2>2, <2>3
<1> HIDE DEF e
<1>6. EffectiveCount(full, searches, ops) = IF ops THEN 1 ELSE e
  BY DEF EffectiveCount, e
<1> QED
  BY <1>1, <1>3, <1>4, <1>5, <1>6

\* Pools in which some have more workers than in old, those of T at most, stay within
\* their targets and the global cap.
Updated(old, new, reg, T) ==
    /\ new \in Pools
    /\ \A t \in Searches : Manned(old[t], new[t])
    /\ \A t \in Searches \ T : new[t] = old[t]
    /\ \A t \in Searches : Active(new[t]) > Active(old[t]) =>
          Active(new[t]) <= new[t].desired /\ TotalWorkers(new, reg) <= MaxWorkers

\* updatePriority on one registered pool.
LEMMA RetargetUpdates ==
    ASSUME NEW srch, NEW pools \in Pools, NEW reg \in Owners, NEW ops \in BOOLEAN,
           NEW s \in PoolsIn(reg),
           NEW r, r = Retarget(srch, pools, reg, ops, s)
    PROVE  /\ r.hung \in BOOLEAN
           /\ Updated(pools, r.pool, reg, {s})
           /\ \/ TotalWorkers(r.pool, reg) = TotalWorkers(pools, reg)
              \/ TotalWorkers(r.pool, reg) <= MaxWorkers
<1> DEFINE e == EffectiveCount(pools[s].full, Cardinality(PoolsIn(reg)), ops)
           aimed == [pools EXCEPT ![s].desired = e]
           n == Room(aimed, reg, s)
           filled == Joined(aimed[s], n)
           after == [aimed EXCEPT ![s] = filled]
           leaves == srch[s].aborted \/ (filled.waiting > pools[s].waiting /\ filled.pending = 0)
           hangs == n > 0 /\ leaves
<1>1. s \in Searches /\ PoolsIn(reg) \in SUBSET Searches
  BY PoolsInSearches
<1>2. pools[s] \in PoolRecord
  BY <1>1 DEF Pools
<1>3. e \in 1 .. MaxProcesses
  <2>1. IsFiniteSet(PoolsIn(reg)) /\ Cardinality(PoolsIn(reg)) \in Nat
    BY <1>1, SearchesFinite
  <2>2. Cardinality(PoolsIn(reg)) # 0
    BY <2>1, FS_EmptySet
  <2>3. pools[s].full \in 1 .. MaxProcesses
    BY <1>2 DEF PoolRecord
  <2> QED
    BY <2>1, <2>2, <2>3, EffectiveCountType
<1> HIDE DEF e
<1>4. /\ aimed \in Pools /\ aimed[s] = [pools[s] EXCEPT !.desired = e]
      /\ \A t \in Searches \ {s} : aimed[t] = pools[t]
  BY <1>1, <1>2, <1>3 DEF Pools, PoolRecord
<1>5. /\ aimed[s].desired = e /\ Active(aimed[s]) = Active(pools[s])
      /\ Manned(pools[s], aimed[s]) /\ aimed[s] \in PoolRecord
  <2>1. /\ aimed[s].queue = pools[s].queue /\ aimed[s].listing = pools[s].listing
        /\ aimed[s].grepping = pools[s].grepping /\ aimed[s].pending = pools[s].pending
        /\ aimed[s].waiting = pools[s].waiting /\ aimed[s].posting = pools[s].posting
        /\ aimed[s].desired = e
    BY <1>2, <1>4 DEF PoolRecord
  <2>2. aimed[s] \in PoolRecord
    BY <1>1, <1>4 DEF Pools
  <2>3. Active(aimed[s]) = Active(pools[s]) /\ Work(aimed[s]) = Work(pools[s])
    BY <2>1 DEF Active, Work
  <2>4. Active(pools[s]) \in Nat
    BY <1>2, ActiveIsNat
  <2>5. Active(pools[s]) <= Active(aimed[s])
    BY <2>3, <2>4
  <2>6. pools[s].listing <= aimed[s].listing
    BY <1>2, <2>1 DEF PoolRecord
  <2> HIDE DEF aimed
  <2> QED
    BY <2>1, <2>2, <2>3, <2>5, <2>6 DEF Manned
<1>6. /\ TotalWorkers(aimed, reg) = TotalWorkers(pools, reg)
      /\ TotalWorkers(aimed, reg) \in Nat
  <2>1. Active(aimed[s]) = Active(pools[s]) + 0
    BY <1>2, <1>5, ActiveIsNat
  <2>2. \A t \in Searches \ {s} : Active(aimed[t]) = Active(pools[t])
    BY <1>4
  <2>3. \A t \in Searches \ {s} : Active(pools[t]) = Active(aimed[t])
    BY <2>2
  <2>4. Active(pools[s]) = Active(aimed[s]) + 0
    BY <1>2, <1>5, ActiveIsNat
  <2>5. TotalWorkers(aimed, reg) \in Nat /\ TotalWorkers(pools, reg) \in Nat
    <3> HIDE DEF aimed
    <3> QED
      BY <1>1, <1>4, <2>1, <2>2, <2>3, <2>4, TotalGrows
  <2>6. TotalWorkers(aimed, reg) = TotalWorkers(pools, reg) + 0
    <3> HIDE DEF aimed
    <3> QED
      BY <1>1, <1>4, <2>1, <2>2, <2>3, TotalGrows
  <2> QED
    BY <2>5, <2>6
<1> HIDE DEF aimed
<1>7. /\ n \in Nat
      /\ n > 0 => Active(aimed[s]) + n <= e /\ TotalWorkers(aimed, reg) + n <= MaxWorkers
  <2>1. Active(aimed[s]) \in Nat /\ e \in Nat /\ MaxWorkers \in Nat /\ MaxProcesses \in Nat
    BY <1>3, <1>5, ActiveIsNat, SizesAssumption
  <2>2. n = IF Active(aimed[s]) >= e \/ TotalWorkers(aimed, reg) >= MaxWorkers THEN 0
            ELSE Smaller(e - Active(aimed[s]), MaxWorkers - TotalWorkers(aimed, reg))
    BY <1>5 DEF Room
  <2> HIDE DEF n
  <2> QED
    BY <1>6, <2>1, <2>2 DEF Smaller
<1> HIDE DEF n
<1>8. /\ Manned(aimed[s], filled) /\ Active(filled) = Active(aimed[s]) + n /\ filled.desired = e
      /\ filled \in PoolRecord
  BY <1>5, <1>7, JoinedManned DEF Manned
<1> HIDE DEF filled
<1>9. /\ after \in Pools /\ after[s] = filled
      /\ \A t \in Searches \ {s} : after[t] = pools[t] /\ after[t] = aimed[t]
  BY <1>1, <1>4, <1>8 DEF Pools
<1> HIDE DEF after
<1>10. TotalWorkers(after, reg) = TotalWorkers(pools, reg) + n
  BY <1>1, <1>4, <1>6, <1>7, <1>8, <1>9, TotalGrows
<1>11. Manned(pools[s], after[s])
  BY <1>2, <1>5, <1>8, <1>9, MannedAgain
<1>12. \A t \in Searches : Manned(pools[t], pools[t])
  BY MannedAgain DEF Pools
<1>13. \A t \in Searches : Active(pools[t]) \in Nat
  BY ActiveIsNat DEF Pools
<1>14. CASE pools[s].desired = e
  <2>1. r.pool = pools /\ r.hung = FALSE
    BY <1>14 DEF Retarget, e
  <2>2. \A t \in Searches : ~(Active(pools[t]) > Active(pools[t]))
    BY <1>13
  <2>3. Updated(pools, pools, reg, {s})
    BY <1>12, <2>2 DEF Updated
  <2> QED
    BY <2>1, <2>3
<1>15. CASE pools[s].desired # e
  <2>1. r.pool = after /\ r.hung = hangs
    BY <1>15 DEF Retarget, e, aimed, n, filled, after
  <2>2. hangs \in BOOLEAN
    OBVIOUS
  <2>3. Updated(pools, after, reg, {s})
    <3>1. \A t \in Searches : Manned(pools[t], after[t])
      BY <1>9, <1>11, <1>12
    <3>2. ASSUME NEW t \in Searches, Active(after[t]) > Active(pools[t])
          PROVE  Active(after[t]) <= after[t].desired /\ TotalWorkers(after, reg) <= MaxWorkers
      <4>1. t = s
        BY <1>9, <1>13, <3>2
      <4>2. n > 0
        BY <1>5, <1>7, <1>8, <1>9, <1>13, <3>2, <4>1
      <4> QED
        BY <1>6, <1>7, <1>8, <1>9, <1>10, <4>1, <4>2
    <3> QED
      BY <1>9, <3>1, <3>2 DEF Updated
  <2>4. \/ TotalWorkers(after, reg) = TotalWorkers(pools, reg)
        \/ TotalWorkers(after, reg) <= MaxWorkers
    BY <1>6, <1>7, <1>10
  <2> QED
    BY <2>1, <2>2, <2>3, <2>4
<1> QED
  BY <1>14, <1>15

\* updatePriority on all registered pools, one after the other.
LEMMA PrioritiesUpdated ==
    ASSUME NEW srch, NEW pools \in Pools, NEW reg \in Owners, NEW ops \in BOOLEAN,
           NEW u, u = UpdatePriority(srch, pools, reg, ops)
    PROVE  u.hung \in BOOLEAN /\ Updated(pools, u.pool, reg, PoolsIn(reg))
<1> DEFINE S == PoolsIn(reg)
           Acc == [pool : Pools, hung : BOOLEAN]
           base == [pool |-> pools, hung |-> FALSE]
           made(s, acc) == Retarget(srch, acc.pool, reg, ops, s)
           Fill(it) == it = [T \in SUBSET S |->
                                IF T = {} THEN base
                                ELSE LET x == CHOOSE x \in T : TRUE
                                     IN [pool |-> made(x, it[T \ {x}]).pool,
                                         hung |-> it[T \ {x}].hung \/ made(x, it[T \ {x}]).hung]]
           chosen == CHOOSE it : Fill(it)
           h == [sa \in S \X Acc |-> [pool |-> made(sa[1], sa[2]).pool,
                                      hung |-> sa[2].hung \/ made(sa[1], sa[2]).hung]]
<1>1. u = chosen[S]
  BY DEF UpdatePriority, FoldSet, MapThenFoldSet
<1>2. S \in SUBSET Searches /\ IsFiniteSet(S)
  BY PoolsInSearches, SearchesFinite
<1>3. ASSUME NEW x \in S, NEW a \in Acc
      PROVE  /\ made(x, a).hung \in BOOLEAN
             /\ Updated(a.pool, made(x, a).pool, reg, {x})
             /\ \/ TotalWorkers(made(x, a).pool, reg) = TotalWorkers(a.pool, reg)
                \/ TotalWorkers(made(x, a).pool, reg) <= MaxWorkers
  BY RetargetUpdates
<1> HIDE DEF made
<1>4. ASSUME NEW x \in S, NEW a \in Acc
      PROVE  h[<<x, a>>] \in Acc /\ h[<<x, a>>].pool = made(x, a).pool
  BY <1>3 DEF Updated
<1>5. base \in Acc
  OBVIOUS
<1>6. Steps(h, S, Acc)
  BY <1>4 DEF Steps
<1>7. PICK it \in [SUBSET S -> Acc] : \A T \in SUBSET S : it[T] = FoldStep(it, T, base, h)
  <2> HIDE DEF h, Acc, base, S
  <2>1. \E it : Folds(it, S, Acc, base, h)
    BY <1>2, <1>5, <1>6, FoldExists
  <2> QED
    BY <2>1 DEF Folds
<1>8. ASSUME NEW T \in SUBSET S, T # {} PROVE Pick(T) \in S /\ Rest(T) \in SUBSET S
  BY <1>8 DEF Pick, Rest
<1>9. Fill(it)
  <2>1. ASSUME NEW T \in SUBSET S, T # {}
        PROVE  it[T] = [pool |-> made(Pick(T), it[Rest(T)]).pool,
                        hung |-> it[Rest(T)].hung \/ made(Pick(T), it[Rest(T)]).hung]
    <3>1. it[T] = h[<<Pick(T), it[Rest(T)]>>] /\ it[Rest(T)] \in Acc /\ Pick(T) \in S
      BY <1>7, <1>8, <2>1 DEF FoldStep
    <3> QED
      BY <3>1
  <2> QED
    BY <1>7, <2>1 DEF FoldStep, Pick, Rest
<1>10. Fill(chosen)
  BY <1>9
<1>11. /\ chosen[{}] = base
       /\ \A T \in SUBSET S : T # {} => chosen[T].pool = made(Pick(T), chosen[Rest(T)]).pool
       /\ \A T \in SUBSET S : T # {} =>
             chosen[T] = [pool |-> made(Pick(T), chosen[Rest(T)]).pool,
                          hung |-> chosen[Rest(T)].hung \/ made(Pick(T), chosen[Rest(T)]).hung]
  <2>1. chosen = [T \in SUBSET S |->
                    IF T = {} THEN base
                    ELSE [pool |-> made(Pick(T), chosen[Rest(T)]).pool,
                          hung |-> chosen[Rest(T)].hung \/ made(Pick(T), chosen[Rest(T)]).hung]]
    BY <1>10 DEF Pick, Rest
  <2> HIDE DEF chosen, S
  <2>2. {} \in SUBSET S
    OBVIOUS
  <2>3. chosen[{}] = base
    BY <2>1, <2>2
  <2>4. ASSUME NEW T \in SUBSET S, T # {}
        PROVE  chosen[T] =
                  [pool |-> made(Pick(T), chosen[Rest(T)]).pool,
                   hung |-> chosen[Rest(T)].hung \/ made(Pick(T), chosen[Rest(T)]).hung]
    BY <2>1, <2>4
  <2>5. ASSUME NEW T \in SUBSET S, T # {}
        PROVE  chosen[T].pool = made(Pick(T), chosen[Rest(T)]).pool
    <3>1. ASSUME NEW a, NEW b, chosen[T] = [pool |-> a, hung |-> b] PROVE chosen[T].pool = a
      BY <3>1
    <3> QED
      BY <2>4, <2>5, <3>1, Zenon
  <2> QED
    BY <2>3, <2>4, <2>5
<1> HIDE DEF chosen, S, h
<1> DEFINE G == {T \in SUBSET S : chosen[T] \in Acc /\ Updated(pools, chosen[T].pool, reg, T)}
<1>12. {} \in G
  <2>1. \A t \in Searches : Manned(pools[t], pools[t]) /\ ~(Active(pools[t]) > Active(pools[t]))
    BY MannedAgain, ActiveIsNat DEF Pools
  <2>2. Updated(pools, pools, reg, {})
    BY <2>1 DEF Updated
  <2>3. chosen[{}] \in Acc /\ chosen[{}].pool = pools
    <3>1. base.pool = pools
      OBVIOUS
    <3> QED
      BY <1>5, <1>11, <3>1
  <2>4. {} \in SUBSET S
    OBVIOUS
  <2> QED
    BY <2>2, <2>3, <2>4
<1>13. ASSUME NEW T \in SUBSET S, T # {}, Rest(T) \in G PROVE T \in G
  <2> DEFINE x == Pick(T)
             was == chosen[Rest(T)].pool
             is == chosen[T].pool
  <2>1. x \in T /\ x \in S /\ Rest(T) = T \ {x} /\ chosen[Rest(T)] \in Acc
    BY <1>8, <1>13 DEF Pick, Rest
  <2>2. Updated(pools, was, reg, T \ {x})
    BY <1>13, <2>1
  <2>3. /\ Updated(was, is, reg, {x})
        /\ TotalWorkers(is, reg) = TotalWorkers(was, reg) \/ TotalWorkers(is, reg) <= MaxWorkers
        /\ made(x, chosen[Rest(T)]).hung \in BOOLEAN
    BY <1>3, <1>11, <1>13, <2>1
  <2>4. chosen[T] \in Acc
    <3>1. is \in Pools /\ is = made(x, chosen[Rest(T)]).pool
      BY <1>11, <1>13, <2>3 DEF Updated
    <3>2. chosen[T] = [pool |-> is,
                       hung |-> chosen[Rest(T)].hung \/ made(x, chosen[Rest(T)]).hung]
      BY <1>11, <1>13
    <3>3. (chosen[Rest(T)].hung \/ made(x, chosen[Rest(T)]).hung) \in BOOLEAN
      OBVIOUS
    <3> HIDE DEF is, x
    <3> QED
      BY <3>1, <3>2, <3>3
  <2> HIDE DEF x, was, is
  <2>5. pools \in Pools /\ was \in Pools /\ is \in Pools
    BY <2>2, <2>3 DEF Updated
  <2>6. ASSUME NEW t \in Searches PROVE Manned(pools[t], is[t])
    <3>1. Manned(pools[t], was[t]) /\ Manned(was[t], is[t])
      BY <2>2, <2>3 DEF Updated
    <3>2. pools[t] \in PoolRecord /\ was[t] \in PoolRecord /\ is[t] \in PoolRecord
      BY <2>5 DEF Pools
    <3> QED
      BY <3>1, <3>2, MannedAgain
  <2>7. \A t \in Searches \ T : is[t] = pools[t]
    BY <2>1, <2>2, <2>3 DEF Updated
  <2>8. ASSUME NEW t \in Searches, Active(is[t]) > Active(pools[t])
        PROVE  Active(is[t]) <= is[t].desired /\ TotalWorkers(is, reg) <= MaxWorkers
    <3>1. CASE t # x
      <4>1. is[t] = was[t]
        BY <2>3, <3>1 DEF Updated
      <4>2. Active(was[t]) <= was[t].desired /\ TotalWorkers(was, reg) <= MaxWorkers
        BY <2>2, <2>8, <4>1 DEF Updated
      <4> QED
        BY <2>3, <4>1, <4>2
    <3>2. CASE t = x
      <4>1. was[t] = pools[t]
        BY <2>2, <3>2 DEF Updated
      <4> QED
        BY <2>3, <2>8, <4>1 DEF Updated
    <3> QED
      BY <3>1, <3>2
  <2>9. Updated(pools, is, reg, T)
    BY <2>5, <2>6, <2>7, <2>8 DEF Updated
  <2> QED
    BY <2>4, <2>9 DEF is
<1>14. S \in G
  <2> HIDE DEF G
  <2>1. SUBSET S \subseteq G
    BY <1>2, <1>12, <1>13, FoldInduction
  <2> QED
    BY <2>1
<1>15. chosen[S].hung \in BOOLEAN
  BY <1>14
<1> QED
  BY <1>1, <1>14, <1>15 DEF S

------------------------------------------------------------------------------
(* What a search and its pool agree on *)

\* Nothing is completed that was not found, a pool is empty outside of "searching",
\* "done" is the last word; and while nobody aborts, nothing gets lost.
Sound(c, p) ==
    /\ c.phase # "searching" => p = EmptyPool
    /\ c.phase \in {"none", "connecting"} => ~c.done /\ c.completed = 0 /\ c.total = 0
    /\ (c.phase \in {"connecting", "searching"} /\ ~c.aborted) => c.listed
    /\ c.completed + Work(p) <= c.total
    /\ p.listing <= p.pending
    /\ c.done => p.queue = <<>> /\ p.listing = 0 /\ p.grepping = 0
    /\ (c.phase = "searching" /\ ~c.aborted) =>
          /\ c.completed + Work(p) = c.total
          /\ p.pending = p.listing
          /\ c.completed = c.total => c.done
    /\ (c.phase \in {"closing", "over"} /\ ~c.aborted) => c.done /\ c.completed = c.total

\* The last worker of a search that nobody aborted leaves an empty queue.
Held(c, p) == (c.phase = "searching" /\ ~c.aborted /\ Active(p) = 0) => p.queue = <<>>

\* The counts of a pool are numbers.
LEMMA PoolCounts ==
    \A p \in PoolRecord :
        /\ Len(p.queue) \in Nat /\ p.listing \in Nat /\ p.grepping \in Nat /\ p.waiting \in Nat
        /\ p.posting \in Nat /\ p.pending \in Nat /\ Work(p) \in Nat /\ Active(p) \in Nat
        /\ (Len(p.queue) = 0) = (p.queue = <<>>)
<1> SUFFICES ASSUME NEW p \in PoolRecord
             PROVE  /\ Len(p.queue) \in Nat /\ p.listing \in Nat /\ p.grepping \in Nat
                    /\ p.waiting \in Nat /\ p.posting \in Nat /\ p.pending \in Nat
                    /\ Work(p) \in Nat /\ Active(p) \in Nat
                    /\ (Len(p.queue) = 0) = (p.queue = <<>>)
  OBVIOUS
<1>1. /\ p.queue \in Seq({"dir", "files"}) /\ p.listing \in Nat /\ p.grepping \in Nat
      /\ p.waiting \in Nat /\ p.posting \in Nat /\ p.pending \in Nat
  BY DEF PoolRecord
<1>2. Len(p.queue) \in Nat /\ (Len(p.queue) = 0) = (p.queue = <<>>)
  BY <1>1, EmptySeq
<1> QED
  BY <1>1, <1>2, ActiveIsNat DEF Work

\* The empty pool is a pool with no work and no workers.
LEMMA EmptyIsPool ==
    /\ EmptyPool \in PoolRecord /\ Work(EmptyPool) = 0 /\ Active(EmptyPool) = 0
    /\ EmptyPool.listing = 0 /\ EmptyPool.pending = 0 /\ EmptyPool.grepping = 0
    /\ EmptyPool.queue = <<>>
<1>1. 1 \in 1 .. MaxProcesses
  BY SizesAssumption
<1>2. <<>> \in Seq({"dir", "files"}) /\ Len(<<>>) = 0
  OBVIOUS
<1> QED
  BY <1>1, <1>2 DEF EmptyPool, PoolRecord, Work, Active

\* Workers that join take nothing from what a search and its pool agree on.
LEMMA MannedSound ==
    ASSUME NEW c \in SearchRecord, NEW p \in PoolRecord, NEW q, Manned(p, q),
           c.phase = "searching" \/ p = q, Sound(c, p)
    PROVE  Sound(c, q) /\ (Held(c, p) => Held(c, q))
<1>1. q \in PoolRecord /\ Work(q) = Work(p)
  BY DEF Manned
<1>2. q.listing <= q.pending
  <2>1. q.pending + p.listing = p.pending + q.listing /\ p.listing <= p.pending
    BY DEF Manned, Sound
  <2> QED
    BY <1>1, <2>1, PoolCounts
<1>3. p.pending = p.listing => q.pending = q.listing
  <2>1. q.pending + p.listing = p.pending + q.listing
    BY DEF Manned
  <2> QED
    BY <1>1, <2>1, PoolCounts
<1>4. p.queue = <<>> => q.queue = <<>> /\ q.listing = p.listing /\ q.grepping = p.grepping
  BY DEF Manned
<1>5. c.phase # "searching" => q = EmptyPool
  BY DEF Sound
<1>6. Sound(c, q)
  BY <1>1, <1>2, <1>3, <1>4, <1>5 DEF Sound
<1>7. Active(q) = 0 => Active(p) = 0
  BY <1>1, PoolCounts DEF Manned
<1> QED
  BY <1>4, <1>6, <1>7 DEF Held

\* A worker that goes on takes an item, waits or leaves; the last leaves nothing.
LEMMA TakeNextManned ==
    ASSUME NEW p \in PoolRecord
    PROVE  /\ Manned(p, TakeNext(p))
           /\ Active(TakeNext(p)) <= Active(p) + 1
           /\ Active(TakeNext(p)) = 0 => TakeNext(p).queue = <<>>
           /\ TakeNext(p).desired = p.desired
<1>1. CASE Drained(p)
  BY <1>1, MannedAgain, PoolCounts DEF TakeNext, Drained
<1>2. CASE ~Drained(p)
  <2>1. TakeNext(p) = Joined(p, 1)
    BY <1>2 DEF TakeNext
  <2> QED
    BY <2>1, JoinedManned, PoolCounts
<1> QED
  BY <1>1, <1>2

\* So does one at the head of its loop, unless its search is aborted.
LEMMA LoopManned ==
    ASSUME NEW p \in PoolRecord, NEW aborted \in BOOLEAN
    PROVE  /\ Manned(p, Loop(p, aborted))
           /\ Active(Loop(p, aborted)) <= Active(p) + 1
           /\ (~aborted /\ Active(Loop(p, aborted)) = 0) => Loop(p, aborted).queue = <<>>
           /\ Loop(p, aborted).desired = p.desired
<1>1. CASE aborted
  BY <1>1, MannedAgain, PoolCounts DEF Loop
<1>2. CASE ~aborted /\ Active(p) + 1 > p.desired /\ Active(p) >= 1
  BY <1>2, MannedAgain, PoolCounts DEF Loop
<1>3. CASE ~aborted /\ ~(Active(p) + 1 > p.desired /\ Active(p) >= 1)
  BY <1>3, TakeNextManned DEF Loop
<1> QED
  BY <1>1, <1>2, <1>3

\* A worker that completes an item of s, no longer counted in p.
LEMMA CountedSound ==
    ASSUME NEW c \in SearchRecord, NEW p \in PoolRecord,
           c.phase = "searching", ~c.done, ~c.aborted => c.listed,
           c.completed + Work(p) + 1 <= c.total, p.listing <= p.pending,
           ~c.aborted => c.completed + Work(p) + 1 = c.total /\ p.pending = p.listing
    PROVE  /\ Counted(c, p) \in SearchRecord
           /\ Sound(Counted(c, p), p)
           /\ Counted(c, p).phase = c.phase /\ Counted(c, p).aborted = c.aborted
           /\ Counted(c, p).path = c.path
<1> DEFINE k == Counted(c, p)
           last == c.listed /\ c.completed + 1 >= c.total /\ Drained(p)
<1>1. k = [c EXCEPT !.completed = c.completed + 1, !.done = c.done \/ last]
  BY DEF Counted
<1>2. /\ c.completed \in Nat /\ c.total \in Nat /\ c.total <= MaxItems /\ MaxItems \in Nat
      /\ c.completed <= MaxItems
  BY SizesAssumption DEF SearchRecord
<1>3. Work(p) \in Nat /\ p.listing \in Nat /\ p.grepping \in Nat /\ Len(p.queue) \in Nat
  BY PoolCounts
<1>4. c.completed + 1 \in 0 .. MaxItems
  BY <1>2, <1>3
<1> HIDE DEF last
<1>5. /\ k.completed = c.completed + 1 /\ (k.done = (c.done \/ last)) /\ k.phase = c.phase
      /\ k.aborted = c.aborted /\ k.listed = c.listed /\ k.total = c.total /\ k.path = c.path
  BY <1>1 DEF SearchRecord
<1>6. k \in SearchRecord
  <2>1. (c.done \/ last) \in BOOLEAN
    OBVIOUS
  <2> QED
    BY <1>1, <1>4, <2>1 DEF SearchRecord
<1> HIDE DEF k
<1>7. k.done => last
  BY <1>5
<1>8. c.completed + 1 >= c.total => Work(p) = 0
  BY <1>2, <1>3
<1>9. Work(p) = 0 => p.listing = 0 /\ p.grepping = 0 /\ p.queue = <<>>
  <2>1. Work(p) = Len(p.queue) + p.listing + p.grepping
    BY DEF Work
  <2> QED
    BY <1>3, <2>1, PoolCounts
<1>10. k.done => p.queue = <<>> /\ p.listing = 0 /\ p.grepping = 0
  BY <1>7, <1>8, <1>9 DEF last
<1>11. k.completed + Work(p) <= k.total
  BY <1>2, <1>3, <1>5
<1>12. ASSUME ~c.aborted
       PROVE  /\ k.completed + Work(p) = k.total
              /\ p.pending = p.listing
              /\ k.completed = k.total => k.done
  <2>1. k.completed + Work(p) = k.total
    BY <1>2, <1>3, <1>5, <1>12
  <2>2. ASSUME k.completed = k.total PROVE k.done
    <3>1. c.completed + 1 >= c.total
      BY <1>2, <1>5, <2>2
    <3>2. Drained(p)
      BY <1>8, <1>9, <1>12, <3>1 DEF Drained
    <3> QED
      BY <1>5, <1>12, <3>1, <3>2 DEF last
  <2> QED
    BY <1>12, <2>1, <2>2
<1>13. Sound(k, p)
  BY <1>5, <1>10, <1>11, <1>12 DEF Sound
<1> QED
  BY <1>5, <1>6, <1>13 DEF k

\* d is c later: the same progress, perhaps aborted or kept since.
Later(c, d) ==
    /\ d \in SearchRecord
    /\ d.phase = c.phase /\ d.path = c.path
    /\ d.completed = c.completed /\ d.total = c.total /\ d.done = c.done
    /\ d.aborted \/ (~c.aborted /\ d.listed = c.listed)

\* An abort takes nothing from what a search and its pool agree on.
LEMMA LaterSound ==
    \A c, d \in SearchRecord : \A p \in PoolRecord :
        Later(c, d) => (Sound(c, p) => Sound(d, p)) /\ (Held(c, p) => Held(d, p))
BY DEF Later, Sound, Held, SearchRecord

\* The inductive invariant: a search and its pool agree, and a key leads to the pool
\* of a running search on its path.
OK(srch, pools, reg) ==
    /\ srch \in [Searches -> SearchRecord]
    /\ pools \in Pools
    /\ reg \in Owners
    /\ \A q \in Paths : reg[q] # NoSearch =>
          srch[reg[q]].phase = "searching" /\ srch[reg[q]].path = q
    /\ \A s \in Searches : Sound(srch[s], pools[s]) /\ Held(srch[s], pools[s])

Inv ==
    /\ OK(search, pool, registered)
    /\ userOps \in BOOLEAN
    /\ hung \in BOOLEAN

\* Searches may be aborted, and keys forgotten.
LEMMA LaterOK ==
    ASSUME NEW srch, NEW pools, NEW reg, OK(srch, pools, reg),
           NEW since \in [Searches -> SearchRecord], NEW left \in Owners,
           \A s \in Searches : Later(srch[s], since[s]),
           \A q \in Paths : left[q] \in {NoSearch, reg[q]}
    PROVE  OK(since, pools, left)
<1>1. \A q \in Paths : left[q] # NoSearch =>
         since[left[q]].phase = "searching" /\ since[left[q]].path = q
  BY DEF OK, Owners, Later
<1>2. \A s \in Searches : Sound(since[s], pools[s]) /\ Held(since[s], pools[s])
  BY LaterSound DEF OK, Pools
<1> QED
  BY <1>1, <1>2 DEF OK

\* One search and its pool may change together.
LEMMA OneOK ==
    ASSUME NEW srch, NEW pools, NEW reg, OK(srch, pools, reg),
           NEW s \in Searches, NEW c \in SearchRecord, NEW p \in PoolRecord,
           c.phase = srch[s].phase, c.path = srch[s].path, Sound(c, p), Held(c, p)
    PROVE  OK([srch EXCEPT ![s] = c], [pools EXCEPT ![s] = p], reg)
<1> DEFINE since == [srch EXCEPT ![s] = c]
           next == [pools EXCEPT ![s] = p]
<1>1. since \in [Searches -> SearchRecord] /\ next \in Pools
  BY DEF OK, Pools
<1>2. since[s] = c /\ next[s] = p
  BY DEF OK, Pools
<1>3. \A t \in Searches \ {s} : since[t] = srch[t] /\ next[t] = pools[t]
  BY DEF OK, Pools
<1> HIDE DEF since, next
<1>4. \A q \in Paths : reg[q] # NoSearch =>
         since[reg[q]].phase = "searching" /\ since[reg[q]].path = q
  <2>1. \A q \in Paths : reg[q] # NoSearch => reg[q] \in Searches
    BY DEF OK, Owners
  <2>2. \A t \in Searches : since[t].phase = srch[t].phase /\ since[t].path = srch[t].path
    BY <1>2, <1>3
  <2> QED
    BY <2>1, <2>2 DEF OK
<1>5. \A t \in Searches : Sound(since[t], next[t]) /\ Held(since[t], next[t])
  BY <1>2, <1>3 DEF OK
<1>6. OK(since, next, reg)
  BY <1>1, <1>4, <1>5 DEF OK
<1> QED
  BY <1>6 DEF since, next

\* Workers that join registered pools keep the invariant.
LEMMA UpdatedOK ==
    ASSUME NEW srch, NEW pools, NEW reg, OK(srch, pools, reg),
           NEW next, Updated(pools, next, reg, PoolsIn(reg))
    PROVE  OK(srch, next, reg)
<1>1. \A s \in PoolsIn(reg) : srch[s].phase = "searching"
  BY DEF OK, Owners, PoolsIn
<1>2. ASSUME NEW s \in Searches PROVE Sound(srch[s], next[s]) /\ Held(srch[s], next[s])
  <2>1. Manned(pools[s], next[s]) /\ (s \notin PoolsIn(reg) => next[s] = pools[s])
    BY DEF Updated
  <2>2. srch[s] \in SearchRecord /\ pools[s] \in PoolRecord
    BY DEF OK, Pools
  <2>3. Sound(srch[s], pools[s]) /\ Held(srch[s], pools[s])
    BY DEF OK
  <2>4. srch[s].phase = "searching" \/ pools[s] = next[s]
    BY <1>1, <2>1
  <2> QED
    BY <2>1, <2>2, <2>3, <2>4, MannedSound
<1>3. next \in Pools
  BY DEF Updated
<1> QED
  BY <1>2, <1>3 DEF OK

\* The end of a handler keeps it, whatever updatePriority does.
LEMMA ReprioritizeKeeps ==
    ASSUME NEW srch, NEW pools, NEW reg, NEW ops \in BOOLEAN, OK(srch, pools, reg),
           Reprioritize(srch, pools, reg, ops)
    PROVE  Inv' /\ registered' = reg /\ Updated(pools, pool', reg, PoolsIn(reg))
<1> DEFINE u == IF Throttling(search) \/ Throttling(srch)
                THEN UpdatePriority(srch, pools, reg, ops)
                ELSE [pool |-> pools, hung |-> FALSE]
<1>1. search' = srch /\ pool' = u.pool /\ registered' = reg /\ userOps' = ops /\ hung' = u.hung
  BY DEF Reprioritize
<1>2. pools \in Pools /\ reg \in Owners
  BY DEF OK
<1>3. u.hung \in BOOLEAN /\ Updated(pools, u.pool, reg, PoolsIn(reg))
  <2>1. CASE Throttling(search) \/ Throttling(srch)
    <3>1. u = UpdatePriority(srch, pools, reg, ops)
      BY <2>1
    <3> HIDE DEF u
    <3> QED
      BY <1>2, <3>1, PrioritiesUpdated
  <2>2. CASE ~(Throttling(search) \/ Throttling(srch))
    <3>1. u.pool = pools /\ u.hung = FALSE
      BY <2>2
    <3>2. \A t \in Searches : Manned(pools[t], pools[t]) /\ ~(Active(pools[t]) > Active(pools[t]))
      BY <1>2, MannedAgain, ActiveIsNat DEF Pools
    <3>3. Updated(pools, pools, reg, PoolsIn(reg))
      BY <1>2, <3>2 DEF Updated
    <3> QED
      BY <3>1, <3>3
  <2> QED
    BY <2>1, <2>2
<1> HIDE DEF u
<1>4. OK(srch, u.pool, reg)
  BY <1>3, UpdatedOK
<1> QED
  BY <1>1, <1>3, <1>4 DEF Inv

------------------------------------------------------------------------------
(* The steps *)

\* What GrowthCapped says of a step.
Growth ==
    (PoolsIn(registered') \subseteq PoolsIn(registered) /\ ~hung') =>
        \A s \in PoolsIn(registered') :
            Active(pool'[s]) > Active(pool[s]) =>
                /\ Active(pool'[s]) <= pool'[s].desired
                /\ TotalWorkers(pool', registered') <= MaxWorkers

\* A handler that changes no pool's workers, then has the priorities updated.
LEMMA ReprioritizeGrows ==
    ASSUME NEW srch, NEW pools, NEW reg, NEW ops \in BOOLEAN, OK(srch, pools, reg),
           \A t \in Searches : Active(pools[t]) = Active(pool[t]),
           Reprioritize(srch, pools, reg, ops)
    PROVE  Inv' /\ Growth
<1>1. Inv' /\ registered' = reg /\ Updated(pools, pool', reg, PoolsIn(reg))
  BY ReprioritizeKeeps
<1>2. PoolsIn(reg) \subseteq Searches
  BY PoolsInSearches DEF OK
<1> QED
  BY <1>1, <1>2 DEF Updated, Growth

\* What handlers do to the record of a search that goes on.
LEMMA LaterForms ==
    \A c \in SearchRecord :
        /\ Later(c, c)
        /\ Later(c, [c EXCEPT !.kept = TRUE])
        /\ Later(c, [c EXCEPT !.aborted = TRUE])
        /\ Later(c, [c EXCEPT !.aborted = TRUE, !.listed = FALSE])
<1> SUFFICES ASSUME NEW c \in SearchRecord
             PROVE  /\ Later(c, c)
                    /\ Later(c, [c EXCEPT !.kept = TRUE])
                    /\ Later(c, [c EXCEPT !.aborted = TRUE])
                    /\ Later(c, [c EXCEPT !.aborted = TRUE, !.listed = FALSE])
  OBVIOUS
<1>1. Later(c, c)
  BY DEF SearchRecord, Later
<1>2. Later(c, [c EXCEPT !.kept = TRUE])
  BY DEF SearchRecord, Later
<1>3. Later(c, [c EXCEPT !.aborted = TRUE])
  BY DEF SearchRecord, Later
<1>4. Later(c, [c EXCEPT !.aborted = TRUE, !.listed = FALSE])
  BY DEF SearchRecord, Later
<1> QED
  BY <1>1, <1>2, <1>3, <1>4

\* A search begins.
LEMMA SearchKeeps ==
    ASSUME Inv, NEW s \in Searches, NEW p \in Paths, Search(s, p)
    PROVE  Inv' /\ Growth
<1> DEFINE others == [t \in Searches |->
                        IF search[t].listed /\ ~search[t].kept
                        THEN [search[t] EXCEPT !.aborted = TRUE, !.listed = FALSE]
                        ELSE search[t]]
           c == [others[s] EXCEPT !.phase = "connecting", !.path = p, !.listed = TRUE]
           srch == [others EXCEPT ![s].phase = "connecting", ![s].path = p, ![s].listed = TRUE]
<1>1. Reprioritize(srch, pool, registered, userOps) /\ search[s].phase = "none"
  BY DEF Search
<1>2. OK(search, pool, registered) /\ userOps \in BOOLEAN
  BY DEF Inv
<1>3. \A t \in Searches : others[t] \in SearchRecord /\ Later(search[t], others[t])
  <2>1. \A t \in Searches : search[t] \in SearchRecord
    BY <1>2 DEF OK
  <2>2. \A t \in Searches : Later(search[t], others[t])
    BY <2>1, LaterForms
  <2> QED
    BY <2>2 DEF Later
<1>4. others \in [Searches -> SearchRecord]
  BY <1>3
<1>5. others[s].phase = "none"
  BY <1>1, <1>3 DEF Later
<1> HIDE DEF others
<1>6. OK(others, pool, registered)
  BY <1>2, <1>3, <1>4, LaterOK DEF OK
<1>7. srch \in [Searches -> SearchRecord] /\ srch[s] = c /\ \A t \in Searches \ {s} : srch[t] = others[t]
  <2>1. others[s] \in SearchRecord
    BY <1>4
  <2>2. c \in SearchRecord
    BY <2>1 DEF SearchRecord
  <2>3. srch = [others EXCEPT ![s] = c]
    BY <1>4
  <2> HIDE DEF c, srch
  <2> QED
    BY <1>4, <2>2, <2>3
<1>8. /\ c.phase = "connecting" /\ c.listed /\ c.completed = others[s].completed
      /\ c.total = others[s].total /\ c.done = others[s].done /\ c.aborted = others[s].aborted
  BY <1>4 DEF SearchRecord
<1> HIDE DEF c, srch
<1>9. Sound(c, pool[s]) /\ Held(c, pool[s])
  BY <1>5, <1>6, <1>8 DEF OK, Sound, Held
<1>10. OK(srch, pool, registered)
  <2>1. \A q \in Paths : registered[q] # NoSearch =>
           srch[registered[q]].phase = "searching" /\ srch[registered[q]].path = q
    BY <1>5, <1>6, <1>7 DEF OK, Owners
  <2>2. \A t \in Searches : Sound(srch[t], pool[t]) /\ Held(srch[t], pool[t])
    BY <1>6, <1>7, <1>9 DEF OK
  <2> QED
    BY <1>6, <1>7, <2>1, <2>2 DEF OK
<1> QED
  BY <1>1, <1>2, <1>10, ReprioritizeGrows

\* Cancelling aborts the searches that are listed, and forgets keys.
LEMMA CancelledOK ==
    ASSUME OK(search, pool, registered), NEW owners, NEW gone
    PROVE  OK(Cancelled(owners), pool, Unregistered(gone))
<1>1. /\ Cancelled(owners) \in [Searches -> SearchRecord]
      /\ \A t \in Searches : Later(search[t], Cancelled(owners)[t])
  <2>1. \A t \in Searches : search[t] \in SearchRecord
    BY DEF OK
  <2>2. \A t \in Searches : Later(search[t], Cancelled(owners)[t])
    BY <2>1, LaterForms DEF Cancelled
  <2>3. \A t \in Searches : Cancelled(owners)[t] \in SearchRecord
    BY <2>2 DEF Later
  <2> QED
    BY <2>2, <2>3 DEF Cancelled
<1>2. /\ Unregistered(gone) \in Owners
      /\ \A q \in Paths : Unregistered(gone)[q] \in {NoSearch, registered[q]}
  BY DEF OK, Unregistered, Owners
<1> QED
  BY <1>1, <1>2, LaterOK

\* cancelSearch, of one or of all.
LEMMA CancelsKeep ==
    ASSUME Inv, CancelAll \/ \E s \in Searches : CancelSearch(s)
    PROVE  Inv' /\ Growth
<1>1. OK(search, pool, registered) /\ userOps \in BOOLEAN
  BY DEF Inv
<1>2. CASE CancelAll
  <2>1. OK(Cancelled(Searches), pool, Unregistered(Searches))
    BY <1>1, CancelledOK
  <2> QED
    BY <1>1, <1>2, <2>1, ReprioritizeGrows DEF CancelAll
<1>3. ASSUME NEW s \in Searches, CancelSearch(s) PROVE Inv' /\ Growth
  <2>1. OK(Cancelled({s}), pool, Unregistered({s}))
    BY <1>1, CancelledOK
  <2> QED
    BY <1>1, <1>3, <2>1, ReprioritizeGrows DEF CancelSearch
<1> QED
  BY <1>2, <1>3

\* Steps that leave the pools alone and take nothing from any search.
LEMMA QuietKeeps ==
    ASSUME Inv, search' \in [Searches -> SearchRecord],
           \A t \in Searches : Later(search[t], search'[t]),
           UNCHANGED <<pool, registered, userOps, hung>>
    PROVE  Inv' /\ Growth
<1>1. OK(search', pool, registered)
  BY LaterOK DEF Inv, OK
<1>2. \A t \in Searches : ~(Active(pool[t]) > Active(pool[t]))
  BY ActiveIsNat DEF Inv, OK, Pools
<1>3. PoolsIn(registered) \subseteq Searches
  BY PoolsInSearches DEF Inv, OK
<1> QED
  BY <1>1, <1>2, <1>3 DEF Inv, Growth

\* keepSearch, and the cancel of a batch's activity.
LEMMA KeptOrAborted ==
    ASSUME Inv, NEW s \in Searches, KeepSearch(s) \/ CancelActivity(s)
    PROVE  Inv' /\ Growth
<1>1. search \in [Searches -> SearchRecord]
  BY DEF Inv, OK
<1>2. \/ search' = [search EXCEPT ![s].kept = TRUE]
      \/ search' = [search EXCEPT ![s].aborted = TRUE]
  BY DEF KeepSearch, CancelActivity
<1>3. PICK d \in SearchRecord : Later(search[s], d) /\ search' = [search EXCEPT ![s] = d]
  <2>1. search[s] \in SearchRecord
    BY <1>1
  <2>2. /\ Later(search[s], [search[s] EXCEPT !.kept = TRUE])
        /\ Later(search[s], [search[s] EXCEPT !.aborted = TRUE])
    BY <2>1, LaterForms
  <2>3. \/ search' = [search EXCEPT ![s] = [search[s] EXCEPT !.kept = TRUE]]
        \/ search' = [search EXCEPT ![s] = [search[s] EXCEPT !.aborted = TRUE]]
    BY <1>1, <1>2
  <2> QED
    BY <2>2, <2>3 DEF Later
<1>4. search' \in [Searches -> SearchRecord] /\ \A t \in Searches : Later(search[t], search'[t])
  BY <1>1, <1>3, LaterForms
<1> QED
  BY <1>4, QuietKeeps DEF KeepSearch, CancelActivity

\* setServerMaxProcesses, and the user's other work.
LEMMA LimitsKeep ==
    ASSUME Inv, ToggleUserOps \/ \E n \in 1 .. MaxProcesses : SetMaxProcesses(n)
    PROVE  Inv' /\ Growth
<1>1. OK(search, pool, registered) /\ userOps \in BOOLEAN /\ pool \in Pools
  BY DEF Inv, OK
<1>2. CASE ToggleUserOps
  BY <1>1, <1>2, ReprioritizeGrows DEF ToggleUserOps
<1>3. ASSUME NEW n \in 1 .. MaxProcesses, SetMaxProcesses(n) PROVE Inv' /\ Growth
  <2> DEFINE pools == [t \in Searches |-> IF t \in PoolsIn(registered)
                                          THEN [pool[t] EXCEPT !.full = n]
                                          ELSE pool[t]]
  <2>1. Reprioritize(search, pools, registered, userOps)
    BY <1>3 DEF SetMaxProcesses
  <2>2. ASSUME NEW t \in Searches
        PROVE  /\ pools[t] \in PoolRecord
               /\ pools[t].queue = pool[t].queue /\ pools[t].listing = pool[t].listing
               /\ pools[t].grepping = pool[t].grepping /\ pools[t].waiting = pool[t].waiting
               /\ pools[t].posting = pool[t].posting /\ pools[t].pending = pool[t].pending
               /\ t \notin PoolsIn(registered) => pools[t] = pool[t]
    BY <1>1 DEF Pools, PoolRecord
  <2>3. pools \in Pools
    BY <2>2 DEF Pools
  <2> HIDE DEF pools
  <2>4. \A t \in Searches : Active(pools[t]) = Active(pool[t]) /\ Work(pools[t]) = Work(pool[t])
    BY <2>2 DEF Active, Work
  <2>5. ASSUME NEW t \in Searches
        PROVE  Sound(search[t], pools[t]) /\ Held(search[t], pools[t])
    <3>1. Sound(search[t], pool[t]) /\ Held(search[t], pool[t])
      BY <1>1 DEF OK
    <3>2. CASE t \notin PoolsIn(registered)
      BY <2>2, <3>1, <3>2
    <3>3. CASE search[t].phase = "searching"
      BY <2>2, <2>4, <3>1, <3>3 DEF Sound, Held
    <3> QED
      BY <1>1, <3>2, <3>3 DEF OK, PoolsIn
  <2>6. OK(search, pools, registered)
    BY <1>1, <2>3, <2>5 DEF OK
  <2> QED
    BY <1>1, <2>1, <2>4, <2>6, ReprioritizeGrows
<1> QED
  BY <1>2, <1>3

\* One search moves on to another phase, its key, if any, lost.
LEMMA MovedOK ==
    ASSUME NEW srch, NEW pools, NEW reg, OK(srch, pools, reg), NEW s \in Searches,
           NEW c \in SearchRecord, NEW p \in PoolRecord, Sound(c, p), Held(c, p),
           NEW left \in Owners, \A q \in Paths : left[q] \in {NoSearch, reg[q]} \ {s}
    PROVE  OK([srch EXCEPT ![s] = c], [pools EXCEPT ![s] = p], left)
<1> DEFINE since == [srch EXCEPT ![s] = c]
           next == [pools EXCEPT ![s] = p]
<1>1. since \in [Searches -> SearchRecord] /\ next \in Pools /\ since[s] = c /\ next[s] = p
  BY DEF OK, Pools
<1>2. \A t \in Searches \ {s} : since[t] = srch[t] /\ next[t] = pools[t]
  BY DEF OK, Pools
<1> HIDE DEF since, next
<1>3. \A q \in Paths : left[q] # NoSearch =>
         since[left[q]].phase = "searching" /\ since[left[q]].path = q
  BY <1>2 DEF OK, Owners
<1>4. \A t \in Searches : Sound(since[t], next[t]) /\ Held(since[t], next[t])
  BY <1>1, <1>2 DEF OK
<1>5. OK(since, next, left)
  BY <1>1, <1>3, <1>4 DEF OK
<1> QED
  BY <1>5 DEF since, next

\* A pool begins, with its first worker.
LEMMA BeginKeeps ==
    ASSUME Inv, NEW s \in Searches, BeginPool(s)
    PROVE  Inv' /\ Growth
<1>1. PICK n \in 2 .. MaxProcesses :
        LET fresh == [EmptyPool EXCEPT !.queue = <<"dir">>, !.desired = n, !.full = n]
            reg == [registered EXCEPT ![search[s].path] = s]
            u == UpdatePriority(search, [pool EXCEPT ![s] = fresh], reg, userOps)
        IN  pool' = [u.pool EXCEPT ![s] = Loop(@, FALSE)] /\ registered' = reg /\ hung' = u.hung
  BY DEF BeginPool
<1> DEFINE fresh == [EmptyPool EXCEPT !.queue = <<"dir">>, !.desired = n, !.full = n]
           reg == [registered EXCEPT ![search[s].path] = s]
           first == [pool EXCEPT ![s] = fresh]
           u == UpdatePriority(search, first, reg, userOps)
           c == [search[s] EXCEPT !.phase = "searching", !.total = 1]
<1>2. pool' = [u.pool EXCEPT ![s] = Loop(u.pool[s], FALSE)] /\ registered' = reg /\ hung' = u.hung
  BY <1>1
<1>3. /\ search' = [search EXCEPT ![s].phase = "searching", ![s].total = 1]
      /\ search[s].phase = "connecting" /\ ~search[s].aborted /\ userOps' = userOps
  BY DEF BeginPool
<1>4. /\ OK(search, pool, registered) /\ userOps \in BOOLEAN
      /\ search \in [Searches -> SearchRecord] /\ pool \in Pools /\ registered \in Owners
  BY DEF Inv, OK
<1>5. search[s] \in SearchRecord /\ Sound(search[s], pool[s])
  BY <1>4 DEF OK
<1>6. c \in SearchRecord /\ search' = [search EXCEPT ![s] = c]
  <2>1. 1 \in 0 .. MaxItems
    BY SizesAssumption
  <2>2. c \in SearchRecord
    BY <1>5, <2>1 DEF SearchRecord
  <2> QED
    BY <1>3, <1>4, <2>2
<1>7. /\ c.phase = "searching" /\ c.total = 1 /\ c.completed = 0 /\ ~c.done /\ c.listed
      /\ ~c.aborted /\ c.path = search[s].path
  <2>1. ~search[s].done /\ search[s].completed = 0 /\ search[s].listed
    BY <1>3, <1>5 DEF Sound
  <2> QED
    BY <1>3, <1>5, <2>1 DEF SearchRecord
<1> HIDE DEF c
<1>8. /\ fresh \in PoolRecord /\ Work(fresh) = 1 /\ fresh.listing = 0 /\ fresh.pending = 0
  <2>1. /\ fresh.queue = <<"dir">> /\ fresh.listing = 0 /\ fresh.grepping = 0 /\ fresh.waiting = 0
        /\ fresh.posting = 0 /\ fresh.pending = 0 /\ fresh.desired = n /\ fresh.full = n
    BY DEF EmptyPool
  <2>2. <<"dir">> \in Seq({"dir", "files"}) /\ Len(<<"dir">>) = 1 /\ n \in 1 .. MaxProcesses
    BY SizesAssumption
  <2>3. fresh \in PoolRecord
    BY <2>2 DEF EmptyPool, PoolRecord
  <2> QED
    BY <2>1, <2>2, <2>3 DEF Work
<1> HIDE DEF fresh
<1>9. first \in Pools /\ first[s] = fresh /\ \A t \in Searches \ {s} : first[t] = pool[t]
  BY <1>4, <1>8 DEF Pools
<1>10. /\ reg \in Owners /\ reg[search[s].path] = s
       /\ \A q \in Paths \ {search[s].path} : reg[q] = registered[q]
       /\ search[s].path \in Paths
  <2>1. search[s].path \in Paths
    BY <1>5 DEF SearchRecord
  <2> QED
    BY <1>4, <2>1 DEF Owners
<1> HIDE DEF first, reg, u
<1>11. u.hung \in BOOLEAN /\ Updated(first, u.pool, reg, PoolsIn(reg))
  BY <1>4, <1>9, <1>10, PrioritiesUpdated DEF u
<1>12. Sound(c, fresh)
  BY <1>7, <1>8 DEF Sound
<1>13. /\ Loop(u.pool[s], FALSE) \in PoolRecord
       /\ Sound(c, Loop(u.pool[s], FALSE)) /\ Held(c, Loop(u.pool[s], FALSE))
  <2>1. Manned(fresh, u.pool[s]) /\ u.pool[s] \in PoolRecord
    BY <1>9, <1>11 DEF Updated, Pools
  <2>2. Sound(c, u.pool[s])
    BY <1>6, <1>7, <1>8, <1>12, <2>1, MannedSound
  <2>3. Manned(u.pool[s], Loop(u.pool[s], FALSE))
    BY <2>1, LoopManned
  <2>4. Sound(c, Loop(u.pool[s], FALSE))
    BY <1>6, <1>7, <2>1, <2>2, <2>3, MannedSound
  <2>5. Active(Loop(u.pool[s], FALSE)) = 0 => Loop(u.pool[s], FALSE).queue = <<>>
    BY <2>1, LoopManned
  <2> QED
    BY <2>3, <2>4, <2>5 DEF Manned, Held
<1>14. /\ pool' \in Pools /\ pool'[s] = Loop(u.pool[s], FALSE)
       /\ \A t \in Searches \ {s} : pool'[t] = u.pool[t]
  BY <1>2, <1>11, <1>13 DEF Updated, Pools
<1>15. /\ search' \in [Searches -> SearchRecord] /\ search'[s] = c
       /\ \A t \in Searches \ {s} : search'[t] = search[t]
  BY <1>4, <1>6
<1>16. \A q \in Paths : registered[q] # NoSearch =>
          search[registered[q]].phase = "searching" /\ search[registered[q]].path = q
  BY <1>4 DEF OK
<1>17. \A q \in Paths : reg[q] # NoSearch =>
          search'[reg[q]].phase = "searching" /\ search'[reg[q]].path = q
  <2> SUFFICES ASSUME NEW q \in Paths, reg[q] # NoSearch
               PROVE  search'[reg[q]].phase = "searching" /\ search'[reg[q]].path = q
    OBVIOUS
  <2>1. CASE q = search[s].path
    BY <1>7, <1>10, <1>15, <2>1
  <2>2. CASE q # search[s].path
    <3>1. reg[q] = registered[q] /\ registered[q] \in Searches
      BY <1>4, <1>10, <2>2 DEF Owners
    <3>2. registered[q] # s
      BY <1>3, <1>16, <2>2, <3>1
    <3> QED
      BY <1>15, <1>16, <3>1, <3>2
  <2> QED
    BY <2>1, <2>2
<1>18. ASSUME NEW t \in Searches PROVE Sound(search'[t], pool'[t]) /\ Held(search'[t], pool'[t])
  <2>1. CASE t = s
    BY <1>13, <1>14, <1>15, <2>1
  <2>2. CASE t # s
    <3>1. Manned(pool[t], u.pool[t]) /\ (t \notin PoolsIn(reg) => u.pool[t] = pool[t])
      BY <1>9, <1>11, <2>2 DEF Updated
    <3>2. t \in PoolsIn(reg) => search[t].phase = "searching"
      BY <1>15, <1>17, <2>2 DEF PoolsIn
    <3>3. search[t] \in SearchRecord /\ pool[t] \in PoolRecord
      BY <1>4 DEF Pools
    <3>4. Sound(search[t], pool[t]) /\ Held(search[t], pool[t])
      BY <1>4 DEF OK
    <3> QED
      BY <1>14, <1>15, <2>2, <3>1, <3>2, <3>3, <3>4, MannedSound
  <2> QED
    BY <2>1, <2>2
<1>19. Inv'
  <2>1. OK(search', pool', registered')
    BY <1>2, <1>10, <1>14, <1>15, <1>17, <1>18 DEF OK
  <2> QED
    BY <1>2, <1>3, <1>4, <1>11, <2>1 DEF Inv
<1>20. ~(PoolsIn(registered') \subseteq PoolsIn(registered))
  <2>1. s \in PoolsIn(registered')
    BY <1>2, <1>10, SearchesFinite DEF PoolsIn
  <2>2. s \notin PoolsIn(registered)
    BY <1>3, <1>16 DEF PoolsIn
  <2> QED
    BY <2>1, <2>2
<1> QED
  BY <1>19, <1>20 DEF Growth

\* Connections that came too late, the end of a pool, and that of a search.
LEMMA PhasesKeep ==
    ASSUME Inv, NEW s \in Searches, AbortedConnecting(s) \/ PoolEnds(s) \/ SearchOver(s)
    PROVE  Inv' /\ Growth
<1>1. /\ OK(search, pool, registered) /\ userOps \in BOOLEAN /\ hung \in BOOLEAN
      /\ search \in [Searches -> SearchRecord] /\ pool \in Pools /\ registered \in Owners
  BY DEF Inv, OK
<1>2. search[s] \in SearchRecord /\ pool[s] \in PoolRecord /\ Sound(search[s], pool[s])
  BY <1>1 DEF OK, Pools
<1>3. \A q \in Paths : registered[q] # NoSearch =>
         search[registered[q]].phase = "searching" /\ search[registered[q]].path = q
  BY <1>1 DEF OK
<1>4. pool = [pool EXCEPT ![s] = pool[s]]
  BY <1>1 DEF Pools
<1>5. CASE AbortedConnecting(s)
  <2> DEFINE c == [search[s] EXCEPT !.phase = "closing"]
  <2>1. /\ c \in SearchRecord /\ c.phase = "closing" /\ c.aborted /\ c.done = search[s].done
        /\ c.completed = search[s].completed /\ c.total = search[s].total
    BY <1>2, <1>5 DEF AbortedConnecting, SearchRecord
  <2>2. search' = [search EXCEPT ![s] = c]
    BY <1>5 DEF AbortedConnecting
  <2> HIDE DEF c
  <2>3. search[s].phase = "connecting"
    BY <1>5 DEF AbortedConnecting
  <2>4. Sound(c, pool[s]) /\ Held(c, pool[s])
    BY <1>2, <2>1, <2>3 DEF Sound, Held
  <2>5. \A q \in Paths : registered[q] \in {NoSearch, registered[q]} \ {s}
    BY <1>3, <2>3, SearchesFinite
  <2>6. OK(search', [pool EXCEPT ![s] = pool[s]], registered)
    BY <1>1, <1>2, <2>1, <2>2, <2>4, <2>5, MovedOK
  <2>7. UNCHANGED <<pool, registered, userOps, hung>>
    BY <1>5 DEF AbortedConnecting
  <2>8. Inv'
    BY <1>1, <1>4, <2>6, <2>7 DEF Inv
  <2>9. \A t \in Searches : ~(Active(pool[t]) > Active(pool[t]))
    BY <1>1, ActiveIsNat DEF Pools
  <2> QED
    BY <1>1, <2>7, <2>8, <2>9, PoolsInSearches DEF Growth
<1>6. CASE PoolEnds(s)
  <2> DEFINE c == [search[s] EXCEPT !.phase = "closing"]
             left == [registered EXCEPT ![search[s].path] = NoSearch]
             pools == [pool EXCEPT ![s] = EmptyPool]
             srch == [search EXCEPT ![s] = c]
  <2>1. /\ c \in SearchRecord /\ c.phase = "closing" /\ c.aborted = search[s].aborted
        /\ c.done = search[s].done /\ c.completed = search[s].completed /\ c.total = search[s].total
    BY <1>2 DEF SearchRecord
  <2>2. Reprioritize(srch, pools, left, userOps)
    BY <1>6 DEF PoolEnds
  <2>3. search[s].phase = "searching" /\ Active(pool[s]) = 0
    BY <1>6 DEF PoolEnds
  <2>4. search[s].path \in Paths
    BY <1>2 DEF SearchRecord
  <2>5. left \in Owners /\ \A q \in Paths : left[q] \in {NoSearch, registered[q]} \ {s}
    <3>1. \A q \in Paths : registered[q] = s => q = search[s].path
      BY <1>3, SearchesFinite
    <3> QED
      BY <1>1, <2>4, <3>1, SearchesFinite DEF Owners
  <2>6. ~search[s].aborted => search[s].done /\ search[s].completed = search[s].total
    <3> SUFFICES ASSUME ~search[s].aborted
                 PROVE  search[s].done /\ search[s].completed = search[s].total
      OBVIOUS
    <3>1. pool[s].queue = <<>>
      BY <1>1, <2>3 DEF OK, Held
    <3>2. pool[s].listing = 0 /\ pool[s].grepping = 0
      <4>1. pool[s].listing + pool[s].grepping + pool[s].waiting + pool[s].posting = 0
        BY <2>3 DEF Active
      <4>2. \A i, j, k, l \in Nat : i + j + k + l = 0 => i = 0 /\ j = 0
        OBVIOUS
      <4>3. /\ pool[s].listing \in Nat /\ pool[s].grepping \in Nat
            /\ pool[s].waiting \in Nat /\ pool[s].posting \in Nat
        BY <1>2, PoolCounts
      <4> QED
        BY <4>1, <4>2, <4>3
    <3>3. Work(pool[s]) = 0
      BY <3>1, <3>2 DEF Work
    <3>4. search[s].completed \in Nat /\ search[s].total \in Nat
      BY <1>2, SizesAssumption DEF SearchRecord
    <3> QED
      BY <1>2, <2>3, <3>3, <3>4 DEF Sound
  <2> HIDE DEF c, left
  <2>7. Sound(c, EmptyPool) /\ Held(c, EmptyPool)
    <3>1. c.completed + Work(EmptyPool) <= c.total
      <4>1. search[s].completed \in Nat /\ search[s].total \in Nat /\ Work(pool[s]) \in Nat
        BY <1>2, PoolCounts, SizesAssumption DEF SearchRecord
      <4>2. search[s].completed + Work(pool[s]) <= search[s].total
        BY <1>2 DEF Sound
      <4> QED
        BY <2>1, <4>1, <4>2, EmptyIsPool
    <3>2. EmptyPool.listing <= EmptyPool.pending
      BY EmptyIsPool
    <3> QED
      BY <2>1, <2>6, <3>1, <3>2, EmptyIsPool DEF Sound, Held
  <2>8. OK(srch, pools, left)
    BY <1>1, <2>1, <2>5, <2>7, EmptyIsPool, MovedOK
  <2>9. \A t \in Searches : Active(pools[t]) = Active(pool[t])
    BY <1>1, <2>3, EmptyIsPool DEF Pools
  <2> HIDE DEF srch, pools
  <2> QED
    BY <1>1, <2>2, <2>8, <2>9, ReprioritizeGrows
<1>7. CASE SearchOver(s)
  <2> DEFINE c == [search[s] EXCEPT !.phase = "over", !.listed = FALSE]
             srch == [search EXCEPT ![s] = c]
             pools == [pool EXCEPT ![s] = pool[s]]
             left == Unregistered({s})
  <2>1. /\ c \in SearchRecord /\ c.phase = "over" /\ c.aborted = search[s].aborted
        /\ c.done = search[s].done /\ c.completed = search[s].completed /\ c.total = search[s].total
    BY <1>2 DEF SearchRecord
  <2>2. Reprioritize(srch, pools, left, userOps) /\ search[s].phase = "closing"
    BY <1>1, <1>4, <1>7 DEF SearchOver
  <2>3. left \in Owners /\ \A q \in Paths : left[q] \in {NoSearch, registered[q]} \ {s}
    BY <1>1, SearchesFinite DEF Owners, Unregistered
  <2> HIDE DEF c, left
  <2>4. Sound(c, pool[s]) /\ Held(c, pool[s])
    BY <1>2, <2>1, <2>2 DEF Sound, Held
  <2>5. OK(srch, pools, left)
    BY <1>1, <1>2, <2>1, <2>3, <2>4, MovedOK
  <2>6. \A t \in Searches : Active(pools[t]) = Active(pool[t])
    BY <1>4
  <2> HIDE DEF srch, pools
  <2> QED
    BY <1>1, <2>2, <2>5, <2>6, ReprioritizeGrows
<1> QED
  BY <1>5, <1>6, <1>7

------------------------------------------------------------------------------
(* The steps of the workers *)

\* How much room there is for workers that join.
LEMMA RoomBounds ==
    ASSUME NEW pools \in Pools, NEW reg \in Owners, NEW s \in Searches
    PROVE  /\ Room(pools, reg, s) \in Nat
           /\ Room(pools, reg, s) > 0 =>
                 /\ Active(pools[s]) + Room(pools, reg, s) <= pools[s].desired
                 /\ s \in PoolsIn(reg) =>
                       TotalWorkers(pools, reg) + Room(pools, reg, s) <= MaxWorkers
<1> DEFINE a == Active(pools[s])
           d == pools[s].desired
           total == TotalWorkers(pools, reg)
<1>1. a \in Nat /\ d \in Nat /\ MaxWorkers \in Nat
  <2>1. pools[s] \in PoolRecord
    BY DEF Pools
  <2> QED
    BY <2>1, ActiveIsNat, SizesAssumption DEF PoolRecord
<1>2. total \in Nat
  <2>1. \A t \in Searches : Active(pools[t]) \in Nat
    BY ActiveIsNat DEF Pools
  <2>2. Active(pools[s]) = Active(pools[s]) + 0
    BY <2>1
  <2> QED
    BY <2>2, TotalGrows
<1>3. Room(pools, reg, s) = IF a >= d \/ total >= MaxWorkers THEN 0
                            ELSE IF s \in PoolsIn(reg) THEN Smaller(d - a, MaxWorkers - total)
                            ELSE d - a
  BY DEF Room
<1> HIDE DEF a, d, total
<1>4. /\ Room(pools, reg, s) \in Nat
      /\ Room(pools, reg, s) > 0 =>
            /\ a + Room(pools, reg, s) <= d
            /\ s \in PoolsIn(reg) => total + Room(pools, reg, s) <= MaxWorkers
  BY <1>1, <1>2, <1>3 DEF Smaller
<1> QED
  BY <1>4 DEF a, d, total

\* A pool that has anything is that of a running search.
LEMMA BusyIsSearching ==
    ASSUME Inv, NEW s \in Searches,
           \/ pool[s].listing > 0 \/ pool[s].grepping > 0
           \/ pool[s].waiting > 0 \/ pool[s].posting > 0
    PROVE  search[s].phase = "searching"
<1>1. Sound(search[s], pool[s])
  BY DEF Inv, OK
<1>2. pool[s] # EmptyPool
  BY DEF EmptyPool
<1> QED
  BY <1>1, <1>2 DEF Sound

\* A worker's step changes one search and its pool, which may grow within bounds.
LEMMA WorkerKeeps ==
    ASSUME Inv, NEW s \in Searches, NEW c \in SearchRecord, NEW p \in PoolRecord,
           c.phase = search[s].phase, c.path = search[s].path, Sound(c, p), Held(c, p),
           (s \in PoolsIn(registered) /\ Active(p) > Active(pool[s])) =>
               Active(p) <= p.desired
               /\ TotalWorkers([pool EXCEPT ![s] = p], registered) <= MaxWorkers,
           search' = [search EXCEPT ![s] = c], pool' = [pool EXCEPT ![s] = p],
           UNCHANGED <<registered, userOps, hung>>
    PROVE  Inv' /\ Growth
<1>1. OK(search', pool', registered')
  BY OneOK DEF Inv
<1>2. Inv'
  BY <1>1 DEF Inv
<1>3. pool'[s] = p /\ \A t \in Searches \ {s} : pool'[t] = pool[t]
  BY DEF Inv, OK, Pools
<1>4. PoolsIn(registered) \subseteq Searches /\ PoolsIn(registered') = PoolsIn(registered)
  BY PoolsInSearches DEF Inv, OK
<1>5. \A t \in Searches : ~(Active(pool[t]) > Active(pool[t]))
  BY ActiveIsNat DEF Inv, OK, Pools
<1>6. ASSUME NEW t \in PoolsIn(registered'), Active(pool'[t]) > Active(pool[t])
      PROVE  Active(pool'[t]) <= pool'[t].desired /\ TotalWorkers(pool', registered') <= MaxWorkers
  <2>1. t = s
    BY <1>3, <1>4, <1>5, <1>6
  <2> QED
    BY <1>3, <1>4, <1>6, <2>1
<1> QED
  BY <1>2, <1>6 DEF Growth

\* A worker completes an item and goes on.
LEMMA CountedKeeps ==
    ASSUME Inv, NEW s \in Searches, NEW c \in SearchRecord, NEW p \in PoolRecord,
           c.phase = "searching", search[s].phase = "searching", c.path = search[s].path,
           ~c.done, ~c.aborted => c.listed,
           c.completed + Work(p) + 1 <= c.total, p.listing <= p.pending,
           ~c.aborted => c.completed + Work(p) + 1 = c.total /\ p.pending = p.listing,
           NEW q, q = IF c.listed THEN Loop(p, c.aborted) ELSE p,
           (s \in PoolsIn(registered) /\ Active(q) > Active(pool[s])) =>
               Active(q) <= q.desired
               /\ TotalWorkers([pool EXCEPT ![s] = q], registered) <= MaxWorkers,
           CountedAndLoops(s, c, p)
    PROVE  Inv' /\ Growth
<1> DEFINE k == Counted(c, p)
<1>1. k \in SearchRecord /\ Sound(k, p) /\ k.phase = c.phase /\ k.aborted = c.aborted /\ k.path = c.path
  BY CountedSound
<1>2. search' = [search EXCEPT ![s] = k] /\ pool' = [pool EXCEPT ![s] = q]
      /\ UNCHANGED <<registered, userOps, hung>>
  BY DEF CountedAndLoops
<1> HIDE DEF k
<1>3. c.aborted \in BOOLEAN
  BY DEF SearchRecord
<1>4. Manned(p, q)
  BY <1>3, LoopManned, MannedAgain
<1>5. q \in PoolRecord /\ Sound(k, q)
  BY <1>1, <1>4, MannedSound DEF Manned
<1>6. Held(k, q)
  BY <1>1, <1>3, LoopManned DEF Held
<1> QED
  BY <1>1, <1>2, <1>5, <1>6, WorkerKeeps

\* searchFiles throws.
LEMMA GrepFailsKeeps ==
    ASSUME Inv, NEW s \in Searches, GrepFails(s)
    PROVE  Inv' /\ Growth
<1> DEFINE c == search[s]
           b == pool[s]
           p == [b EXCEPT !.grepping = b.grepping - 1]
           q == IF c.listed THEN Loop(p, c.aborted) ELSE p
<1>1. b.grepping > 0 /\ CountedAndLoops(s, c, p)
  BY DEF GrepFails
<1>2. c \in SearchRecord /\ b \in PoolRecord /\ Sound(c, b) /\ c.phase = "searching"
  BY <1>1, BusyIsSearching DEF Inv, OK, Pools
<1>3. /\ p \in PoolRecord /\ p.queue = b.queue /\ p.listing = b.listing /\ p.pending = b.pending
      /\ p.grepping = b.grepping - 1 /\ p.waiting = b.waiting /\ p.posting = b.posting
      /\ p.desired = b.desired
  BY <1>1, <1>2 DEF PoolRecord
<1> HIDE DEF c, b, p
<1>4. /\ Len(b.queue) \in Nat /\ b.listing \in Nat /\ b.grepping \in Nat /\ b.waiting \in Nat
      /\ b.posting \in Nat /\ b.pending \in Nat
  BY <1>2, PoolCounts
<1>5. Work(p) + 1 = Work(b) /\ Active(p) + 1 = Active(b)
  <2>1. Work(p) = Len(b.queue) + b.listing + (b.grepping - 1)
    BY <1>3 DEF Work
  <2>2. Active(p) = b.listing + (b.grepping - 1) + b.waiting + b.posting
    BY <1>3 DEF Active
  <2>3. /\ Work(b) = Len(b.queue) + b.listing + b.grepping
        /\ Active(b) = b.listing + b.grepping + b.waiting + b.posting
    BY DEF Work, Active
  <2>4. Work(p) + 1 = Work(b)
    BY <1>4, <2>1, <2>3
  <2>5. Active(p) + 1 = Active(b)
    <3>1. \A i, j, k, l \in Nat : (i + (j - 1) + k + l) + 1 = i + j + k + l
      OBVIOUS
    <3>2. /\ b.listing \in Nat /\ b.grepping \in Nat /\ b.waiting \in Nat /\ b.posting \in Nat
      BY <1>4
    <3>3. (b.listing + (b.grepping - 1) + b.waiting + b.posting) + 1
             = b.listing + b.grepping + b.waiting + b.posting
      BY <3>1, <3>2
    <3> QED
      BY <2>2, <2>3, <3>3
  <2> QED
    BY <2>4, <2>5
<1>6. c.completed \in Nat /\ c.total \in Nat /\ c.aborted \in BOOLEAN /\ Work(p) \in Nat
      /\ Active(p) \in Nat
  BY <1>2, <1>3, PoolCounts, SizesAssumption DEF SearchRecord
<1>7. ~c.done
  BY <1>1, <1>2, <1>4 DEF Sound
<1>8. c.completed + Work(p) + 1 <= c.total
  <2>1. c.completed + Work(b) <= c.total
    BY <1>2 DEF Sound
  <2> QED
    BY <1>5, <1>6, <2>1
<1>9. ~c.aborted => c.completed + Work(p) + 1 = c.total /\ p.pending = p.listing
  <2>1. ~c.aborted => c.completed + Work(b) = c.total /\ b.pending = b.listing
    BY <1>2 DEF Sound
  <2> QED
    BY <1>3, <1>5, <1>6, <2>1
<1>10. Active(q) \in Nat /\ Active(q) <= Active(b)
  <2>1. q = p \/ Active(q) <= Active(p) + 1
    BY <1>3, <1>6, LoopManned
  <2>2. q \in PoolRecord
    BY <1>3, <1>6, LoopManned DEF Manned
  <2> HIDE DEF q
  <2> QED
    BY <1>5, <1>6, <2>1, <2>2, ActiveIsNat
<1>11. Active(b) \in Nat
  BY <1>2, ActiveIsNat
<1>12. ~(Active(q) > Active(pool[s]))
  <2> HIDE DEF q
  <2> QED
    BY <1>10, <1>11 DEF b
<1>13. p.listing <= p.pending /\ (~c.aborted => c.listed)
  BY <1>2, <1>3 DEF Sound
<1>14. c = search[s]
  BY DEF c
<1> QED
  BY <1>1, <1>2, <1>3, <1>7, <1>8, <1>9, <1>12, <1>13, <1>14, CountedKeeps

\* listEntries fails.
LEMMA ListingFailsKeeps ==
    ASSUME Inv, NEW s \in Searches, ListingFails(s)
    PROVE  Inv' /\ Growth
<1> DEFINE c == search[s]
           b == pool[s]
           p == [b EXCEPT !.listing = b.listing - 1, !.pending = b.pending - 1,
                          !.grepping = b.grepping + 1]
<1>1. b.listing > 0 /\ UNCHANGED <<search, registered, userOps, hung>>
  BY DEF ListingFails
<1>2. /\ c \in SearchRecord /\ b \in PoolRecord /\ Sound(c, b) /\ c.phase = "searching"
      /\ search \in [Searches -> SearchRecord] /\ pool \in Pools
  BY <1>1, BusyIsSearching DEF Inv, OK, Pools
<1>3. pool' = [pool EXCEPT ![s] = p] /\ search' = [search EXCEPT ![s] = c]
  BY <1>1, <1>2 DEF ListingFails, Pools
<1>4. /\ Len(b.queue) \in Nat /\ b.listing \in Nat /\ b.grepping \in Nat /\ b.waiting \in Nat
      /\ b.posting \in Nat /\ b.pending \in Nat
  BY <1>2, PoolCounts
<1>5. b.listing <= b.pending
  BY <1>2 DEF Sound
<1>6. b.listing - 1 \in Nat /\ b.pending - 1 \in Nat /\ b.grepping + 1 \in Nat
  BY <1>1, <1>4, <1>5
<1>7. /\ p \in PoolRecord /\ p.queue = b.queue /\ p.listing = b.listing - 1
      /\ p.pending = b.pending - 1
      /\ p.grepping = b.grepping + 1 /\ p.waiting = b.waiting /\ p.posting = b.posting
  BY <1>2, <1>6 DEF PoolRecord
<1>8. c = search[s] /\ b = pool[s]
  OBVIOUS
<1> HIDE DEF c, b, p
<1>9. Work(p) = Work(b) /\ Active(p) = Active(b) /\ Active(p) \in Nat
  <2>1. /\ Work(p) = Len(b.queue) + (b.listing - 1) + (b.grepping + 1)
        /\ Active(p) = (b.listing - 1) + (b.grepping + 1) + b.waiting + b.posting
    BY <1>7 DEF Work, Active
  <2>2. /\ Work(b) = Len(b.queue) + b.listing + b.grepping
        /\ Active(b) = b.listing + b.grepping + b.waiting + b.posting
    BY DEF Work, Active
  <2>3. Active(p) \in Nat
    BY <1>7, ActiveIsNat
  <2>4. Work(p) = Work(b)
    <3>1. \A i, j, k \in Nat : i + (j - 1) + (k + 1) = i + j + k
      OBVIOUS
    <3>2. Len(b.queue) \in Nat /\ b.listing \in Nat /\ b.grepping \in Nat
      BY <1>4
    <3>3. Len(b.queue) + (b.listing - 1) + (b.grepping + 1)
             = Len(b.queue) + b.listing + b.grepping
      BY <3>1, <3>2
    <3> QED
      BY <2>1, <2>2, <3>3
  <2>5. Active(p) = Active(b)
    <3>1. \A i, j, k, l \in Nat : (i - 1) + (j + 1) + k + l = i + j + k + l
      OBVIOUS
    <3>2. /\ b.listing \in Nat /\ b.grepping \in Nat /\ b.waiting \in Nat /\ b.posting \in Nat
      BY <1>4
    <3>3. (b.listing - 1) + (b.grepping + 1) + b.waiting + b.posting
             = b.listing + b.grepping + b.waiting + b.posting
      BY <3>1, <3>2
    <3> QED
      BY <2>1, <2>2, <3>3
  <2> QED
    BY <2>3, <2>4, <2>5
<1>10. p.listing <= p.pending /\ (p.pending = p.listing) = (b.pending = b.listing)
  BY <1>4, <1>5, <1>7
<1>11. ~c.done
  BY <1>1, <1>2, <1>4 DEF Sound
<1>12. Sound(c, p)
  BY <1>2, <1>9, <1>10, <1>11 DEF Sound
<1>13. Active(p) # 0
  <2>1. Active(b) = b.listing + b.grepping + b.waiting + b.posting
    BY DEF Active
  <2> QED
    BY <1>1, <1>4, <1>9, <2>1
<1>14. Held(c, p)
  BY <1>13 DEF Held
<1>15. ~(Active(p) > Active(pool[s]))
  BY <1>8, <1>9
<1> QED
  BY <1>1, <1>2, <1>3, <1>7, <1>8, <1>12, <1>14, <1>15, WorkerKeeps

\* searchFiles returns.
LEMMA GrepReturnsKeeps ==
    ASSUME Inv, NEW s \in Searches, GrepReturns(s)
    PROVE  Inv' /\ Growth
<1> DEFINE c == search[s]
           b == pool[s]
           p == [b EXCEPT !.grepping = b.grepping - 1]
<1>1. b.grepping > 0 /\ UNCHANGED <<registered, userOps, hung>>
  BY DEF GrepReturns
<1>2. /\ c \in SearchRecord /\ b \in PoolRecord /\ Sound(c, b) /\ c.phase = "searching"
      /\ search \in [Searches -> SearchRecord] /\ pool \in Pools
  BY <1>1, BusyIsSearching DEF Inv, OK, Pools
<1>3. /\ p \in PoolRecord /\ p.queue = b.queue /\ p.listing = b.listing /\ p.pending = b.pending
      /\ p.grepping = b.grepping - 1 /\ p.waiting = b.waiting /\ p.posting = b.posting
  <2>1. b.grepping - 1 \in Nat
    BY <1>1, <1>2, PoolCounts
  <2> HIDE DEF b
  <2> QED
    BY <1>2, <2>1 DEF PoolRecord
<1>4. c = search[s] /\ b = pool[s]
  OBVIOUS
<1>5. \/ /\ c.aborted
         /\ pool' = [pool EXCEPT ![s] = p]
         /\ search' = search
      \/ /\ ~c.aborted
         /\ \E limit \in BOOLEAN :
               search' = [search EXCEPT ![s] = [Counted(c, p) EXCEPT !.aborted = limit]]
         /\ pool' = [pool EXCEPT ![s] = IF c.listed THEN [p EXCEPT !.posting = p.posting + 1] ELSE p]
  BY DEF GrepReturns
<1> HIDE DEF c, b, p
<1>6. /\ Len(b.queue) \in Nat /\ b.listing \in Nat /\ b.grepping \in Nat /\ b.waiting \in Nat
      /\ b.posting \in Nat /\ b.pending \in Nat
  BY <1>2, PoolCounts
<1>7. Work(p) + 1 = Work(b) /\ Active(p) + 1 = Active(b)
  <2>1. Work(p) = Len(b.queue) + b.listing + (b.grepping - 1)
    BY <1>3 DEF Work
  <2>2. Active(p) = b.listing + (b.grepping - 1) + b.waiting + b.posting
    BY <1>3 DEF Active
  <2>3. /\ Work(b) = Len(b.queue) + b.listing + b.grepping
        /\ Active(b) = b.listing + b.grepping + b.waiting + b.posting
    BY DEF Work, Active
  <2>4. Work(p) + 1 = Work(b)
    BY <1>6, <2>1, <2>3
  <2>5. Active(p) + 1 = Active(b)
    <3>1. \A i, j, k, l \in Nat : (i + (j - 1) + k + l) + 1 = i + j + k + l
      OBVIOUS
    <3>2. /\ b.listing \in Nat /\ b.grepping \in Nat /\ b.waiting \in Nat /\ b.posting \in Nat
      BY <1>6
    <3>3. (b.listing + (b.grepping - 1) + b.waiting + b.posting) + 1
             = b.listing + b.grepping + b.waiting + b.posting
      BY <3>1, <3>2
    <3> QED
      BY <2>2, <2>3, <3>3
  <2> QED
    BY <2>4, <2>5
<1>8. /\ c.completed \in Nat /\ c.total \in Nat /\ c.aborted \in BOOLEAN /\ Work(p) \in Nat
      /\ Active(p) \in Nat
  BY <1>2, <1>3, PoolCounts, SizesAssumption DEF SearchRecord
<1>9. ~c.done
  BY <1>1, <1>2, <1>6 DEF Sound
<1>10. c.completed + Work(p) + 1 <= c.total
  <2>1. c.completed + Work(b) <= c.total
    BY <1>2 DEF Sound
  <2> QED
    BY <1>7, <1>8, <2>1
<1>11. p.listing <= p.pending
  BY <1>2, <1>3 DEF Sound
<1>12. CASE c.aborted /\ pool' = [pool EXCEPT ![s] = p] /\ search' = search
  <2>1. search' = [search EXCEPT ![s] = c]
    BY <1>2, <1>4, <1>12
  <2>2. c.completed + Work(p) <= c.total
    BY <1>8, <1>10
  <2>3. Sound(c, p) /\ Held(c, p)
    BY <1>2, <1>9, <1>11, <1>12, <2>2 DEF Sound, Held
  <2>4. ~(Active(p) > Active(pool[s]))
    BY <1>4, <1>7, <1>8
  <2> QED
    BY <1>1, <1>2, <1>3, <1>4, <1>12, <2>1, <2>3, <2>4, WorkerKeeps
<1>13. ASSUME ~c.aborted, NEW limit \in BOOLEAN,
              search' = [search EXCEPT ![s] = [Counted(c, p) EXCEPT !.aborted = limit]],
              pool' = [pool EXCEPT ![s] = IF c.listed THEN [p EXCEPT !.posting = p.posting + 1]
                                                      ELSE p]
       PROVE  Inv' /\ Growth
  <2> DEFINE k == Counted(c, p)
             d == [k EXCEPT !.aborted = limit]
             q == [p EXCEPT !.posting = p.posting + 1]
  <2>1. c.listed /\ pool' = [pool EXCEPT ![s] = q] /\ search' = [search EXCEPT ![s] = d]
    BY <1>2, <1>13 DEF Sound
  <2>2. c.completed + Work(p) + 1 = c.total /\ p.pending = p.listing
    <3>1. c.completed + Work(b) = c.total /\ b.pending = b.listing
      BY <1>2, <1>13 DEF Sound
    <3> QED
      BY <1>3, <1>7, <1>8, <3>1
  <2>3. /\ k \in SearchRecord /\ Sound(k, p) /\ k.phase = c.phase /\ k.aborted = c.aborted
        /\ k.path = c.path
    BY <1>2, <1>3, <1>9, <1>10, <1>11, <2>1, <2>2, CountedSound
  <2> HIDE DEF k
  <2>4. /\ q \in PoolRecord /\ q.queue = p.queue /\ q.listing = p.listing /\ q.pending = p.pending
        /\ q.grepping = p.grepping /\ q.waiting = p.waiting /\ q.posting = p.posting + 1
    <3>1. p.posting + 1 \in Nat
      BY <1>3, <1>6
    <3> QED
      BY <1>3, <3>1 DEF PoolRecord
  <2>5. Later(k, d) /\ d \in SearchRecord /\ d.phase = c.phase /\ d.path = c.path
    BY <1>13, <2>3 DEF Later, SearchRecord
  <2> HIDE DEF d, q
  <2>6. Work(q) = Work(p) /\ Active(q) = Active(p) + 1
    <3>1. Work(q) = Work(p)
      BY <2>4 DEF Work
    <3>2. Active(q) = p.listing + p.grepping + p.waiting + (p.posting + 1)
      BY <2>4 DEF Active
    <3>3. Active(p) = p.listing + p.grepping + p.waiting + p.posting
      BY DEF Active
    <3>4. p.listing \in Nat /\ p.grepping \in Nat /\ p.waiting \in Nat /\ p.posting \in Nat
      BY <1>3, PoolCounts
    <3>5. \A i, j, l, m \in Nat : i + j + l + (m + 1) = (i + j + l + m) + 1
      OBVIOUS
    <3>6. p.listing + p.grepping + p.waiting + (p.posting + 1)
             = (p.listing + p.grepping + p.waiting + p.posting) + 1
      BY <3>4, <3>5
    <3> QED
      BY <3>1, <3>2, <3>3, <3>6
  <2>7. Active(p) <= Active(q) /\ q.pending + p.listing = p.pending + q.listing
        /\ p.listing <= q.listing
    BY <1>3, <1>8, <2>4, <2>6, PoolCounts
  <2>8. Manned(p, q)
    BY <2>4, <2>6, <2>7 DEF Manned
  <2>9. Sound(k, q)
    BY <1>2, <1>3, <2>3, <2>8, MannedSound
  <2>10. Held(k, q)
    BY <1>8, <2>6 DEF Held
  <2>11. Sound(d, q) /\ Held(d, q)
    BY <2>3, <2>4, <2>5, <2>9, <2>10, LaterSound
  <2>12. ~(Active(q) > Active(pool[s]))
    BY <1>4, <1>7, <1>8, <2>6
  <2> QED
    BY <1>1, <1>4, <2>1, <2>4, <2>5, <2>11, <2>12, WorkerKeeps
<1> QED
  BY <1>5, <1>12, <1>13

\* The results are posted, or the 50 ms pass: the worker goes on.
LEMMA PostedOrAwakeKeeps ==
    ASSUME Inv, NEW s \in Searches, Posted(s) \/ Wake(s)
    PROVE  Inv' /\ Growth
<1> DEFINE c == search[s]
           b == pool[s]
           posted == [b EXCEPT !.posting = b.posting - 1]
           awake == [b EXCEPT !.waiting = b.waiting - 1]
<1>1. UNCHANGED <<search, registered, userOps, hung>>
  BY DEF Posted, Wake
<1>2. /\ c \in SearchRecord /\ b \in PoolRecord /\ Sound(c, b) /\ c.phase = "searching"
      /\ search \in [Searches -> SearchRecord] /\ pool \in Pools
  BY BusyIsSearching DEF Inv, OK, Pools, Posted, Wake
<1>3. search' = [search EXCEPT ![s] = c]
  BY <1>1, <1>2
<1>4. /\ Len(b.queue) \in Nat /\ b.listing \in Nat /\ b.grepping \in Nat /\ b.waiting \in Nat
      /\ b.posting \in Nat /\ b.pending \in Nat
  BY <1>2, PoolCounts
<1>5. c = search[s] /\ b = pool[s] /\ c.aborted \in BOOLEAN
  BY <1>2 DEF SearchRecord
<1>6. ASSUME NEW p \in PoolRecord, NEW q, Active(p) + 1 = Active(b),
             p.queue = b.queue, p.listing = b.listing, p.grepping = b.grepping,
             p.pending = b.pending,
             Manned(p, q), Active(q) <= Active(p) + 1,
             (~c.aborted /\ Active(q) = 0) => q.queue = <<>>,
             pool' = [pool EXCEPT ![s] = q]
      PROVE  Inv' /\ Growth
  <2> HIDE DEF c, b
  <2>1. Work(p) = Work(b)
    BY <1>6 DEF Work
  <2>2. Sound(c, p)
    BY <1>2, <1>6, <2>1 DEF Sound
  <2>3. q \in PoolRecord /\ Sound(c, q) /\ Held(c, q)
    BY <1>2, <1>6, <2>2, MannedSound DEF Manned, Held
  <2>4. ~(Active(q) > Active(pool[s]))
    BY <1>2, <1>5, <1>6, <2>3, ActiveIsNat
  <2> QED
    BY <1>1, <1>2, <1>3, <1>5, <1>6, <2>3, <2>4, WorkerKeeps
<1>7. CASE Posted(s)
  <2>1. b.posting > 0 /\ pool' = [pool EXCEPT ![s] = Loop(posted, c.aborted)]
    BY <1>7 DEF Posted
  <2>2. b.posting - 1 \in Nat
    BY <1>4, <2>1
  <2>3. /\ posted \in PoolRecord /\ posted.queue = b.queue /\ posted.listing = b.listing
        /\ posted.grepping = b.grepping /\ posted.pending = b.pending
        /\ posted.waiting = b.waiting /\ posted.posting = b.posting - 1
    BY <1>2, <2>2 DEF PoolRecord
  <2> HIDE DEF b, c, posted
  <2>4. Active(posted) + 1 = Active(b)
    <3>1. Active(posted) = b.listing + b.grepping + b.waiting + (b.posting - 1)
      BY <2>3 DEF Active
    <3>2. Active(b) = b.listing + b.grepping + b.waiting + b.posting
      BY DEF Active
    <3>3. /\ b.listing \in Nat /\ b.grepping \in Nat /\ b.waiting \in Nat /\ b.posting \in Nat
      BY <1>4
    <3> QED
      BY <3>1, <3>2, <3>3
  <2>5. /\ Manned(posted, Loop(posted, c.aborted))
        /\ Active(Loop(posted, c.aborted)) <= Active(posted) + 1
        /\ (~c.aborted /\ Active(Loop(posted, c.aborted)) = 0) => Loop(posted, c.aborted).queue = <<>>
    BY <1>5, <2>3, LoopManned
  <2> QED
    BY <1>6, <2>1, <2>3, <2>4, <2>5
<1>8. CASE Wake(s)
  <2>1. b.waiting > 0 /\ pool' = [pool EXCEPT ![s] = TakeNext(awake)]
    BY <1>8 DEF Wake
  <2>2. b.waiting - 1 \in Nat
    BY <1>4, <2>1
  <2>3. /\ awake \in PoolRecord /\ awake.queue = b.queue /\ awake.listing = b.listing
        /\ awake.grepping = b.grepping /\ awake.pending = b.pending
        /\ awake.waiting = b.waiting - 1 /\ awake.posting = b.posting
    BY <1>2, <2>2 DEF PoolRecord
  <2> HIDE DEF b, c, awake
  <2>4. Active(awake) + 1 = Active(b)
    <3>1. Active(awake) = b.listing + b.grepping + (b.waiting - 1) + b.posting
      BY <2>3 DEF Active
    <3>2. Active(b) = b.listing + b.grepping + b.waiting + b.posting
      BY DEF Active
    <3>3. /\ b.listing \in Nat /\ b.grepping \in Nat /\ b.waiting \in Nat /\ b.posting \in Nat
      BY <1>4
    <3> QED
      BY <3>1, <3>2, <3>3
  <2>5. /\ Manned(awake, TakeNext(awake))
        /\ Active(TakeNext(awake)) <= Active(awake) + 1
        /\ Active(TakeNext(awake)) = 0 => TakeNext(awake).queue = <<>>
    BY <2>3, TakeNextManned
  <2> QED
    BY <1>6, <2>1, <2>3, <2>4, <2>5
<1> QED
  BY <1>7, <1>8

\* listEntries returns: what was found is queued, and workers join.
LEMMA ListingReturnsKeeps ==
    ASSUME Inv, NEW s \in Searches, ListingReturns(s)
    PROVE  Inv' /\ Growth
<1> DEFINE c0 == search[s]
           b == pool[s]
           gone == [b EXCEPT !.listing = b.listing - 1]
<1>1. b.listing > 0 /\ UNCHANGED <<registered, userOps, hung>>
  <2>1. CASE search[s].aborted
    BY <2>1 DEF ListingReturns
  <2>2. CASE ~search[s].aborted
    <3>1. \E c, p : CountedAndLoops(s, c, p)
      BY <2>2 DEF ListingReturns
    <3> QED
      BY <3>1 DEF CountedAndLoops, ListingReturns
  <2> QED
    BY <2>1, <2>2
<1>2. /\ c0 \in SearchRecord /\ b \in PoolRecord /\ Sound(c0, b) /\ c0.phase = "searching"
      /\ search \in [Searches -> SearchRecord] /\ pool \in Pools /\ registered \in Owners
  BY <1>1, BusyIsSearching DEF Inv, OK, Pools
<1>3. /\ Len(b.queue) \in Nat /\ b.listing \in Nat /\ b.grepping \in Nat /\ b.waiting \in Nat
      /\ b.posting \in Nat /\ b.pending \in Nat /\ Active(b) \in Nat /\ Work(b) \in Nat
  BY <1>2, PoolCounts
<1>4. b.listing <= b.pending /\ ~c0.done
  BY <1>1, <1>2, <1>3 DEF Sound
<1>5. /\ c0.completed \in Nat /\ c0.total \in Nat /\ c0.aborted \in BOOLEAN
      /\ c0.completed <= MaxItems /\ MaxItems \in Nat
  BY <1>2, SizesAssumption DEF SearchRecord
<1>6. CASE search[s].aborted
  <2>1. pool' = [pool EXCEPT ![s] = gone] /\ search' = [search EXCEPT ![s] = c0]
    BY <1>2, <1>6 DEF ListingReturns
  <2>2. b.listing - 1 \in Nat
    BY <1>1, <1>3
  <2>3. /\ gone \in PoolRecord /\ gone.queue = b.queue /\ gone.listing = b.listing - 1
        /\ gone.grepping = b.grepping /\ gone.waiting = b.waiting /\ gone.posting = b.posting
        /\ gone.pending = b.pending
    BY <1>2, <2>2 DEF PoolRecord
  <2>4. c0.aborted /\ c0 = search[s] /\ b = pool[s]
    BY <1>6
  <2> HIDE DEF c0, b, gone
  <2>5. Work(gone) <= Work(b)
    <3>1. Work(gone) = Len(b.queue) + (b.listing - 1) + b.grepping
      BY <2>3 DEF Work
    <3>2. Work(b) = Len(b.queue) + b.listing + b.grepping
      BY DEF Work
    <3>3. \A i, j, k \in Nat : i + (j - 1) + k <= i + j + k
      OBVIOUS
    <3>4. Len(b.queue) \in Nat /\ b.listing \in Nat /\ b.grepping \in Nat
      BY <1>3
    <3>5. Len(b.queue) + (b.listing - 1) + b.grepping <= Len(b.queue) + b.listing + b.grepping
      BY <3>3, <3>4
    <3> QED
      BY <3>1, <3>2, <3>5
  <2>6. Active(gone) <= Active(b)
    <3>1. Active(gone) = (b.listing - 1) + b.grepping + b.waiting + b.posting
      BY <2>3 DEF Active
    <3>2. Active(b) = b.listing + b.grepping + b.waiting + b.posting
      BY DEF Active
    <3>3. \A i, j, k, l \in Nat : (i - 1) + j + k + l <= i + j + k + l
      OBVIOUS
    <3>4. /\ b.listing \in Nat /\ b.grepping \in Nat /\ b.waiting \in Nat /\ b.posting \in Nat
      BY <1>3
    <3>5. (b.listing - 1) + b.grepping + b.waiting + b.posting
             <= b.listing + b.grepping + b.waiting + b.posting
      BY <3>3, <3>4
    <3> QED
      BY <3>1, <3>2, <3>5
  <2>7. c0.completed + Work(gone) <= c0.total
    <3>1. c0.completed + Work(b) <= c0.total
      BY <1>2 DEF Sound
    <3> QED
      BY <1>3, <1>5, <2>3, <2>5, <3>1, PoolCounts
  <2>8. gone.listing <= gone.pending
    BY <1>3, <1>4, <2>3
  <2>9. Sound(c0, gone) /\ Held(c0, gone)
    BY <1>2, <1>4, <2>4, <2>7, <2>8 DEF Sound, Held
  <2>10. ~(Active(gone) > Active(pool[s]))
    BY <1>3, <2>3, <2>4, <2>6, ActiveIsNat
  <2> QED
    BY <1>1, <1>2, <2>1, <2>3, <2>4, <2>9, <2>10, WorkerKeeps
<1>7. CASE ~search[s].aborted
  <2>1. PICK files \in 0 .. MaxItems, dirs \in 0 .. MaxItems :
          LET found == [i \in 1 .. files + dirs |-> IF i <= files THEN "files" ELSE "dir"]
              grown == [pool EXCEPT ![s].queue = @ \o found]
              n == Smaller(Room(grown, registered, s), Len(grown[s].queue))
          IN  /\ search[s].total + files + dirs <= MaxItems
              /\ CountedAndLoops(s, [search[s] EXCEPT !.total = @ + files + dirs],
                     [Joined(grown[s], n) EXCEPT !.listing = @ - 1, !.pending = @ - 1])
    BY <1>7 DEF ListingReturns
  <2> DEFINE more == files + dirs
             found == [i \in 1 .. files + dirs |-> IF i <= files THEN "files" ELSE "dir"]
             grown == [pool EXCEPT ![s].queue = @ \o found]
             g == [b EXCEPT !.queue = b.queue \o found]
             n == Smaller(Room(grown, registered, s), Len(grown[s].queue))
             j == Joined(g, n)
             p == [j EXCEPT !.listing = j.listing - 1, !.pending = j.pending - 1]
             c == [c0 EXCEPT !.total = c0.total + files + dirs]
             q == IF c.listed THEN Loop(p, c.aborted) ELSE p
  <2>2. grown[s] = g /\ \A t \in Searches \ {s} : grown[t] = pool[t]
    BY <1>2 DEF Pools
  <2>3. c0.total + files + dirs <= MaxItems /\ CountedAndLoops(s, c, p)
    BY <2>1, <2>2
  <2>4. more \in Nat
    BY <1>5
  <2>5. found \in Seq({"dir", "files"}) /\ Len(found) = more
    <3>1. found \in [1 .. more -> {"dir", "files"}]
      OBVIOUS
    <3>2. DOMAIN found = 1 .. more
      OBVIOUS
    <3> HIDE DEF found, more
    <3> QED
      BY <2>4, <3>1, <3>2, LenProperties
  <2> HIDE DEF found
  <2>6. /\ b.queue \o found \in Seq({"dir", "files"})
        /\ Len(b.queue \o found) = Len(b.queue) + more
    <3>1. b.queue \in Seq({"dir", "files"})
      BY <1>2 DEF PoolRecord
    <3> HIDE DEF b, more
    <3> QED
      BY <2>5, <3>1, ConcatProperties
  <2>7. /\ g \in PoolRecord /\ g.queue = b.queue \o found /\ g.listing = b.listing
        /\ g.grepping = b.grepping /\ g.waiting = b.waiting /\ g.posting = b.posting
        /\ g.pending = b.pending /\ g.desired = b.desired
    BY <1>2, <2>6 DEF PoolRecord
  <2>8. grown \in Pools
    <3>1. grown = [pool EXCEPT ![s] = g]
      BY <1>2 DEF Pools
    <3> HIDE DEF g, grown
    <3> QED
      BY <1>2, <2>7, <3>1 DEF Pools
  <2>9. /\ c \in SearchRecord /\ c.phase = "searching" /\ c.path = c0.path /\ c.done = c0.done
        /\ c.aborted = c0.aborted /\ c.listed = c0.listed /\ c.completed = c0.completed
        /\ c.total = c0.total + more
    <3>1. c0.total + files + dirs \in 0 .. MaxItems /\ c0.total + files + dirs = c0.total + more
      BY <1>5, <2>3
    <3> QED
      BY <1>2, <3>1 DEF SearchRecord
  <2>10. ~c0.aborted /\ c0 = search[s] /\ b = pool[s]
    BY <1>7
  <2> HIDE DEF c0, b, c, g, grown, more
  <2>11. Work(g) = Work(b) + more /\ Active(g) = Active(b)
    <3>1. Work(g) = (Len(b.queue) + more) + b.listing + b.grepping
      BY <2>6, <2>7 DEF Work
    <3>2. Work(b) = Len(b.queue) + b.listing + b.grepping
      BY DEF Work
    <3>3. \A i, k, l, m \in Nat : (i + m) + k + l = (i + k + l) + m
      OBVIOUS
    <3>4. Work(g) = Work(b) + more
      <4>1. Len(b.queue) \in Nat /\ b.listing \in Nat /\ b.grepping \in Nat /\ more \in Nat
        BY <1>3, <2>4
      <4>2. (Len(b.queue) + more) + b.listing + b.grepping
               = (Len(b.queue) + b.listing + b.grepping) + more
        BY <3>3, <4>1
      <4> QED
        BY <3>1, <3>2, <4>2
    <3>5. Active(g) = Active(b)
      BY <2>7 DEF Active
    <3> QED
      BY <3>4, <3>5
  <2>12. /\ n \in Nat
         /\ n > 0 =>
               /\ Active(g) + n <= g.desired
               /\ s \in PoolsIn(registered) => TotalWorkers(grown, registered) + n <= MaxWorkers
    <3> DEFINE room == Room(grown, registered, s)
    <3>1. /\ room \in Nat
          /\ room > 0 =>
                /\ Active(g) + room <= g.desired
                /\ s \in PoolsIn(registered) => TotalWorkers(grown, registered) + room <= MaxWorkers
      BY <1>2, <2>2, <2>8, RoomBounds
    <3>2. Len(g.queue) \in Nat /\ n = Smaller(room, Len(g.queue))
      BY <2>2, <2>7, PoolCounts
    <3>3. Active(g) \in Nat /\ g.desired \in Nat /\ MaxWorkers \in Nat
      BY <2>7, ActiveIsNat, SizesAssumption DEF PoolRecord
    <3>4. TotalWorkers(grown, registered) \in Nat
      <4>1. \A t \in Searches : Active(grown[t]) \in Nat
        BY <2>8, ActiveIsNat DEF Pools
      <4>2. Active(grown[s]) = Active(grown[s]) + 0
        BY <4>1
      <4> QED
        BY <1>2, <2>8, <4>2, TotalGrows
    <3> HIDE DEF room, n
    <3>5. n \in Nat /\ n <= room
      BY <3>1, <3>2 DEF Smaller
    <3>6. n > 0 => Active(g) + n <= g.desired
      BY <3>1, <3>3, <3>5
    <3>7. n > 0 /\ s \in PoolsIn(registered) => TotalWorkers(grown, registered) + n <= MaxWorkers
      <4> SUFFICES ASSUME n > 0, s \in PoolsIn(registered)
                   PROVE  TotalWorkers(grown, registered) + n <= MaxWorkers
        OBVIOUS
      <4>1. TotalWorkers(grown, registered) + room <= MaxWorkers
        BY <3>1, <3>5
      <4> QED
        BY <3>1, <3>3, <3>4, <3>5, <4>1
    <3> QED
      BY <3>5, <3>6, <3>7
  <2> HIDE DEF n
  <2>13. /\ Manned(g, j) /\ Active(j) = Active(g) + n /\ j.desired = g.desired
         /\ j \in PoolRecord
    BY <2>7, <2>12, JoinedManned DEF Manned
  <2> HIDE DEF j
  <2>14. /\ Len(j.queue) \in Nat /\ j.listing \in Nat /\ j.grepping \in Nat /\ j.waiting \in Nat
         /\ j.posting \in Nat /\ j.pending \in Nat /\ Active(j) \in Nat /\ Work(j) \in Nat
    BY <2>13, PoolCounts
  <2>15. j.listing >= 1 /\ j.listing <= j.pending /\ (b.pending = b.listing => j.pending = j.listing)
    <3>1. b.listing <= j.listing /\ j.pending + b.listing = b.pending + j.listing
      BY <2>7, <2>13 DEF Manned
    <3>2. j.listing >= 1
      BY <1>1, <1>3, <2>14, <3>1, <2>10
    <3>3. j.listing <= j.pending
      <4>1. b.listing \in Nat /\ b.pending \in Nat /\ j.listing \in Nat /\ j.pending \in Nat
        BY <1>3, <2>14
      <4>2. j.pending + b.listing = b.pending + j.listing /\ b.listing <= b.pending
        BY <1>4, <3>1
      <4> QED
        BY <4>1, <4>2
    <3>4. b.pending = b.listing => j.pending = j.listing
      BY <1>3, <2>14, <3>1
    <3> QED
      BY <3>2, <3>3, <3>4
  <2>16. /\ p \in PoolRecord /\ p.queue = j.queue /\ p.listing = j.listing - 1
         /\ p.pending = j.pending - 1 /\ p.grepping = j.grepping /\ p.waiting = j.waiting
         /\ p.posting = j.posting /\ p.desired = j.desired
    <3>1. j.listing - 1 \in Nat /\ j.pending - 1 \in Nat
      BY <2>14, <2>15
    <3> QED
      BY <2>13, <3>1 DEF PoolRecord
  <2> HIDE DEF p
  <2>17. Work(p) + 1 = Work(b) + more
    <3>1. Work(p) = Len(j.queue) + (j.listing - 1) + j.grepping
      BY <2>16 DEF Work
    <3>2. Work(j) = Len(j.queue) + j.listing + j.grepping
      BY DEF Work
    <3>3. Work(j) = Work(b) + more
      BY <2>11, <2>13 DEF Manned
    <3>4. Work(p) + 1 = Work(j)
      <4>1. \A i, k, l \in Nat : (i + (k - 1) + l) + 1 = i + k + l
        OBVIOUS
      <4>2. Len(j.queue) \in Nat /\ j.listing \in Nat /\ j.grepping \in Nat
        BY <2>14
      <4>3. (Len(j.queue) + (j.listing - 1) + j.grepping) + 1 = Len(j.queue) + j.listing + j.grepping
        BY <4>1, <4>2
      <4> QED
        BY <3>1, <3>2, <4>3
    <3> QED
      BY <3>3, <3>4
  <2>18. Active(p) + 1 = Active(b) + n
    <3>1. Active(p) = (j.listing - 1) + j.grepping + j.waiting + j.posting
      BY <2>16 DEF Active
    <3>2. Active(j) = j.listing + j.grepping + j.waiting + j.posting
      BY DEF Active
    <3>3. \A i, k, l, m \in Nat : ((i - 1) + k + l + m) + 1 = i + k + l + m
      OBVIOUS
    <3>4. ((j.listing - 1) + j.grepping + j.waiting + j.posting) + 1
             = j.listing + j.grepping + j.waiting + j.posting
      <4>1. /\ j.listing \in Nat /\ j.grepping \in Nat /\ j.waiting \in Nat /\ j.posting \in Nat
        BY <2>14
      <4> QED
        BY <3>3, <4>1
    <3> QED
      BY <2>11, <2>13, <3>1, <3>2, <3>4
  <2>19. Work(p) \in Nat /\ Active(p) \in Nat
    BY <2>16, PoolCounts
  <2>20. c0.completed + Work(b) = c0.total /\ b.pending = b.listing /\ c0.listed
    BY <1>2, <2>10 DEF Sound
  <2>21. c.completed + Work(p) + 1 = c.total /\ p.pending = p.listing
    <3>1. c.completed + Work(p) + 1 = c.total
      <4>1. \A i, k, l, m, t \in Nat : k + 1 = l + m /\ i + l = t => i + k + 1 = t + m
        OBVIOUS
      <4>2. /\ c0.completed \in Nat /\ c0.total \in Nat /\ Work(p) \in Nat /\ Work(b) \in Nat
            /\ more \in Nat
        BY <1>3, <1>5, <2>4, <2>19
      <4>3. c0.completed + Work(p) + 1 = c0.total + more
        BY <2>17, <2>20, <4>1, <4>2
      <4> QED
        BY <2>9, <4>3
    <3>2. p.pending = p.listing
      BY <2>14, <2>15, <2>16, <2>20
    <3> QED
      BY <3>1, <3>2
  <2>22. p.listing <= p.pending /\ c.completed + Work(p) + 1 <= c.total
    <3>1. p.listing \in Nat /\ c.total \in Nat
      BY <1>5, <2>4, <2>9, <2>16, PoolCounts
    <3> QED
      BY <2>21, <3>1
  <2>23. /\ q = Loop(p, c.aborted) /\ c.aborted \in BOOLEAN
         /\ Active(q) <= Active(p) + 1 /\ q.desired = p.desired /\ q \in PoolRecord
    <3>1. c.aborted \in BOOLEAN /\ c.listed
      BY <1>5, <2>9, <2>20
    <3>2. q = Loop(p, c.aborted)
      BY <3>1
    <3> HIDE DEF q
    <3> QED
      BY <2>16, <3>1, <3>2, LoopManned DEF Manned
  <2>24. ASSUME s \in PoolsIn(registered), Active(q) > Active(pool[s])
         PROVE  /\ Active(q) <= q.desired
                /\ TotalWorkers([pool EXCEPT ![s] = q], registered) <= MaxWorkers
    <3> HIDE DEF q
    <3> DEFINE m == Active(q) - Active(b)
               new == [pool EXCEPT ![s] = q]
    <3>1. Active(q) \in Nat
      BY <2>23, ActiveIsNat
    <3>2. m \in Nat /\ m > 0 /\ m <= n /\ Active(q) = Active(b) + m
      <4>1. Active(b) \in Nat /\ Active(p) \in Nat /\ n \in Nat /\ Active(q) \in Nat
        BY <1>3, <2>12, <2>19, <3>1
      <4>2. Active(q) > Active(b) /\ Active(q) <= Active(p) + 1 /\ Active(p) + 1 = Active(b) + n
        BY <2>10, <2>18, <2>23, <2>24
      <4>3. Active(q) <= Active(b) + n
        BY <4>1, <4>2
      <4>4. \A i, k, l \in Nat : i > k /\ i <= k + l =>
               i - k \in Nat /\ i - k > 0 /\ i - k <= l /\ i = k + (i - k)
        OBVIOUS
      <4> QED
        BY <4>1, <4>2, <4>3, <4>4
    <3>3. n > 0
      BY <2>12, <3>2
    <3>4. Active(q) <= q.desired
      <4>1. q.desired = g.desired /\ q.desired \in Nat
        <5>1. q.desired \in 1 .. MaxProcesses
          BY <2>23 DEF PoolRecord
        <5>2. q.desired = g.desired
          BY <2>13, <2>16, <2>23
        <5> QED
          BY <5>1, <5>2, SizesAssumption
      <4>2. Active(b) + n <= g.desired
        BY <2>11, <2>12, <3>3
      <4> QED
        BY <1>3, <2>12, <3>2, <4>1, <4>2
    <3>5. new \in Pools /\ new[s] = q /\ \A t \in Searches \ {s} : new[t] = pool[t]
      BY <1>2, <2>23 DEF Pools
    <3> HIDE DEF m, new
    <3>6. /\ TotalWorkers(pool, registered) \in Nat
          /\ TotalWorkers(new, registered) = TotalWorkers(pool, registered) + m
      <4>1. Active(new[s]) = Active(pool[s]) + m
        BY <2>10, <3>2, <3>5
      <4>2. \A t \in Searches \ {s} : Active(new[t]) = Active(pool[t])
        BY <3>5
      <4> QED
        BY <1>2, <2>24, <3>2, <3>5, <4>1, <4>2, TotalGrows
    <3>7. TotalWorkers(grown, registered) = TotalWorkers(pool, registered)
      <4>1. Active(grown[s]) = Active(pool[s]) + 0
        BY <1>3, <2>2, <2>10, <2>11
      <4>2. \A t \in Searches \ {s} : Active(grown[t]) = Active(pool[t])
        BY <2>2
      <4>3. TotalWorkers(grown, registered) = TotalWorkers(pool, registered) + 0
        BY <1>2, <2>8, <2>24, <4>1, <4>2, TotalGrows
      <4> QED
        BY <3>6, <4>3
    <3>8. TotalWorkers(grown, registered) + n <= MaxWorkers
      BY <2>12, <2>24, <3>3
    <3>9. TotalWorkers(new, registered) <= MaxWorkers
      <4>1. MaxWorkers \in Nat
        BY SizesAssumption
      <4> QED
        BY <2>12, <3>2, <3>6, <3>7, <3>8, <4>1
    <3> QED
      BY <3>4, <3>9 DEF new
  <2> HIDE DEF q
  <2>25. q = IF c.listed THEN Loop(p, c.aborted) ELSE p
    BY <2>9, <2>20, <2>23
  <2>26. /\ search[s].phase = "searching" /\ c.path = search[s].path /\ ~c.done
         /\ (~c.aborted => c.listed)
    BY <1>2, <1>4, <2>9, <2>10, <2>20
  <2> QED
    BY <2>3, <2>9, <2>16, <2>21, <2>22, <2>24, <2>25, <2>26, CountedKeeps
<1> QED
  BY <1>6, <1>7

------------------------------------------------------------------------------
(* Every step, and what follows *)

\* The inductive invariant holds at first.
LEMMA InitInv == Init => Inv
<1> SUFFICES ASSUME Init PROVE Inv
  OBVIOUS
<1>1. PICK p \in Paths :
        search = [s \in Searches |->
                    [phase |-> "none", path |-> p, listed |-> FALSE, kept |-> FALSE,
                     aborted |-> FALSE, completed |-> 0, total |-> 0, done |-> FALSE]]
  BY DEF Init
<1>2. /\ pool = [s \in Searches |-> EmptyPool] /\ registered = [q \in Paths |-> NoSearch]
      /\ userOps = FALSE /\ hung = FALSE
  BY DEF Init
<1>3. search \in [Searches -> SearchRecord]
  <2>1. 0 \in 0 .. MaxItems
    BY SizesAssumption
  <2> QED
    BY <1>1, <2>1 DEF SearchRecord
<1>4. pool \in Pools /\ registered \in Owners
  BY <1>2, EmptyIsPool DEF Pools, Owners
<1>5. ASSUME NEW s \in Searches PROVE Sound(search[s], pool[s]) /\ Held(search[s], pool[s])
  <2>1. /\ search[s].phase = "none" /\ ~search[s].done /\ search[s].completed = 0
        /\ search[s].total = 0 /\ pool[s] = EmptyPool
    BY <1>1, <1>2
  <2> QED
    BY <2>1, EmptyIsPool DEF Sound, Held
<1> QED
  BY <1>2, <1>3, <1>4, <1>5 DEF Inv, OK

\* Every step keeps it, and lets pools grow within bounds only.
LEMMA NextKeeps == Inv /\ [Next]_vars => Inv' /\ (Growth \/ UNCHANGED vars)
<1> SUFFICES ASSUME Inv, [Next]_vars PROVE Inv' /\ (Growth \/ UNCHANGED vars)
  OBVIOUS
<1>1. CASE UNCHANGED vars
  BY <1>1 DEF vars, Inv
<1>2. CASE Next
  <2>1. ASSUME NEW s \in Searches, UserStep(s) PROVE Inv' /\ Growth
    BY <2>1, SearchKeeps, CancelsKeep, KeptOrAborted DEF UserStep
  <2>2. ASSUME NEW s \in Searches, BeginPool(s) PROVE Inv' /\ Growth
    BY <2>2, BeginKeeps
  <2>3. ASSUME NEW s \in Searches, AbortedConnecting(s) \/ PoolEnds(s) \/ SearchOver(s)
        PROVE  Inv' /\ Growth
    BY <2>3, PhasesKeep
  <2>4. ASSUME NEW s \in Searches, Answer(s) PROVE Inv' /\ Growth
    BY <2>4, ListingReturnsKeeps, ListingFailsKeeps, GrepReturnsKeeps, GrepFailsKeeps DEF Answer
  <2>5. ASSUME NEW s \in Searches, Posted(s) \/ Wake(s) PROVE Inv' /\ Growth
    BY <2>5, PostedOrAwakeKeeps
  <2>6. CASE CancelAll
    BY <2>6, CancelsKeep
  <2>7. CASE ToggleUserOps \/ \E n \in 1 .. MaxProcesses : SetMaxProcesses(n)
    BY <2>7, LimitsKeep
  <2>8. CASE LoopsForever
    BY <1>1, <2>8 DEF LoopsForever
  <2> QED
    BY <1>2, <2>1, <2>2, <2>3, <2>4, <2>5, <2>6, <2>7, <2>8 DEF Next
<1> QED
  BY <1>1, <1>2

\* The inductive invariant holds of every behaviour.
THEOREM Invariance == Spec => []Inv
<1>1. Init => Inv
  BY InitInv
<1>2. Inv /\ [Next]_vars => Inv'
  BY NextKeeps
<1> QED
  BY <1>1, <1>2, PTL DEF Spec

\* Searches, pools and keys keep their types: no counter of a pool falls below zero,
\* and no search completes more than it may.
THEOREM Types == Spec => []TypeOK
<1>1. Inv => TypeOK
  BY DEF Inv, OK, Pools, Owners, TypeOK
<1> QED
  BY <1>1, Invariance, PTL

\* The work of a search is counted right: every item it found is completed, queued or
\* held by one worker, the pending listings are those that run; "done" is said only
\* when nothing is left; and the workers of a search that nobody aborted leave only
\* when all it found is searched and that was said.
THEOREM WorkIsCounted == Spec => []WorkCounted
<1>1. Inv => WorkCounted
  <2> SUFFICES ASSUME Inv PROVE WorkCounted
    OBVIOUS
  <2>1. ASSUME NEW s \in Searches
        PROVE  /\ Sound(search[s], pool[s]) /\ search[s] \in SearchRecord
               /\ pool[s] \in PoolRecord
    BY DEF Inv, OK, Pools
  <2>2. Accounted
    <3> SUFFICES ASSUME NEW s \in Searches, search[s].phase = "searching", ~search[s].aborted
                 PROVE  /\ search[s].total - search[s].completed =
                              Len(pool[s].queue) + pool[s].listing + pool[s].grepping
                        /\ pool[s].pending = pool[s].listing
      BY DEF Accounted
    <3>1. search[s].completed + Work(pool[s]) = search[s].total /\ pool[s].pending = pool[s].listing
      BY <2>1 DEF Sound
    <3>2. search[s].completed \in Nat /\ search[s].total \in Nat /\ Work(pool[s]) \in Nat
      BY <2>1, PoolCounts, SizesAssumption DEF SearchRecord
    <3>3. search[s].total - search[s].completed = Work(pool[s])
      BY <3>1, <3>2
    <3> QED
      BY <3>1, <3>3 DEF Work
  <2>3. DoneMeansAll
    BY <2>1 DEF DoneMeansAll, Sound
  <2>4. NothingMissed
    BY <2>1 DEF NothingMissed, Sound
  <2> QED
    BY <2>2, <2>3, <2>4 DEF WorkCounted
<1> QED
  BY <1>1, Invariance, PTL

\* Workers that join running pools stay within the pool's target and the global cap,
\* whichever handlers man whichever pools, in whatever order updatePriority visits them.
THEOREM GrowthIsCapped == Spec => GrowthCapped
<1>1. Inv /\ [Next]_vars => [Growth]_vars
  BY NextKeeps
<1> QED
  BY <1>1, Invariance, PTL DEF Spec, GrowthCapped, Growth
===============================================================================
