----------------------------- MODULE QueuesProofs -----------------------------
(***************************************************************************)
(* Proofs about MCQueues, for every value of the constants: the slots and  *)
(* the queue of a ChannelSemaphore, the semaphores and calls of the        *)
(* CommandGuard, and the queues and slots of the PriorityQueueService.     *)
(***************************************************************************)
EXTENDS MCQueues, FoldProofs, FiniteSets, Sequences, FiniteSetTheorems, SequenceTheorems,
        TLAPS

------------------------------------------------------------------------------
(* Queues without repetition *)

\* What a sequence holds; whether it holds nothing twice.
Elements(q) == {q[i] : i \in 1 .. Len(q)}
Distinct(q) == \A i, j \in 1 .. Len(q) : q[i] = q[j] => i = j

\* What splice(i, 1) leaves of a queue.
Spliced(q, i) == SubSeq(q, 1, i - 1) \o SubSeq(q, i + 1, Len(q))

\* A new element at the end.
LEMMA AppendDistinct ==
  ASSUME NEW S, NEW q \in Seq(S), NEW c \in S, Distinct(q), c \notin Elements(q)
  PROVE  /\ Append(q, c) \in Seq(S) /\ Append(q, c) # <<>>
         /\ Distinct(Append(q, c))
         /\ Elements(Append(q, c)) = Elements(q) \cup {c}
BY AppendProperties DEF Elements, Distinct

\* The first element leaves.
LEMMA TailDistinct ==
  ASSUME NEW S, NEW q \in Seq(S), q # <<>>, Distinct(q)
  PROVE  /\ q[1] \in S /\ q[1] \in Elements(q)
         /\ Tail(q) \in Seq(S)
         /\ Distinct(Tail(q))
         /\ Elements(Tail(q)) = Elements(q) \ {q[1]}
<1>1. Len(q) \in Nat \ {0} /\ Tail(q) \in Seq(S) /\ Len(Tail(q)) = Len(q) - 1
      /\ \A i \in 1 .. Len(Tail(q)) : Tail(q)[i] = q[i + 1]
  BY HeadTailProperties, EmptySeq
<1>2. q[1] \in S
  BY <1>1, ElementOfSeq
<1>3. Distinct(Tail(q))
  BY <1>1 DEF Distinct
<1>4. ASSUME NEW x \in Elements(q), x # q[1]  PROVE x \in Elements(Tail(q))
  <2>1. PICK i \in 1 .. Len(q) : q[i] = x
    BY DEF Elements
  <2>2. i - 1 \in 1 .. Len(Tail(q)) /\ Tail(q)[i - 1] = x
    BY <1>1, <1>4, <2>1
  <2>. QED
    BY <2>2 DEF Elements
<1>5. ASSUME NEW x \in Elements(Tail(q))  PROVE x \in Elements(q) /\ x # q[1]
  BY <1>1 DEF Elements, Distinct
<1>6. q[1] \in Elements(q)
  BY <1>1 DEF Elements
<1>. QED
  BY <1>1, <1>2, <1>3, <1>4, <1>5, <1>6

\* An element in the middle leaves.
LEMMA SplicedDistinct ==
  ASSUME NEW S, NEW q \in Seq(S), Distinct(q), NEW i \in 1 .. Len(q)
  PROVE  /\ Spliced(q, i) \in Seq(S)
         /\ Distinct(Spliced(q, i))
         /\ Elements(Spliced(q, i)) = Elements(q) \ {q[i]}
<1>. DEFINE front == SubSeq(q, 1, i - 1)
            back == SubSeq(q, i + 1, Len(q))
            n == Len(q)
            r == Spliced(q, i)
<1>1. n \in Nat /\ \A j \in 1 .. n : q[j] \in S
  BY LenProperties, ElementOfSeq
<1>2. front \in Seq(S) /\ Len(front) = i - 1 /\ \A j \in 1 .. i - 1 : front[j] = q[j]
  <2>1. \A j \in 1 .. i - 1 : q[j] \in S
    BY <1>1
  <2>. QED
    BY <1>1, <2>1, SubSeqProperties
<1>3. back \in Seq(S) /\ Len(back) = n - i /\ \A j \in 1 .. n - i : back[j] = q[i + j]
  <2>1. \A j \in i + 1 .. n : q[j] \in S
    BY <1>1
  <2>2. Len(back) = IF i + 1 <= n THEN n - (i + 1) + 1 ELSE 0
    BY <1>1, <2>1, SubSeqProperties
  <2>3. back \in Seq(S) /\ \A j \in 1 .. n - (i + 1) + 1 : back[j] = q[(i + 1) + j - 1]
    BY <1>1, <2>1, SubSeqProperties
  <2>. QED
    BY <1>1, <2>2, <2>3
<1>4. r = front \o back
  BY DEF Spliced
<1>. HIDE DEF front, back, r
<1>5. r \in Seq(S) /\ Len(r) = n - 1
      /\ \A j \in 1 .. n - 1 : r[j] = IF j < i THEN q[j] ELSE q[j + 1]
  <2>1. r \in Seq(S) /\ Len(r) = Len(front) + Len(back)
        /\ \A j \in 1 .. Len(front) + Len(back) :
              r[j] = IF j <= Len(front) THEN front[j] ELSE back[j - Len(front)]
    <3>1. front \in Seq(S) /\ back \in Seq(S)
      BY <1>2, <1>3
    <3>. QED
      BY <1>4, <3>1, ConcatProperties
  <2>2. Len(front) + Len(back) = n - 1 /\ Len(front) = i - 1
    BY <1>1, <1>2, <1>3
  <2>3. ASSUME NEW j \in 1 .. n - 1  PROVE r[j] = IF j < i THEN q[j] ELSE q[j + 1]
    <3>1. CASE j < i
      BY <1>1, <1>2, <2>1, <2>2, <3>1
    <3>2. CASE j >= i
      <4>1. r[j] = back[j - (i - 1)] /\ j - (i - 1) \in 1 .. n - i
        BY <1>1, <2>1, <2>2, <3>2
      <4>2. back[j - (i - 1)] = q[i + (j - (i - 1))] /\ i + (j - (i - 1)) = j + 1
        BY <1>1, <1>3, <4>1
      <4>. QED
        BY <1>1, <3>2, <4>1, <4>2
    <3>. QED
      BY <1>1, <3>1, <3>2
  <2>. QED
    BY <2>1, <2>2, <2>3
<1>6. Distinct(r)
  BY <1>1, <1>5 DEF Distinct
<1>7. ASSUME NEW x \in Elements(q), x # q[i]  PROVE x \in Elements(r)
  <2>1. PICK j \in 1 .. n : q[j] = x
    BY DEF Elements
  <2>2. CASE j < i
    BY <1>1, <1>5, <2>1, <2>2 DEF Elements
  <2>3. CASE j > i
    <3>1. j - 1 \in 1 .. Len(r) /\ r[j - 1] = x
      BY <1>1, <1>5, <2>1, <2>3
    <3>. QED
      BY <3>1 DEF Elements
  <2>. QED
    BY <1>1, <1>7, <2>1, <2>2, <2>3
<1>8. ASSUME NEW x \in Elements(r)  PROVE x \in Elements(q) /\ x # q[i]
  <2>1. PICK j \in 1 .. n - 1 : r[j] = x
    BY <1>5 DEF Elements
  <2>. QED
    <3>1. CASE j < i
      BY <1>1, <1>5, <2>1, <3>1 DEF Elements, Distinct
    <3>2. CASE j >= i
      <4>1. q[j + 1] = x /\ j + 1 \in 1 .. n /\ j + 1 # i
        BY <1>1, <1>5, <2>1, <3>2
      <4>. QED
        BY <4>1 DEF Elements, Distinct
    <3>. QED
      BY <1>1, <3>1, <3>2
<1>. QED
  BY <1>5, <1>6, <1>7, <1>8 DEF r

------------------------------------------------------------------------------
(* ChannelSemaphore *)

\* Each instance has FiniteSets of its own.
LEMMA SameFiniteSets ==
  /\ \A S : C!Cardinality(S) = Cardinality(S)
  /\ \A S : C!IsFiniteSet(S) = IsFiniteSet(S)
  /\ \A S : G!Cardinality(S) = Cardinality(S)
  /\ \A S : G!IsFiniteSet(S) = IsFiniteSet(S)
BY DEF Cardinality, C!Cardinality, G!Cardinality, IsFiniteSet, C!IsFiniteSet, G!IsFiniteSet

\* What ChannelSemaphore assumes of its constants.
LEMMA SemaphoreAssumptions ==
  /\ IsFiniteSet(Waiters)
  /\ SemaphoreMax \in Nat \ {0}
  /\ SemaphoreRecover \in Nat \ {0}
BY ConstantsAssumption, SameFiniteSets
DEF ConstantsAssumption, C!InitialMaxAssumption, C!RecoverAssumption, C!CallersAssumption

\* A waiter that is queued once leaves the queue by its timer.
LEMMA TimerSplices ==
  ASSUME NEW q \in Seq(Waiters), Distinct(q), NEW c \in Elements(q)
  PROVE  /\ C!Without(q, c) \in Seq(Waiters)
         /\ Distinct(C!Without(q, c))
         /\ Elements(C!Without(q, c)) = Elements(q) \ {c}
<1>1. PICK i \in 1 .. Len(q) : q[i] = c
  BY DEF Elements
<1>. DEFINE I == {j \in 1 .. Len(q) : q[j] = c}
<1>2. I = {i}
  BY <1>1 DEF Distinct
<1>3. C!Min(I) = i
  BY <1>2 DEF C!Min
<1>4. C!Without(q, c) = Spliced(q, i)
  BY <1>1, <1>2, <1>3
  DEF C!Without, C!RemoveFirst, C!RemoveAt, C!SelectInSeq, Spliced
<1>. QED
  BY <1>1, <1>4, SplicedDistinct

\* Inductive: the counter is the number of holders, the queue lists the waiters.
SemaphoreInv ==
    /\ C!TypeOK
    /\ C!NoSlotLeak
    /\ C!QueueIsWaiting
    /\ C!NoStrandedWaiter
    /\ C!WithinConfigured

\* A new semaphore counts nobody and queues nobody.
LEMMA SemaphoreInit == C!Init => SemaphoreInv
<1>. SUFFICES ASSUME C!Init PROVE SemaphoreInv
  OBVIOUS
<1>1. C!TypeOK
  BY SemaphoreAssumptions
  DEF C!Init, C!TypeOK, C!NewSemaphore, C!SemaphoreRecord, C!CallerStates
<1>2. C!Holders = {} /\ C!Waiting = {}
  BY DEF C!Init, C!Holders, C!Waiting
<1>. QED
  BY <1>1, <1>2, SemaphoreAssumptions, SameFiniteSets, FS_EmptySet
  DEF SemaphoreInv, C!Init, C!NewSemaphore, C!NoSlotLeak, C!QueueIsWaiting,
      C!NoStrandedWaiter, C!WithinConfigured

\* acquire, release, the timer and destroy keep the counts, the queue and the ceiling
\* in step.
LEMMA SemaphoreStep ==
  ASSUME SemaphoreInv, [C!Next]_cVars
  PROVE  SemaphoreInv'
<1>. USE SemaphoreAssumptions, SameFiniteSets
<1>a. Distinct(sem.queue) /\ Elements(sem.queue) = C!Waiting
  BY DEF SemaphoreInv, C!QueueIsWaiting, Distinct, Elements
<1>b. IsFiniteSet(C!Holders) /\ Cardinality(C!Holders) \in Nat
  BY FS_Subset, FS_CardinalityType DEF C!Holders
<1>q. ASSUME C!TypeOK', Distinct(sem'.queue), Elements(sem'.queue) = C!Waiting'
      PROVE  C!QueueIsWaiting'
  BY <1>q DEF C!QueueIsWaiting, Distinct, Elements
<1>. USE DEF SemaphoreInv, C!TypeOK, C!SemaphoreRecord, C!CallerStates
<1>1. ASSUME NEW c \in Waiters, NEW how \in {"waiting", "timed"}, C!Acquire(c, how)
      PROVE  SemaphoreInv'
  <2>1. CASE C!HasSlot(sem)
    <3>1. sem' = [sem EXCEPT !.active = @ + 1] /\ caller' = [caller EXCEPT ![c] = "holding"]
          /\ caller[c] = "idle"
      BY <1>1, <2>1 DEF C!Acquire, C!Granted
    <3>2. C!Holders' = C!Holders \cup {c} /\ c \notin C!Holders /\ C!Waiting' = C!Waiting
      BY <3>1 DEF C!Holders, C!Waiting
    <3>3. Cardinality(C!Holders') = Cardinality(C!Holders) + 1
      BY <1>b, <3>2, FS_AddElement
    <3>4. C!TypeOK'
      BY <3>1
    <3>5. C!NoSlotLeak'
      BY <3>1, <3>3 DEF C!NoSlotLeak
    <3>6. C!QueueIsWaiting'
      BY <1>a, <1>q, <3>1, <3>2, <3>4
    <3>. QED
      BY <2>1, <3>1, <3>4, <3>5, <3>6 DEF C!NoStrandedWaiter, C!WithinConfigured, C!HasSlot
  <2>2. CASE ~C!HasSlot(sem)
    <3>1. /\ sem' = [sem EXCEPT !.queue = Append(@, c)] /\ caller' = [caller EXCEPT ![c] = how]
          /\ caller[c] = "idle"
      BY <1>1, <2>2 DEF C!Acquire, C!Queued
    <3>2. C!Holders' = C!Holders /\ c \notin C!Waiting /\ C!Waiting' = C!Waiting \cup {c}
      BY <3>1 DEF C!Holders, C!Waiting
    <3>3. /\ sem'.queue \in Seq(Waiters) /\ Distinct(sem'.queue)
          /\ Elements(sem'.queue) = C!Waiting'
      BY <1>a, <3>1, <3>2, AppendDistinct
    <3>4. C!TypeOK'
      BY <3>1, <3>3
    <3>5. C!NoSlotLeak'
      BY <3>1, <3>2 DEF C!NoSlotLeak
    <3>. QED
      BY <1>q, <2>2, <3>1, <3>3, <3>4, <3>5
      DEF C!NoStrandedWaiter, C!WithinConfigured, C!HasSlot
  <2>. QED
    BY <2>1, <2>2
<1>2. ASSUME NEW c \in Waiters, C!Timeout(c)
      PROVE  SemaphoreInv'
  <2>1. /\ sem' = [sem EXCEPT !.queue = C!Without(@, c)] /\ caller' = [caller EXCEPT ![c] = "idle"]
        /\ caller[c] = "timed"
    BY <1>2 DEF C!Timeout, C!TimedOut
  <2>2. C!Holders' = C!Holders /\ c \in C!Waiting /\ C!Waiting' = C!Waiting \ {c}
    BY <2>1 DEF C!Holders, C!Waiting
  <2>3. /\ sem'.queue \in Seq(Waiters) /\ Distinct(sem'.queue)
        /\ Elements(sem'.queue) = C!Waiting'
    BY <1>a, <2>1, <2>2, TimerSplices
  <2>4. C!TypeOK'
    BY <2>1, <2>3
  <2>5. sem.queue # <<>>
    BY <1>a, <2>2, EmptySeq DEF Elements
  <2>. QED
    BY <1>q, <2>1, <2>2, <2>3, <2>4, <2>5
    DEF C!NoSlotLeak, C!NoStrandedWaiter, C!WithinConfigured
<1>3. ASSUME NEW c \in Waiters, C!Release(c)
      PROVE  SemaphoreInv'
  <2>1. c \in C!Holders
    BY <1>3 DEF C!Release, C!Holders
  <2>2. CASE sem.destroyed
    <3>1. sem' = sem /\ caller' = [caller EXCEPT ![c] = "idle"]
      BY <1>3, <2>2 DEF C!Release, C!Released, C!Woken
    <3>2. C!Waiting' = C!Waiting
      BY <2>1, <3>1 DEF C!Waiting, C!Holders
    <3>. QED
      BY <2>2, <3>1, <3>2
      DEF C!NoSlotLeak, C!QueueIsWaiting, C!NoStrandedWaiter, C!WithinConfigured
  <2>3. CASE ~sem.destroyed /\ sem.queue = <<>>
    <3>1. sem' = [sem EXCEPT !.active = @ - 1] /\ caller' = [caller EXCEPT ![c] = "idle"]
      BY <1>3, <2>3 DEF C!Release, C!Released, C!Woken
    <3>2. C!Waiting' = C!Waiting /\ C!Holders' = C!Holders \ {c}
      BY <2>1, <3>1 DEF C!Waiting, C!Holders
    <3>3. Cardinality(C!Holders') = Cardinality(C!Holders) - 1
      BY <1>b, <2>1, <3>2, FS_RemoveElement
    <3>4. Cardinality(C!Holders') \in Nat
      BY <1>b, <3>2, FS_RemoveElement, FS_CardinalityType
    <3>5. sem.active = Cardinality(C!Holders)
      BY <2>3 DEF C!NoSlotLeak
    <3>. QED
      BY <2>3, <3>1, <3>2, <3>3, <3>4, <3>5, <1>b
      DEF C!NoSlotLeak, C!QueueIsWaiting, C!NoStrandedWaiter, C!WithinConfigured
  <2>4. CASE ~sem.destroyed /\ sem.queue # <<>>
    <3>. DEFINE w == sem.queue[1]
    <3>1. /\ w \in Waiters /\ w \in C!Waiting
          /\ Tail(sem.queue) \in Seq(Waiters) /\ Distinct(Tail(sem.queue))
          /\ Elements(Tail(sem.queue)) = C!Waiting \ {w}
      BY <1>a, <2>4, TailDistinct
    <3>. HIDE DEF w
    <3>2. /\ sem' = [sem EXCEPT !.queue = Tail(@)]
          /\ caller' = [caller EXCEPT ![w] = "holding", ![c] = "idle"]
          /\ w # c
      <4>1. w # c
        BY <2>1, <3>1 DEF C!Waiting, C!Holders
      <4>2. caller' = [d \in Waiters |-> IF d \in {w} THEN "holding"
                                         ELSE IF d = c THEN "idle" ELSE caller[d]]
        BY <1>3, <2>4 DEF C!Release, C!Woken, w
      <4>3. caller' = [caller EXCEPT ![w] = "holding", ![c] = "idle"]
        BY <4>1, <4>2, <3>1
      <4>. QED
        BY <1>3, <2>4, <4>1, <4>3 DEF C!Release, C!Released
    <3>3. /\ C!Waiting' = C!Waiting \ {w} /\ C!Holders' = (C!Holders \ {c}) \cup {w}
          /\ w \notin C!Holders
      BY <2>1, <3>1, <3>2 DEF C!Waiting, C!Holders
    <3>4. Cardinality(C!Holders') = Cardinality(C!Holders)
      <4>1. /\ IsFiniteSet(C!Holders \ {c})
            /\ Cardinality(C!Holders \ {c}) = Cardinality(C!Holders) - 1
        BY <1>b, <2>1, FS_RemoveElement
      <4>2. Cardinality(C!Holders') = Cardinality(C!Holders \ {c}) + 1
        BY <3>3, <4>1, FS_AddElement
      <4>. QED
        BY <1>b, <4>1, <4>2
    <3>5. C!TypeOK'
      BY <3>1, <3>2
    <3>6. C!QueueIsWaiting'
      BY <1>q, <3>1, <3>2, <3>3, <3>5
    <3>. QED
      BY <2>4, <3>2, <3>4, <3>5, <3>6
      DEF C!NoSlotLeak, C!NoStrandedWaiter, C!WithinConfigured
  <2>. QED
    BY <2>2, <2>3, <2>4
<1>4. ASSUME C!RecordSuccess \/ C!ReduceMax
      PROVE  SemaphoreInv'
  <2>1. /\ caller' = caller
        /\ sem' = [sem EXCEPT !.max = sem'.max, !.successes = sem'.successes]
        /\ sem'.max \in 1 .. SemaphoreMax /\ sem'.successes \in 0 .. SemaphoreRecover - 1
    <3>1. CASE C!RecordSuccess
      <4>1. CASE sem.successes + 1 >= SemaphoreRecover
        BY <3>1, <4>1 DEF C!RecordSuccess, C!Succeeded, C!IncreasedMax
      <4>2. CASE ~(sem.successes + 1 >= SemaphoreRecover)
        <5>1. /\ caller' = caller
              /\ sem' = [sem EXCEPT !.successes = @ + 1]
          BY <3>1, <4>2 DEF C!RecordSuccess, C!Succeeded
        <5>2. sem'.max = sem.max /\ sem'.successes = sem.successes + 1
          BY <5>1
        <5>3. sem'.successes \in 0 .. SemaphoreRecover - 1
          BY <4>2, <5>2
        <5>. QED
          BY <5>1, <5>2, <5>3
      <4>. QED
        BY <4>1, <4>2
    <3>2. CASE C!ReduceMax
      <4>1. /\ caller' = caller
            /\ sem' = [sem EXCEPT !.max = IF @ > 1 THEN @ - 1 ELSE 1, !.successes = 0]
        BY <3>2 DEF C!ReduceMax, C!ReducedMax
      <4>2. /\ sem'.max = IF sem.max > 1 THEN sem.max - 1 ELSE 1
            /\ sem'.successes = 0
        BY <4>1
      <4>3. sem'.max \in 1 .. SemaphoreMax /\ sem'.successes \in 0 .. SemaphoreRecover - 1
        BY <4>2
      <4>. QED
        BY <4>1, <4>3
    <3>. QED
      BY <1>4, <3>1, <3>2
  <2>2. /\ sem'.active = sem.active /\ sem'.queue = sem.queue
        /\ sem'.destroyed = sem.destroyed /\ C!TypeOK'
    BY <2>1
  <2>. QED
    BY <2>1, <2>2
    DEF C!NoSlotLeak, C!QueueIsWaiting, C!NoStrandedWaiter, C!WithinConfigured,
        C!Holders, C!Waiting
<1>5. ASSUME C!Destroy
      PROVE  SemaphoreInv'
  <2>1. /\ sem' = [sem EXCEPT !.destroyed = TRUE, !.active = 0, !.queue = <<>>]
        /\ caller' = [c \in Waiters |-> IF c \in C!Waiting THEN "idle" ELSE caller[c]]
    BY <1>5 DEF C!Destroy, C!Destroyed
  <2>2. C!Waiting' = {}
    BY <2>1 DEF C!Waiting
  <2>3. C!TypeOK'
    BY <2>1, EmptySeq DEF C!Waiting
  <2>. QED
    BY <2>1, <2>2, <2>3
    DEF C!NoSlotLeak, C!QueueIsWaiting, C!NoStrandedWaiter, C!WithinConfigured
<1>6. CASE UNCHANGED cVars
  BY <1>6
  DEF cVars, C!NoSlotLeak, C!QueueIsWaiting, C!NoStrandedWaiter, C!WithinConfigured,
      C!Holders, C!Waiting
<1>. QED
  BY <1>1, <1>2, <1>3, <1>4, <1>5, <1>6 DEF C!Next

------------------------------------------------------------------------------
(* CommandGuard *)

\* The calls of CommandGuard, and what it assumes of its constants.
GuardCallers == Execs \cup Shells

LEMMA GuardAssumptions ==
  /\ IsFiniteSet(GuardCallers)
  /\ Execs \cap Shells = {}
  /\ None \notin Gens
  /\ GuardMax \in Nat \ {0}
  /\ GuardRecover \in Nat \ {0}
  /\ ExecMaxRetries \in Nat
BY ConstantsAssumption, SameFiniteSets
DEF ConstantsAssumption, G!InitialMaxAssumption, G!RecoverAssumption,
    G!CallersAssumption, G!GensAssumption, G!RetryAssumption, GuardCallers

\* The calls that wait on, and that hold a slot of, a semaphore.
WaitersOn(K, g) == {c \in GuardCallers : K[c].gen = g /\ K[c].pc = "waiting"}
HoldersOn(K, g) == {c \in GuardCallers : K[c].gen = g /\ K[c].pc \in G!Holding}

\* Semaphores S, calls K and the map's entry cur agree. Every call knows where it
\* stands;
CallsOK(K) ==
    /\ K \in [GuardCallers -> G!Call]
    /\ \A c \in GuardCallers :
          /\ K[c].pc = "idle" => K[c] = G!Idle
          /\ K[c].pc # "idle" => K[c].gen \in Gens
          /\ K[c].pc = "delay" => K[c].attempt < ExecMaxRetries

\* every queue lists those that wait on its semaphore;
QueueOK(q, K, g) ==
    /\ q \in Seq(GuardCallers) /\ Distinct(q) /\ Elements(q) = WaitersOn(K, g)

\* the semaphore in the map counts its holders; any other that a call refers to
\* was destroyed.
CountOK(s, K, cur, g) ==
    /\ g = cur => ~s.destroyed /\ s.active = Cardinality(HoldersOn(K, g))
    /\ g # cur => s.destroyed \/ \A c \in GuardCallers : K[c].gen # g

Agree(S, K, cur) ==
    /\ S \in [Gens -> G!SemaphoreRecord]
    /\ CallsOK(K)
    /\ cur \in Gens \cup {None}
    /\ \A g \in Gens : QueueOK(S[g].queue, K, g) /\ CountOK(S[g], K, cur, g)

\* The value of f at x becomes v.
Put(f, x, v) == [f EXCEPT ![x] = v]

\* Ceiling and successes of a semaphore change.
Tuned(s, max, successes) == [s EXCEPT !.max = max, !.successes = successes]

\* The calls once a release of s has woken its first waiter.
WokenBy(K, s) ==
    [d \in GuardCallers |->
        IF d \in G!Woken(s) THEN [K[d] EXCEPT !.pc = "running"] ELSE K[d]]

\* There are finitely many calls, so their holders can be counted.
LEMMA HoldersFinite ==
  ASSUME NEW K, NEW g
  PROVE  IsFiniteSet(HoldersOn(K, g)) /\ Cardinality(HoldersOn(K, g)) \in Nat
BY GuardAssumptions, FS_Subset, FS_CardinalityType DEF HoldersOn

\* A caller that is queued once leaves the queue by its timer.
LEMMA GuardTimerSplices ==
  ASSUME NEW q \in Seq(GuardCallers), Distinct(q), NEW c \in Elements(q)
  PROVE  /\ G!Without(q, c) \in Seq(GuardCallers)
         /\ Distinct(G!Without(q, c))
         /\ Elements(G!Without(q, c)) = Elements(q) \ {c}
<1>1. PICK i \in 1 .. Len(q) : q[i] = c
  BY DEF Elements
<1>. DEFINE I == {j \in 1 .. Len(q) : q[j] = c}
<1>2. I = {i}
  BY <1>1 DEF Distinct
<1>3. G!Min(I) = i
  BY <1>2 DEF G!Min
<1>4. G!Without(q, c) = Spliced(q, i)
  BY <1>1, <1>2, <1>3
  DEF G!Without, G!RemoveFirst, G!RemoveAt, G!SelectInSeq, Spliced
<1>. QED
  BY <1>1, <1>4, SplicedDistinct

\* What a semaphore's record is made of.
LEMMA RecordParts ==
  ASSUME NEW s
  PROVE  s \in G!SemaphoreRecord <=>
           /\ s = [max |-> s.max, active |-> s.active, successes |-> s.successes,
                   queue |-> s.queue, destroyed |-> s.destroyed]
           /\ s.max \in 1 .. GuardMax /\ s.active \in Nat
           /\ s.successes \in 0 .. GuardRecover - 1
           /\ s.queue \in Seq(GuardCallers) /\ s.destroyed \in BOOLEAN
BY DEF G!SemaphoreRecord, GuardCallers

\* A slot is granted: one more is counted, the queue is as it was.
LEMMA GrantedParts ==
  ASSUME NEW s \in G!SemaphoreRecord
  PROVE  /\ G!Granted(s) \in G!SemaphoreRecord
         /\ G!Granted(s).queue = s.queue
         /\ G!Granted(s).active = s.active + 1
         /\ G!Granted(s).destroyed = s.destroyed
<1>1. s.active \in Nat /\ s.active + 1 \in Nat
  BY RecordParts
<1>2. G!Granted(s) = [s EXCEPT !.active = s.active + 1]
  BY DEF G!Granted
<1>. QED
  BY <1>1, <1>2 DEF G!SemaphoreRecord

\* A call gives its slot back: the first waiter takes it over, if there is one.
LEMMA ReleaseAgrees ==
  ASSUME NEW S, NEW K, NEW cur, Agree(S, K, cur),
         NEW c \in GuardCallers, NEW g, K[c].gen = g, K[c].pc \in G!Holding,
         NEW s \in G!SemaphoreRecord,
         s.queue = S[g].queue, s.active = S[g].active, s.destroyed = S[g].destroyed,
         NEW next \in G!Call, next = G!Idle \/ next = [K[c] EXCEPT !.pc = "exited"],
         NEW T, T = Put(S, g, G!Released(s)),
         NEW L, L = Put(WokenBy(K, s), c, next)
  PROVE  Agree(T, L, cur)
<1>. USE GuardAssumptions DEF G!Holding, G!Call, G!PCs, G!Idle
<1>1. /\ g \in Gens /\ K \in [GuardCallers -> G!Call]
      /\ S \in [Gens -> G!SemaphoreRecord] /\ cur \in Gens \cup {None}
  BY DEF Agree, CallsOK
<1>2. /\ s.queue \in Seq(GuardCallers) /\ s.active \in Nat /\ s.destroyed \in BOOLEAN
      /\ QueueOK(s.queue, K, g) /\ CountOK(s, K, cur, g)
  BY <1>1, RecordParts DEF Agree, CountOK
<1>3. c \in HoldersOn(K, g) /\ c \notin WaitersOn(K, g)
  BY DEF HoldersOn, WaitersOn
<1>4. /\ next.gen \in {None, g} /\ next.pc \in {"idle", "exited"}
      /\ next.pc = "idle" => next = G!Idle
      /\ next.pc # "idle" => next.gen = g
  BY <1>1
<1>5. /\ T = [h \in Gens |-> IF h = g THEN G!Released(s) ELSE S[h]]
      /\ L = [d \in GuardCallers |->
                IF d = c THEN next
                ELSE IF d \in G!Woken(s) THEN [K[d] EXCEPT !.pc = "running"] ELSE K[d]]
  BY <1>1 DEF Put, WokenBy
<1>6. ASSUME \A d \in G!Woken(s) : d \in WaitersOn(K, g)
      PROVE  /\ CallsOK(L)
             /\ \A d \in GuardCallers \ {c} : L[d].gen = K[d].gen
             /\ L[c].gen \in {None, g}
             /\ \A h \in Gens : WaitersOn(L, h) = WaitersOn(K, h) \ G!Woken(s)
             /\ \A h \in Gens \ {g} : HoldersOn(L, h) = HoldersOn(K, h)
             /\ HoldersOn(L, g) = (HoldersOn(K, g) \ {c}) \cup G!Woken(s)
  <2>1. \A d \in G!Woken(s) : d \in GuardCallers /\ d # c /\ K[d].gen = g /\ K[d].pc = "waiting"
    BY <1>3, <1>6 DEF WaitersOn
  <2>2. ASSUME NEW d \in GuardCallers
        PROVE  /\ L[d] \in G!Call
               /\ L[d].pc = "idle" => L[d] = G!Idle
               /\ L[d].pc # "idle" => L[d].gen \in Gens
               /\ L[d].pc = "delay" => L[d].attempt < ExecMaxRetries
               /\ d # c => L[d].gen = K[d].gen
               /\ d = c => L[d].gen \in {None, g} /\ L[d].pc \in {"idle", "exited"}
               /\ d \in G!Woken(s) => L[d].pc = "running"
               /\ d # c /\ d \notin G!Woken(s) => L[d].pc = K[d].pc
    <3>1. CASE d = c
      BY <1>1, <1>4, <1>5, <2>1, <3>1
    <3>2. CASE d # c /\ d \in G!Woken(s)
      BY <1>1, <1>5, <2>1, <3>2
    <3>3. CASE d # c /\ d \notin G!Woken(s)
      BY <1>1, <1>5, <3>3 DEF Agree, CallsOK
    <3>. QED
      BY <3>1, <3>2, <3>3
  <2>. HIDE DEF G!Call, G!Idle
  <2>3. CallsOK(L)
    BY <1>5, <2>2 DEF CallsOK
  <2>4. ASSUME NEW h \in Gens  PROVE WaitersOn(L, h) = WaitersOn(K, h) \ G!Woken(s)
    BY <1>3, <2>1, <2>2 DEF WaitersOn
  <2>5. ASSUME NEW h \in Gens \ {g}  PROVE HoldersOn(L, h) = HoldersOn(K, h)
    BY <1>1, <1>3, <2>1, <2>2 DEF HoldersOn
  <2>6. HoldersOn(L, g) = (HoldersOn(K, g) \ {c}) \cup G!Woken(s)
    BY <1>1, <1>3, <2>1, <2>2 DEF HoldersOn
  <2>7. L[c].gen \in {None, g} /\ \A d \in GuardCallers \ {c} : L[d].gen = K[d].gen
    BY <2>2
  <2>. QED
    BY <2>3, <2>4, <2>5, <2>6, <2>7
<1>. HIDE DEF G!Call, G!Idle, G!PCs, G!Holding
<1>7. ASSUME G!Released(s) \in G!SemaphoreRecord, CallsOK(L),
             QueueOK(G!Released(s).queue, L, g), CountOK(G!Released(s), L, cur, g),
             \A h \in Gens \ {g} : /\ WaitersOn(L, h) = WaitersOn(K, h)
                                   /\ HoldersOn(L, h) = HoldersOn(K, h),
             \A d \in GuardCallers : L[d].gen = K[d].gen \/ L[d].gen \in {None, g}
      PROVE  Agree(T, L, cur)
  <2>1. ASSUME NEW h \in Gens
        PROVE  QueueOK(T[h].queue, L, h) /\ CountOK(T[h], L, cur, h)
    <3>1. CASE h = g
      BY <1>5, <1>7, <3>1
    <3>2. CASE h # g
      <4>1. T[h] = S[h] /\ QueueOK(S[h].queue, K, h) /\ CountOK(S[h], K, cur, h)
        BY <1>5, <3>2 DEF Agree
      <4>2. \A d \in GuardCallers : L[d].gen = h => K[d].gen = h
        BY <1>7, <3>2
      <4>. QED
        BY <1>7, <3>2, <4>1, <4>2 DEF QueueOK, CountOK
    <3>. QED
      BY <3>1, <3>2
  <2>. QED
    BY <1>1, <1>5, <1>7, <2>1 DEF Agree
<1>8. CASE s.destroyed
  <2>1. G!Released(s) = s /\ G!Woken(s) = {} /\ g # cur
    BY <1>1, <1>2, <1>8 DEF G!Released, G!Woken, CountOK
  <2>. QED
    BY <1>1, <1>2, <1>6, <1>7, <1>8, <2>1 DEF QueueOK, CountOK
<1>9. CASE ~s.destroyed /\ s.queue = <<>>
  <2>1. G!Released(s) = [s EXCEPT !.active = @ - 1] /\ G!Woken(s) = {}
    BY <1>9 DEF G!Released, G!Woken
  <2>2. g = cur /\ s.active = Cardinality(HoldersOn(K, g))
    BY <1>1, <1>2, <1>9 DEF CountOK
  <2>3. Cardinality(HoldersOn(L, g)) = s.active - 1
    BY <1>3, <1>6, <2>1, <2>2, HoldersFinite, FS_RemoveElement
  <2>4. s.active - 1 \in Nat
    BY <2>3, HoldersFinite
  <2>5. /\ G!Released(s) \in G!SemaphoreRecord /\ G!Released(s).queue = s.queue
        /\ G!Released(s).active = s.active - 1 /\ ~G!Released(s).destroyed
    BY <1>9, <2>1, <2>4 DEF G!SemaphoreRecord
  <2>. QED
    BY <1>1, <1>2, <1>6, <1>7, <2>1, <2>2, <2>3, <2>5 DEF QueueOK, CountOK
<1>10. CASE ~s.destroyed /\ s.queue # <<>>
  <2>. DEFINE w == s.queue[1]
  <2>1. /\ w \in GuardCallers /\ w \in WaitersOn(K, g)
        /\ Tail(s.queue) \in Seq(GuardCallers) /\ Distinct(Tail(s.queue))
        /\ Elements(Tail(s.queue)) = WaitersOn(K, g) \ {w}
    BY <1>2, <1>10, TailDistinct DEF QueueOK
  <2>2. G!Released(s) = [s EXCEPT !.queue = Tail(@)] /\ G!Woken(s) = {w}
    BY <1>10 DEF G!Released, G!Woken
  <2>. HIDE DEF w
  <2>3. g = cur /\ s.active = Cardinality(HoldersOn(K, g))
    BY <1>1, <1>2, <1>10 DEF CountOK
  <2>4. Cardinality(HoldersOn(L, g)) = s.active
    <3>1. /\ IsFiniteSet(HoldersOn(K, g) \ {c})
          /\ Cardinality(HoldersOn(K, g) \ {c}) = s.active - 1
      BY <1>3, <2>3, HoldersFinite, FS_RemoveElement
    <3>2. w \notin HoldersOn(K, g) \ {c}
      BY <2>1 DEF HoldersOn, WaitersOn, G!Holding
    <3>3. Cardinality(HoldersOn(L, g)) = Cardinality(HoldersOn(K, g) \ {c}) + 1
      <4>1. HoldersOn(L, g) = (HoldersOn(K, g) \ {c}) \cup {w}
        BY <1>6, <2>1, <2>2
      <4>2. Cardinality((HoldersOn(K, g) \ {c}) \cup {w})
              = Cardinality(HoldersOn(K, g) \ {c}) + 1
        BY <3>1, <3>2, FS_AddElement
      <4>. QED
        BY <4>1, <4>2
    <3>. QED
      BY <1>2, <3>1, <3>3
  <2>5. /\ G!Released(s) \in G!SemaphoreRecord /\ G!Released(s).queue = Tail(s.queue)
        /\ G!Released(s).active = s.active /\ ~G!Released(s).destroyed
    BY <1>10, <2>1, <2>2 DEF G!SemaphoreRecord, GuardCallers
  <2>6. /\ CallsOK(L) /\ WaitersOn(L, g) = WaitersOn(K, g) \ {w}
        /\ \A d \in GuardCallers : L[d].gen = K[d].gen \/ L[d].gen \in {None, g}
        /\ \A h \in Gens \ {g} : /\ WaitersOn(L, h) = WaitersOn(K, h) \ {w}
                                 /\ HoldersOn(L, h) = HoldersOn(K, h)
    BY <1>1, <1>6, <2>1, <2>2
  <2>7. \A h \in Gens \ {g} : WaitersOn(L, h) = WaitersOn(K, h)
    <3>1. \A h \in Gens \ {g} : w \notin WaitersOn(K, h)
      BY <2>1 DEF WaitersOn
    <3>2. ASSUME NEW h \in Gens \ {g}  PROVE WaitersOn(K, h) \ {w} = WaitersOn(K, h)
      BY <3>1
    <3>. QED
      BY <2>6, <3>2
  <2>. QED
    BY <1>1, <1>7, <2>1, <2>3, <2>4, <2>5, <2>6, <2>7 DEF QueueOK, CountOK
<1>. QED
  BY <1>2, <1>8, <1>9, <1>10

\* getSemaphore puts a new semaphore into an empty entry, in place of one nothing
\* refers to.
LEMMA NewAgrees ==
  ASSUME NEW S, NEW K, Agree(S, K, None), NEW g \in Gens,
         \A c \in GuardCallers : K[c].gen # g,
         NEW T, T = Put(S, g, G!NewSemaphore)
  PROVE  Agree(T, K, g)
<1>. USE DEF Put
<1>1. /\ G!NewSemaphore \in G!SemaphoreRecord /\ G!NewSemaphore.queue = <<>>
      /\ G!NewSemaphore.active = 0 /\ ~G!NewSemaphore.destroyed
  BY GuardAssumptions, EmptySeq DEF G!NewSemaphore, G!SemaphoreRecord
<1>2. WaitersOn(K, g) = {} /\ HoldersOn(K, g) = {}
  BY DEF WaitersOn, HoldersOn
<1>3. QueueOK(<<>>, K, g)
  BY <1>2, EmptySeq DEF QueueOK, Distinct, Elements
<1>4. CountOK(G!NewSemaphore, K, g, g)
  BY <1>1, <1>2, FS_EmptySet DEF CountOK
<1>5. ASSUME NEW h \in Gens, h # g  PROVE CountOK(T[h], K, g, h)
  BY <1>5, GuardAssumptions DEF Agree, CountOK
<1>. QED
  BY <1>1, <1>3, <1>4, <1>5 DEF Agree

\* A semaphore on which c acquires, and that call.
Acquired(s, c) == IF G!HasSlot(s) THEN G!Granted(s) ELSE G!Queued(s, c)
Acquirer(s, g, n) ==
    [pc |-> IF G!HasSlot(s) THEN "running" ELSE "waiting", gen |-> g, attempt |-> n]

\* An idle call acquires on the semaphore of the map or on one that was destroyed.
LEMMA AcquireAgrees ==
  ASSUME NEW S, NEW K, NEW cur, Agree(S, K, cur),
         NEW c \in GuardCallers, K[c] = G!Idle, NEW g \in Gens,
         g = cur \/ S[g].destroyed,
         NEW n \in 0 .. ExecMaxRetries,
         NEW T, T = Put(S, g, Acquired(S[g], c)),
         NEW L, L = Put(K, c, Acquirer(S[g], g, n))
  PROVE  Agree(T, L, cur)
<1>. USE GuardAssumptions DEF Put, Acquired, Acquirer
<1>1. /\ K \in [GuardCallers -> G!Call] /\ S \in [Gens -> G!SemaphoreRecord]
      /\ CallsOK(K) /\ S[g] \in G!SemaphoreRecord
      /\ QueueOK(S[g].queue, K, g) /\ CountOK(S[g], K, cur, g)
  BY DEF Agree, CallsOK
<1>2. K[c].gen = None /\ K[c].pc = "idle"
  BY DEF G!Idle
<1>3. ASSUME NEW t \in G!SemaphoreRecord, T = [S EXCEPT ![g] = t],
             NEW pc \in {"running", "waiting"},
             L = [K EXCEPT ![c] = [pc |-> pc, gen |-> g, attempt |-> n]],
             QueueOK(t.queue, L, g), CountOK(t, L, cur, g)
      PROVE  Agree(T, L, cur)
  <2>1. CallsOK(L)
    BY <1>1, <1>3 DEF CallsOK, G!Call, G!PCs
  <2>2. ASSUME NEW h \in Gens, h # g
        PROVE  /\ WaitersOn(L, h) = WaitersOn(K, h)
               /\ HoldersOn(L, h) = HoldersOn(K, h)
               /\ \A d \in GuardCallers : L[d].gen = h => K[d].gen = h
    BY <1>1, <1>2, <1>3, <2>2 DEF WaitersOn, HoldersOn
  <2>3. ASSUME NEW h \in Gens
        PROVE  QueueOK(T[h].queue, L, h) /\ CountOK(T[h], L, cur, h)
    <3>1. CASE h = g
      BY <1>1, <1>3, <3>1
    <3>2. CASE h # g
      <4>1. T[h] = S[h] /\ QueueOK(S[h].queue, K, h) /\ CountOK(S[h], K, cur, h)
        BY <1>1, <1>3, <3>2 DEF Agree
      <4>. QED
        BY <2>2, <3>2, <4>1 DEF QueueOK, CountOK
    <3>. QED
      BY <3>1, <3>2
  <2>. QED
    BY <1>1, <1>3, <2>1, <2>3 DEF Agree
<1>4. CASE G!HasSlot(S[g])
  <2>1. /\ T = [S EXCEPT ![g] = G!Granted(S[g])]
        /\ L = [K EXCEPT ![c] = [pc |-> "running", gen |-> g, attempt |-> n]]
    BY <1>4
  <2>2. /\ G!Granted(S[g]) \in G!SemaphoreRecord
        /\ G!Granted(S[g]).queue = S[g].queue
        /\ G!Granted(S[g]).active = S[g].active + 1
        /\ G!Granted(S[g]).destroyed = S[g].destroyed
    BY <1>1, GrantedParts
  <2>3. WaitersOn(L, g) = WaitersOn(K, g)
    BY <1>1, <1>2, <2>1 DEF WaitersOn
  <2>4. HoldersOn(L, g) = HoldersOn(K, g) \cup {c} /\ c \notin HoldersOn(K, g)
    BY <1>1, <1>2, <2>1 DEF HoldersOn, G!Holding
  <2>5. Cardinality(HoldersOn(K, g) \cup {c}) = Cardinality(HoldersOn(K, g)) + 1
    BY <2>4, HoldersFinite, FS_AddElement
  <2>6. QueueOK(G!Granted(S[g]).queue, L, g)
    BY <1>1, <2>2, <2>3 DEF QueueOK
  <2>7. CountOK(G!Granted(S[g]), L, cur, g)
    <3>1. CASE g = cur
      BY <1>1, <2>2, <2>4, <2>5, <3>1 DEF CountOK
    <3>2. CASE g # cur
      BY <2>2, <3>2 DEF CountOK
    <3>. QED
      BY <3>1, <3>2
  <2>. QED
    BY <1>3, <2>1, <2>2, <2>6, <2>7
<1>5. CASE ~G!HasSlot(S[g])
  <2>1. /\ T = [S EXCEPT ![g] = G!Queued(S[g], c)]
        /\ L = [K EXCEPT ![c] = [pc |-> "waiting", gen |-> g, attempt |-> n]]
    BY <1>5
  <2>2. S[g].queue \in Seq(GuardCallers) /\ c \notin WaitersOn(K, g)
    BY <1>1, <1>2 DEF QueueOK, WaitersOn
  <2>3. WaitersOn(L, g) = WaitersOn(K, g) \cup {c} /\ HoldersOn(L, g) = HoldersOn(K, g)
    BY <1>1, <1>2, <2>1 DEF WaitersOn, HoldersOn, G!Holding
  <2>4. QueueOK(Append(S[g].queue, c), L, g)
    <3>1. /\ Distinct(S[g].queue) /\ Elements(S[g].queue) = WaitersOn(K, g)
      BY <1>1 DEF QueueOK
    <3>2. /\ Append(S[g].queue, c) \in Seq(GuardCallers)
          /\ Distinct(Append(S[g].queue, c))
          /\ Elements(Append(S[g].queue, c)) = WaitersOn(K, g) \cup {c}
      BY <2>2, <3>1, AppendDistinct
    <3>. QED
      BY <2>3, <3>2 DEF QueueOK
  <2>5. /\ G!Queued(S[g], c) \in G!SemaphoreRecord
        /\ G!Queued(S[g], c).queue = Append(S[g].queue, c)
        /\ G!Queued(S[g], c).active = S[g].active
        /\ G!Queued(S[g], c).destroyed = S[g].destroyed
    BY <1>1, <2>4 DEF G!Queued, G!SemaphoreRecord, QueueOK, GuardCallers
  <2>6. CountOK(G!Queued(S[g], c), L, cur, g)
    BY <1>1, <2>3, <2>5 DEF CountOK
  <2>. QED
    BY <1>3, <2>1, <2>4, <2>5, <2>6
<1>. QED
  BY <1>4, <1>5

\* A waiting call gives up.
LEMMA TimeoutAgrees ==
  ASSUME NEW S, NEW K, NEW cur, Agree(S, K, cur),
         NEW c \in GuardCallers, NEW g, K[c].gen = g, K[c].pc = "waiting",
         NEW T, T = Put(S, g, G!TimedOut(S[g], c)),
         NEW L, L = Put(K, c, G!Idle)
  PROVE  Agree(T, L, cur)
<1>. USE GuardAssumptions DEF Put
<1>1. /\ K \in [GuardCallers -> G!Call] /\ S \in [Gens -> G!SemaphoreRecord]
      /\ g \in Gens /\ CallsOK(K) /\ S[g] \in G!SemaphoreRecord
      /\ QueueOK(S[g].queue, K, g) /\ CountOK(S[g], K, cur, g)
  BY DEF Agree, CallsOK
<1>2. G!Idle \in G!Call /\ G!Idle.pc = "idle" /\ G!Idle.gen = None
  BY DEF G!Idle, G!Call, G!PCs
<1>3. CallsOK(L)
  BY <1>1, <1>2 DEF CallsOK
<1>4. /\ \A d \in GuardCallers : L[d] = IF d = c THEN G!Idle ELSE K[d]
      /\ c \in WaitersOn(K, g)
  BY <1>1 DEF WaitersOn
<1>5. ASSUME NEW h \in Gens
      PROVE  /\ WaitersOn(L, h) = IF h = g THEN WaitersOn(K, h) \ {c} ELSE WaitersOn(K, h)
             /\ HoldersOn(L, h) = HoldersOn(K, h)
             /\ \A d \in GuardCallers : L[d].gen = h => K[d].gen = h
  BY <1>1, <1>2, <1>4 DEF WaitersOn, HoldersOn, G!Holding
<1>6. QueueOK(G!Without(S[g].queue, c), L, g)
  <2>1. /\ S[g].queue \in Seq(GuardCallers) /\ Distinct(S[g].queue)
        /\ Elements(S[g].queue) = WaitersOn(K, g)
    BY <1>1 DEF QueueOK
  <2>2. /\ G!Without(S[g].queue, c) \in Seq(GuardCallers)
        /\ Distinct(G!Without(S[g].queue, c))
        /\ Elements(G!Without(S[g].queue, c)) = WaitersOn(K, g) \ {c}
    BY <1>4, <2>1, GuardTimerSplices
  <2>. QED
    BY <1>1, <1>5, <2>2 DEF QueueOK
<1>7. /\ T[g] = [S[g] EXCEPT !.queue = G!Without(@, c)]
      /\ T[g] \in G!SemaphoreRecord /\ T[g].active = S[g].active
      /\ T[g].destroyed = S[g].destroyed /\ T[g].queue = G!Without(S[g].queue, c)
  BY <1>1, <1>6 DEF QueueOK, G!TimedOut, G!SemaphoreRecord, GuardCallers
<1>8. ASSUME NEW h \in Gens
      PROVE  QueueOK(T[h].queue, L, h) /\ CountOK(T[h], L, cur, h)
  <2>1. CASE h = g
    BY <1>1, <1>5, <1>6, <1>7, <2>1 DEF CountOK
  <2>2. CASE h # g
    <3>1. T[h] = S[h] /\ QueueOK(S[h].queue, K, h) /\ CountOK(S[h], K, cur, h)
      BY <1>1, <2>2 DEF Agree
    <3>. QED
      BY <1>5, <2>2, <3>1 DEF QueueOK, CountOK
  <2>. QED
    BY <2>1, <2>2
<1>9. T \in [Gens -> G!SemaphoreRecord]
  BY <1>1, <1>7
<1>. QED
  BY <1>3, <1>8, <1>9 DEF Agree

\* The calls once those that wait on g were rejected.
WaitersRejected(K, g) ==
    [c \in GuardCallers |-> IF c \in WaitersOn(K, g) THEN G!Idle ELSE K[c]]

\* removeSemaphore: the acquires that wait on it are rejected.
LEMMA RemoveAgrees ==
  ASSUME NEW S, NEW K, NEW cur \in Gens, Agree(S, K, cur),
         NEW T, T = Put(S, cur, G!Destroyed(S[cur])),
         NEW L, L = WaitersRejected(K, cur)
  PROVE  Agree(T, L, None)
<1>. USE GuardAssumptions DEF Put, WaitersRejected
<1>1. /\ K \in [GuardCallers -> G!Call] /\ S \in [Gens -> G!SemaphoreRecord]
      /\ CallsOK(K) /\ S[cur] \in G!SemaphoreRecord
  BY DEF Agree, CallsOK
<1>2. G!Idle \in G!Call /\ G!Idle.pc = "idle" /\ G!Idle.gen = None
  BY DEF G!Idle, G!Call, G!PCs
<1>3. CallsOK(L)
  BY <1>1, <1>2 DEF CallsOK
<1>4. ASSUME NEW h \in Gens
      PROVE  /\ WaitersOn(L, h) = IF h = cur THEN {} ELSE WaitersOn(K, h)
             /\ \A d \in GuardCallers : L[d].gen = h => K[d].gen = h
  BY <1>1, <1>2 DEF WaitersOn
<1>5. /\ T[cur] = [S[cur] EXCEPT !.destroyed = TRUE, !.active = 0, !.queue = <<>>]
      /\ T[cur] \in G!SemaphoreRecord /\ T[cur].queue = <<>> /\ T[cur].destroyed
  BY <1>1, EmptySeq DEF G!Destroyed, G!SemaphoreRecord
<1>6. ASSUME NEW h \in Gens
      PROVE  QueueOK(T[h].queue, L, h) /\ CountOK(T[h], L, None, h)
  <2>1. CASE h = cur
    <3>1. QueueOK(<<>>, L, cur)
      BY <1>4, EmptySeq DEF QueueOK, Distinct, Elements
    <3>. QED
      BY <1>5, <2>1, <3>1 DEF CountOK
  <2>2. CASE h # cur
    <3>1. T[h] = S[h] /\ QueueOK(S[h].queue, K, h) /\ CountOK(S[h], K, cur, h)
      BY <1>1, <2>2 DEF Agree
    <3>. QED
      BY <1>4, <2>2, <3>1 DEF QueueOK, CountOK
  <2>. QED
    BY <2>1, <2>2
<1>7. T \in [Gens -> G!SemaphoreRecord]
  BY <1>1, <1>5
<1>. QED
  BY <1>3, <1>6, <1>7 DEF Agree

\* Inductive: the semaphores and the calls agree, and an exec that is not over, and
\* no other, has a running activity.
GuardInv ==
    /\ Agree(sems, call, currentGen)
    /\ execActivity \in [Execs -> {"none", "running", "completed", "failed"}]
    /\ G!ActivityEnds

\* No call and no semaphore: they agree.
LEMMA GuardInit == G!Init => GuardInv
<1>. SUFFICES ASSUME G!Init PROVE GuardInv
  OBVIOUS
<1>. USE GuardAssumptions
<1>1. /\ G!NewSemaphore \in G!SemaphoreRecord /\ G!NewSemaphore.queue = <<>>
  BY EmptySeq DEF G!NewSemaphore, G!SemaphoreRecord
<1>2. G!Idle \in G!Call /\ G!Idle.pc = "idle" /\ G!Idle.gen = None
  BY DEF G!Idle, G!Call, G!PCs
<1>3. /\ sems = [g \in Gens |-> G!NewSemaphore] /\ currentGen = None
      /\ call = [c \in GuardCallers |-> G!Idle] /\ execActivity = [e \in Execs |-> "none"]
  BY DEF G!Init, GuardCallers
<1>4. CallsOK(call)
  BY <1>2, <1>3 DEF CallsOK
<1>5. ASSUME NEW g \in Gens
      PROVE  QueueOK(sems[g].queue, call, g) /\ CountOK(sems[g], call, currentGen, g)
  <2>1. WaitersOn(call, g) = {}
    BY <1>2, <1>3 DEF WaitersOn
  <2>. QED
    <3>1. QueueOK(<<>>, call, g)
      BY <2>1, EmptySeq DEF QueueOK, Distinct, Elements
    <3>2. CountOK(sems[g], call, currentGen, g)
      BY <1>2, <1>3 DEF CountOK
    <3>. QED
      BY <1>1, <1>3, <3>1, <3>2
<1>6. G!ActivityEnds
  BY <1>2, <1>3 DEF G!ActivityEnds, GuardCallers
<1>. QED
  BY <1>1, <1>3, <1>4, <1>5, <1>6 DEF GuardInv, Agree

\* What GuardInv says of one call.
LEMMA CallFacts ==
  ASSUME GuardInv, NEW c \in GuardCallers
  PROVE  /\ call[c] \in G!Call
         /\ call \in [GuardCallers -> G!Call]
         /\ sems \in [Gens -> G!SemaphoreRecord]
         /\ call[c].pc = "idle" => call[c] = G!Idle
         /\ call[c].pc # "idle" => call[c].gen \in Gens /\ G!Sem(c) \in G!SemaphoreRecord
         /\ call[c].pc = "delay" => call[c].attempt < ExecMaxRetries
         /\ G!Idle \in G!Call /\ G!Idle.pc = "idle"
BY GuardAssumptions
DEF GuardInv, Agree, CallsOK, G!Sem, G!Idle, G!Call, G!PCs

\* An outcome changes the ceiling and the successes of a semaphore only.
LEMMA OutcomeKeeps ==
  ASSUME NEW s \in G!SemaphoreRecord
  PROVE  /\ G!Succeeded(s) \in G!SemaphoreRecord /\ G!ReducedMax(s) \in G!SemaphoreRecord
         /\ G!Succeeded(s).queue = s.queue /\ G!ReducedMax(s).queue = s.queue
         /\ G!Succeeded(s).active = s.active /\ G!ReducedMax(s).active = s.active
         /\ G!Succeeded(s).destroyed = s.destroyed /\ G!ReducedMax(s).destroyed = s.destroyed
<1>. USE GuardAssumptions
<1>1. /\ s.max \in 1 .. GuardMax /\ s.successes \in 0 .. GuardRecover - 1
  BY RecordParts
<1>2. ASSUME NEW m \in 1 .. GuardMax, NEW n \in 0 .. GuardRecover - 1,
             NEW t, t = Tuned(s, m, n)
      PROVE  /\ t \in G!SemaphoreRecord /\ t.queue = s.queue
             /\ t.active = s.active /\ t.destroyed = s.destroyed
  BY <1>2 DEF G!SemaphoreRecord, Tuned
<1>3. \E m \in 1 .. GuardMax, n \in 0 .. GuardRecover - 1 :
         G!ReducedMax(s) = Tuned(s, m, n)
  <2>. DEFINE m == IF s.max > 1 THEN s.max - 1 ELSE 1
  <2>1. m \in 1 .. GuardMax /\ 0 \in 0 .. GuardRecover - 1
    BY <1>1
  <2>2. G!ReducedMax(s) = Tuned(s, m, 0)
    BY DEF G!ReducedMax, Tuned
  <2>. QED
    BY <2>1, <2>2
<1>4. \E m \in 1 .. GuardMax, n \in 0 .. GuardRecover - 1 :
         G!Succeeded(s) = Tuned(s, m, n)
  <2>1. CASE s.successes + 1 >= GuardRecover
    <3>. DEFINE m == IF s.max < GuardMax THEN s.max + 1 ELSE GuardMax
    <3>1. m \in 1 .. GuardMax /\ 0 \in 0 .. GuardRecover - 1
      BY <1>1
    <3>2. G!Succeeded(s) = Tuned(s, m, 0)
      BY <2>1 DEF G!Succeeded, G!IncreasedMax, Tuned
    <3>. QED
      BY <3>1, <3>2
  <2>2. CASE ~(s.successes + 1 >= GuardRecover)
    <3>1. s.successes + 1 \in 0 .. GuardRecover - 1
      BY <1>1, <2>2
    <3>2. G!Succeeded(s) = Tuned(s, s.max, s.successes + 1)
      BY <2>2 DEF G!Succeeded, G!SemaphoreRecord, Tuned
    <3>. QED
      BY <1>1, <3>1, <3>2
  <2>. QED
    BY <2>1, <2>2
<1>5. PICK m \in 1 .. GuardMax, n \in 0 .. GuardRecover - 1 :
        G!ReducedMax(s) = Tuned(s, m, n)
  BY <1>3
<1>6. PICK m2 \in 1 .. GuardMax, n2 \in 0 .. GuardRecover - 1 :
        G!Succeeded(s) = Tuned(s, m2, n2)
  BY <1>4
<1>. QED
  BY <1>2, <1>5, <1>6

\* ReleaseOf, for a call that holds a slot.
LEMMA ReleaseStep ==
  ASSUME GuardInv, NEW c \in GuardCallers, call[c].pc \in G!Holding,
         NEW s \in G!SemaphoreRecord,
         s.queue = G!Sem(c).queue, s.active = G!Sem(c).active,
         s.destroyed = G!Sem(c).destroyed,
         NEW next \in G!Call, next = G!Idle \/ next = [call[c] EXCEPT !.pc = "exited"],
         G!ReleaseOf(c, s, next), currentGen' = currentGen
  PROVE  /\ Agree(sems', call', currentGen')
         /\ call'[c] = next
         /\ \A d \in GuardCallers \ {c} : call'[d].pc = "idle" <=> call[d].pc = "idle"
<1>1. /\ sems' = Put(sems, call[c].gen, G!Released(s))
      /\ call' = Put(WokenBy(call, s), c, next)
  BY DEF G!ReleaseOf, G!AfterRelease, GuardCallers, Put, WokenBy
<1>2. Agree(sems', call', currentGen')
  <2>. DEFINE g == call[c].gen
  <2>1. /\ Agree(sems, call, currentGen) /\ call[c].gen = g
        /\ s.queue = sems[g].queue /\ s.active = sems[g].active
        /\ s.destroyed = sems[g].destroyed
    BY DEF GuardInv, G!Sem
  <2>2. sems' = Put(sems, g, G!Released(s))
    BY <1>1
  <2>. HIDE DEF g
  <2>3. Agree(sems', call', currentGen)
    BY <1>1, <2>1, <2>2, ReleaseAgrees
  <2>. QED
    BY <2>3
<1>3. \A d \in G!Woken(s) : d \in WaitersOn(call, call[c].gen)
  <2>1. /\ call[c].gen \in Gens /\ QueueOK(s.queue, call, call[c].gen)
    BY CallFacts DEF GuardInv, Agree, G!Sem, G!Holding
  <2>. QED
    BY <2>1, TailDistinct DEF G!Woken, QueueOK
<1>4. \A d \in GuardCallers \ {c} : call'[d].pc = "idle" <=> call[d].pc = "idle"
  BY <1>1, <1>3, CallFacts DEF WaitersOn, G!Call, Put, WokenBy
<1>5. call'[c] = next
  BY <1>1 DEF Put, WokenBy
<1>. QED
  BY <1>2, <1>4, <1>5

\* A call begins: getSemaphore, then acquire.
LEMMA BeginStep ==
  ASSUME GuardInv, NEW c \in GuardCallers, call[c].pc = "idle",
         NEW g \in Gens, NEW s, G!GetSemaphore(g, s), currentGen' = g,
         G!AcquireOn(c, g, s, 0, call)
  PROVE  /\ Agree(sems', call', currentGen')
         /\ call'[c].pc # "idle"
         /\ \A d \in GuardCallers \ {c} : call'[d] = call[d]
<1>. USE GuardAssumptions
<1>1. /\ sems' = Put(sems, g, Acquired(s, c))
      /\ call' = Put(call, c, Acquirer(s, g, 0))
  BY DEF G!AcquireOn, Put, Acquired, Acquirer
<1>2. /\ call[c] = G!Idle /\ call \in [GuardCallers -> G!Call]
      /\ sems \in [Gens -> G!SemaphoreRecord]
  BY CallFacts
<1>3. call'[c].pc # "idle" /\ \A d \in GuardCallers \ {c} : call'[d] = call[d]
  BY <1>1, <1>2 DEF Put, Acquirer
<1>4. CASE currentGen # None /\ g = currentGen /\ s = sems[g]
  <2>1. Agree(sems, call, currentGen) /\ 0 \in 0 .. ExecMaxRetries
    BY DEF GuardInv
  <2>2. Agree(sems', call', currentGen)
    BY <1>1, <1>2, <1>4, <2>1, AcquireAgrees
  <2>. QED
    BY <1>3, <1>4, <2>2
<1>5. CASE currentGen = None /\ ~G!Referred(g) /\ s = G!NewSemaphore
  <2>. DEFINE S == Put(sems, g, G!NewSemaphore)
  <2>1. \A d \in GuardCallers : call[d].gen # g
    BY <1>5 DEF G!Referred, GuardCallers
  <2>2. Agree(S, call, g)
    BY <1>5, <2>1, NewAgrees DEF GuardInv
  <2>3. /\ S[g] = s
        /\ sems' = Put(S, g, Acquired(S[g], c))
        /\ call' = Put(call, c, Acquirer(S[g], g, 0))
        /\ 0 \in 0 .. ExecMaxRetries
    <3>1. S[g] = s
      BY <1>2, <1>5 DEF Put
    <3>2. \A v : Put(S, g, v) = Put(sems, g, v)
      BY <1>2 DEF Put
    <3>. QED
      BY <1>1, <3>1, <3>2
  <2>. HIDE DEF S
  <2>4. Agree(sems', call', g)
    BY <1>2, <2>2, <2>3, AcquireAgrees
  <2>. QED
    BY <1>3, <2>4
<1>. QED
  BY <1>4, <1>5 DEF G!GetSemaphore

\* Every step of an exec, retries and the reset of the connection between them
\* included.
LEMMA ExecStepKeeps ==
  ASSUME GuardInv, NEW e \in Execs, G!ExecBegin(e) \/ G!ExecStep(e)
  PROVE  GuardInv'
<1>. USE GuardAssumptions
<1>1. e \in GuardCallers
  BY DEF GuardCallers
<1>a. ASSUME Agree(sems', call', currentGen'),
             NEW status \in {"none", "running", "completed", "failed"},
             execActivity' = [execActivity EXCEPT ![e] = status],
             status = "running" <=> call'[e].pc # "idle",
             \A d \in GuardCallers \ {e} : call'[d].pc = "idle" <=> call[d].pc = "idle"
      PROVE  GuardInv'
  BY <1>a DEF GuardInv, G!ActivityEnds, GuardCallers
<1>2. CASE G!ExecBegin(e)
  <2>1. PICK g \in Gens, s \in {G!NewSemaphore} \cup {sems[h] : h \in Gens} :
           /\ G!GetSemaphore(g, s) /\ currentGen' = g /\ G!AcquireOn(e, g, s, 0, call)
    BY <1>2 DEF G!ExecBegin
  <2>2. call[e].pc = "idle" /\ execActivity' = [execActivity EXCEPT ![e] = "running"]
    BY <1>2 DEF G!ExecBegin
  <2>3. /\ Agree(sems', call', currentGen') /\ call'[e].pc # "idle"
        /\ \A d \in GuardCallers \ {e} : call'[d] = call[d]
    BY <1>1, <2>1, <2>2, BeginStep
  <2>. QED
    BY <1>a, <2>2, <2>3
<1>3. ASSUME NEW s \in G!SemaphoreRecord, call[e].pc = "running",
             s.queue = G!Sem(e).queue, s.active = G!Sem(e).active,
             s.destroyed = G!Sem(e).destroyed, G!ReleaseOf(e, s, G!Idle),
             NEW status \in {"completed", "failed"},
             execActivity' = [execActivity EXCEPT ![e] = status],
             currentGen' = currentGen
      PROVE  GuardInv'
  <2>1. /\ Agree(sems', call', currentGen') /\ call'[e] = G!Idle
        /\ \A d \in GuardCallers \ {e} : call'[d].pc = "idle" <=> call[d].pc = "idle"
    BY <1>1, <1>3, ReleaseStep, CallFacts DEF G!Holding
  <2>. QED
    BY <1>1, <1>3, <1>a, <2>1, CallFacts
<1>4. ASSUME call[e].pc = "running"  PROVE G!Sem(e) \in G!SemaphoreRecord
  BY <1>1, <1>4, CallFacts
<1>5. CASE G!ExecSucceeds(e)
  BY <1>3, <1>4, <1>5, OutcomeKeeps DEF G!ExecSucceeds
<1>6. CASE G!ExecFails(e)
  BY <1>3, <1>4, <1>6 DEF G!ExecFails
<1>7. CASE G!ExecOpenFailure(e)
  <2>1. CASE call[e].attempt = ExecMaxRetries /\ ~(call[e].attempt < ExecMaxRetries)
    BY <1>3, <1>4, <1>7, <2>1, OutcomeKeeps DEF G!ExecOpenFailure
  <2>2. CASE call[e].attempt < ExecMaxRetries
    <3>. DEFINE g == call[e].gen
    <3>1. /\ call[e].pc = "running" /\ call' = [call EXCEPT ![e].pc = "delay"]
          /\ sems' = [sems EXCEPT ![g] = G!ReducedMax(@)]
          /\ UNCHANGED <<currentGen, execActivity>>
      BY <1>7, <2>2 DEF G!ExecOpenFailure
    <3>2. g \in Gens /\ sems[g] \in G!SemaphoreRecord /\ call[e] \in G!Call
          /\ call \in [GuardCallers -> G!Call] /\ sems \in [Gens -> G!SemaphoreRecord]
      BY <1>1, <3>1, CallFacts
    <3>3. call'[e] \in G!Call /\ call'[e].pc = "delay" /\ call'[e].gen = g
          /\ call'[e].attempt < ExecMaxRetries
      BY <1>1, <2>2, <3>1, <3>2 DEF G!Call, G!PCs
    <3>4. CallsOK(call')
      BY <3>1, <3>2, <3>3 DEF GuardInv, Agree, CallsOK
    <3>5. ASSUME NEW h \in Gens
          PROVE  /\ WaitersOn(call', h) = WaitersOn(call, h)
                 /\ HoldersOn(call', h) = HoldersOn(call, h)
                 /\ \A d \in GuardCallers : call'[d].gen = call[d].gen
      BY <1>1, <3>1, <3>2, <3>3 DEF WaitersOn, HoldersOn, G!Holding
    <3>6. /\ sems' \in [Gens -> G!SemaphoreRecord]
          /\ \A h \in Gens : /\ sems'[h].queue = sems[h].queue
                             /\ sems'[h].active = sems[h].active
                             /\ sems'[h].destroyed = sems[h].destroyed
      BY <3>1, <3>2, OutcomeKeeps
    <3>7. Agree(sems', call', currentGen')
      <4>1. ASSUME NEW h \in Gens
            PROVE  QueueOK(sems'[h].queue, call', h) /\ CountOK(sems'[h], call', currentGen', h)
        <5>1. QueueOK(sems[h].queue, call, h) /\ CountOK(sems[h], call, currentGen, h)
          BY DEF GuardInv, Agree
        <5>. QED
          BY <3>1, <3>5, <3>6, <5>1 DEF QueueOK, CountOK
      <4>. QED
        BY <3>1, <3>4, <3>6, <4>1 DEF GuardInv, Agree
    <3>8. \A d \in GuardCallers : call'[d].pc = "idle" <=> call[d].pc = "idle"
      BY <3>1, <3>2, <3>3
    <3>. QED
      BY <3>1, <3>7, <3>8 DEF GuardInv, G!ActivityEnds, GuardCallers
  <2>. QED
    BY <1>1, <1>7, <2>1, <2>2 DEF G!ExecOpenFailure
<1>8. CASE G!ExecRetries(e)
  <2>. DEFINE g == call[e].gen
              s == G!Sem(e)
              K == Put(WokenBy(call, s), e, G!Idle)
              S == Put(sems, g, G!Released(s))
  <2>1. /\ call[e].pc = "delay" /\ UNCHANGED <<currentGen, execActivity>>
        /\ G!AcquireOn(e, g, G!Released(s), call[e].attempt + 1, G!AfterRelease(s))
    BY <1>8 DEF G!ExecRetries
  <2>2. /\ g \in Gens /\ s \in G!SemaphoreRecord /\ s = sems[g]
        /\ call[e].attempt + 1 \in 0 .. ExecMaxRetries /\ call[e].pc \in G!Holding
        /\ G!Idle \in G!Call /\ G!Idle.pc = "idle"
        /\ call \in [GuardCallers -> G!Call] /\ sems \in [Gens -> G!SemaphoreRecord]
    BY <1>1, <2>1, CallFacts DEF G!Call, G!Holding, G!Sem
  <2>3. Agree(S, K, currentGen)
    <3>1. Agree(sems, call, currentGen) /\ call[e].gen = g
      BY DEF GuardInv
    <3>. HIDE DEF g, s
    <3>2. Agree(Put(sems, g, G!Released(s)), Put(WokenBy(call, s), e, G!Idle), currentGen)
      BY <1>1, <2>2, <3>1, ReleaseAgrees
    <3>. QED
      BY <3>2
  <2>4. /\ K[e] = G!Idle /\ S[g] = G!Released(s)
        /\ g = currentGen \/ S[g].destroyed
    <3>1. K[e] = G!Idle /\ S[g] = G!Released(s)
      BY <1>1, <2>2 DEF Put, WokenBy
    <3>2. g = currentGen \/ s.destroyed
      BY <1>1, <2>2 DEF GuardInv, Agree, CountOK
    <3>3. s.destroyed => G!Released(s) = s
      BY DEF G!Released
    <3>. QED
      BY <3>1, <3>2, <3>3
  <2>5. sems' = Put(S, g, Acquired(S[g], e))
    BY <2>1, <2>2, <2>4 DEF G!AcquireOn, Put, Acquired
  <2>6. call' = Put(K, e, Acquirer(S[g], g, call[e].attempt + 1))
    BY <1>1, <2>1, <2>4
    DEF G!AcquireOn, G!AfterRelease, GuardCallers, Put, WokenBy, Acquirer
  <2>7. \A d \in GuardCallers \ {e} : call'[d].pc = "idle" <=> call[d].pc = "idle"
    <3>1. \A d \in G!Woken(s) : d \in WaitersOn(call, g)
      <4>1. QueueOK(s.queue, call, g)
        BY <2>2 DEF GuardInv, Agree
      <4>. QED
        BY <4>1, TailDistinct DEF G!Woken, QueueOK
    <3>. QED
      BY <2>2, <2>6, <3>1 DEF WaitersOn, G!Call, Put, WokenBy
  <2>8. call'[e].pc # "idle"
    BY <1>1, <2>6 DEF Put, WokenBy, Acquirer
  <2>. HIDE DEF K, S, s, g
  <2>9. Agree(sems', call', currentGen')
    BY <1>1, <2>1, <2>2, <2>3, <2>4, <2>5, <2>6, AcquireAgrees
  <2>. QED
    BY <1>1, <2>1, <2>7, <2>8, <2>9 DEF GuardInv, G!ActivityEnds, GuardCallers
<1>. QED
  BY <1>2, <1>5, <1>6, <1>7, <1>8 DEF G!ExecStep

\* Every step of a shell, which holds its slot until it closes.
LEMMA ShellStepKeeps ==
  ASSUME GuardInv, NEW c \in Shells,
         G!ShellBegin(c) \/ G!ShellStep(c) \/ G!ChannelExit(c) \/ G!ChannelClose(c)
  PROVE  GuardInv'
<1>. USE GuardAssumptions
<1>1. c \in GuardCallers /\ c \notin Execs
  BY DEF GuardCallers
<1>2. execActivity' = execActivity
  BY DEF G!ShellBegin, G!ShellStep, G!ShellTimeout, G!ShellOpens, G!ShellFails,
         G!ChannelExit, G!ChannelClose
<1>3. ASSUME Agree(sems', call', currentGen'),
             \A d \in GuardCallers \ {c} : call'[d].pc = "idle" <=> call[d].pc = "idle"
      PROVE  GuardInv'
  BY <1>1, <1>2, <1>3 DEF GuardInv, G!ActivityEnds, GuardCallers
<1>4. CASE G!ShellBegin(c)
  <2>1. PICK g \in Gens, s \in {G!NewSemaphore} \cup {sems[h] : h \in Gens} :
           /\ G!GetSemaphore(g, s) /\ currentGen' = g /\ G!AcquireOn(c, g, s, 0, call)
    BY <1>4 DEF G!ShellBegin
  <2>2. call[c].pc = "idle"
    BY <1>4 DEF G!ShellBegin
  <2>. QED
    BY <1>1, <1>3, <2>1, <2>2, BeginStep
<1>5. CASE G!ShellTimeout(c)
  <2>. DEFINE g == call[c].gen
  <2>1. /\ Agree(sems, call, currentGen) /\ call[c].pc = "waiting" /\ currentGen' = currentGen
        /\ sems' = [sems EXCEPT ![g] = G!TimedOut(sems[g], c)]
        /\ call' = Put(call, c, G!Idle)
    BY <1>5 DEF G!ShellTimeout, GuardInv, Put
  <2>2. sems' = Put(sems, g, G!TimedOut(sems[g], c)) /\ call[c].gen = g
    BY <2>1 DEF Put
  <2>. HIDE DEF g
  <2>3. Agree(sems', call', currentGen)
    BY <1>1, <2>1, <2>2, TimeoutAgrees
  <2>4. \A d \in GuardCallers \ {c} : call'[d].pc = "idle" <=> call[d].pc = "idle"
    BY <2>1, CallFacts DEF Put
  <2>. QED
    BY <1>3, <2>1, <2>3, <2>4
<1>6. ASSUME NEW next \in G!Call, next = G!Idle \/ next = [call[c] EXCEPT !.pc = "exited"],
             call[c].pc \in {"running", "open"}, currentGen' = currentGen,
             G!ReleaseOf(c, G!Sem(c), next)
      PROVE  GuardInv'
  <2>1. call[c].pc \in G!Holding /\ G!Sem(c) \in G!SemaphoreRecord
    BY <1>1, <1>6, CallFacts DEF G!Holding
  <2>. QED
    BY <1>1, <1>3, <1>6, <2>1, ReleaseStep
<1>7. CASE G!ShellFails(c)
  BY <1>1, <1>6, <1>7, CallFacts DEF G!ShellFails
<1>8. CASE G!ChannelExit(c)
  <2>1. call[c] \in G!Call /\ [call[c] EXCEPT !.pc = "exited"] \in G!Call
    BY <1>1, CallFacts DEF G!Call, G!PCs
  <2>. QED
    BY <1>6, <1>8, <2>1 DEF G!ChannelExit
\* The calls change in c only, which neither waits nor gains or loses a slot.
<1>9. ASSUME NEW v \in G!Call, call' = Put(call, c, v), UNCHANGED <<sems, currentGen>>,
             call[c].pc # "waiting", v.pc # "waiting", v.pc # "delay",
             v.pc \in G!Holding <=> call[c].pc \in G!Holding,
             \/ v = G!Idle
             \/ v.gen = call[c].gen /\ v.pc # "idle" /\ call[c].pc # "idle"
      PROVE  GuardInv'
  <2>1. /\ call \in [GuardCallers -> G!Call] /\ CallsOK(call)
        /\ G!Idle.gen = None /\ G!Idle.pc = "idle" /\ "idle" \notin G!Holding
    <3>1. call \in [GuardCallers -> G!Call] /\ CallsOK(call)
      BY DEF GuardInv, Agree, CallsOK
    <3>. QED
      BY <3>1 DEF G!Idle, G!Holding
  <2>2. call' = [d \in GuardCallers |-> IF d = c THEN v ELSE call[d]]
    BY <1>9, <2>1 DEF Put
  <2>3. CallsOK(call')
    BY <1>1, <1>9, <2>1, <2>2 DEF CallsOK
  <2>4. ASSUME NEW h \in Gens
        PROVE  /\ WaitersOn(call', h) = WaitersOn(call, h)
               /\ HoldersOn(call', h) = HoldersOn(call, h)
               /\ \A d \in GuardCallers : call'[d].gen = h => call[d].gen = h
    BY <1>1, <1>9, <2>1, <2>2 DEF WaitersOn, HoldersOn
  <2>5. ASSUME NEW h \in Gens
        PROVE  QueueOK(sems[h].queue, call', h) /\ CountOK(sems[h], call', currentGen, h)
    <3>1. QueueOK(sems[h].queue, call, h) /\ CountOK(sems[h], call, currentGen, h)
      BY DEF GuardInv, Agree
    <3>. QED
      BY <2>4, <3>1 DEF QueueOK, CountOK
  <2>6. Agree(sems', call', currentGen')
    BY <1>9, <2>3, <2>5 DEF GuardInv, Agree
  <2>. QED
    BY <1>3, <2>2, <2>6
<1>10. CASE G!ShellOpens(c)
  <2>. DEFINE v == [call[c] EXCEPT !.pc = "open"]
  <2>1. /\ call[c].pc = "running" /\ call' = Put(call, c, v) /\ UNCHANGED <<sems, currentGen>>
    BY <1>10 DEF G!ShellOpens, Put
  <2>2. v \in G!Call /\ v.pc = "open" /\ v.gen = call[c].gen
    BY <1>1, CallFacts DEF G!Call, G!PCs
  <2>. QED
    BY <1>9, <2>1, <2>2 DEF G!Holding
<1>11. CASE G!ChannelClose(c)
  <2>1. CASE call[c].pc = "open" /\ G!ReleaseOf(c, G!Sem(c), G!Idle)
    BY <1>1, <1>6, <1>11, <2>1, CallFacts DEF G!ChannelClose
  <2>2. CASE call[c].pc = "exited" /\ call' = [call EXCEPT ![c] = G!Idle] /\ UNCHANGED sems
    <3>1. call' = Put(call, c, G!Idle) /\ UNCHANGED <<sems, currentGen>>
      BY <1>11, <2>2 DEF G!ChannelClose, Put
    <3>. QED
      BY <1>1, <1>9, <2>2, <3>1, CallFacts DEF G!Holding
  <2>. QED
    BY <1>11, <2>1, <2>2 DEF G!ChannelClose
<1>. QED
  BY <1>4, <1>5, <1>7, <1>8, <1>10, <1>11 DEF G!ShellStep

\* A connection that goes destroys its semaphore and rejects those that wait.
LEMMA RemoveStepKeeps ==
  ASSUME GuardInv, G!RemoveSemaphore
  PROVE  GuardInv'
<1>. USE GuardAssumptions
<1>1. /\ currentGen \in Gens /\ currentGen' = None
      /\ sems' = Put(sems, currentGen, G!Destroyed(sems[currentGen]))
      /\ call' = WaitersRejected(call, currentGen)
      /\ execActivity' = [e \in Execs |-> IF e \in WaitersOn(call, currentGen)
                                          THEN "failed" ELSE execActivity[e]]
  <2>1. G!Rejected = WaitersOn(call, currentGen)
    BY DEF G!Rejected, WaitersOn, GuardCallers
  <2>2. currentGen \in Gens
    BY DEF G!RemoveSemaphore, GuardInv, Agree
  <2>. QED
    BY <2>1, <2>2 DEF G!RemoveSemaphore, Put, GuardCallers, WaitersRejected
<1>2. Agree(sems', call', currentGen')
  BY <1>1, RemoveAgrees DEF GuardInv
<1>3. G!ActivityEnds'
  <2>1. \A c \in WaitersOn(call, currentGen) : call[c].pc # "idle"
    BY DEF WaitersOn
  <2>. QED
    BY <1>1, <2>1, CallFacts
    DEF GuardInv, G!ActivityEnds, GuardCallers, G!Idle, WaitersRejected
<1>. QED
  BY <1>1, <1>2, <1>3 DEF GuardInv

\* Every step of the guard keeps its calls and semaphores in agreement.
LEMMA GuardStep == GuardInv /\ [G!Next]_gVars => GuardInv'
<1>1. GuardInv /\ UNCHANGED gVars => GuardInv'
  BY DEF gVars, GuardInv, G!ActivityEnds
<1>2. GuardInv /\ G!Next => GuardInv'
  BY ExecStepKeeps, ShellStepKeeps, RemoveStepKeeps DEF G!Next
<1>. QED
  BY <1>1, <1>2

\* What the run checks follows.
LEMMA GuardTrueFollows == GuardInv => G!TypeOK /\ GuardTrue
<1>. SUFFICES ASSUME GuardInv PROVE G!TypeOK /\ GuardTrue
  OBVIOUS
<1>1. G!TypeOK
  BY DEF GuardInv, Agree, CallsOK, G!TypeOK, GuardCallers
<1>2. G!LiveSlotsCounted
  <2>1. ASSUME currentGen # None
        PROVE  sems[currentGen].active = Cardinality(HoldersOn(call, currentGen))
    BY <2>1 DEF GuardInv, Agree, CountOK
  <2>. QED
    BY <2>1, SameFiniteSets DEF G!LiveSlotsCounted, HoldersOn, GuardCallers
<1>. QED
  BY <1>1, <1>2 DEF GuardInv, GuardTrue

------------------------------------------------------------------------------
(* PriorityQueueService *)

\* How many numbers there are up to n.
LEMMA Interval ==
  ASSUME NEW n \in Nat
  PROVE  IsFiniteSet(1 .. n) /\ Cardinality(1 .. n) = n
BY FS_Interval

\* A line of tasks: its elements are as many as it is long.
LEMMA LineSize ==
  ASSUME NEW S, NEW q \in Seq(S), Distinct(q)
  PROVE  IsFiniteSet(Elements(q)) /\ Cardinality(Elements(q)) = Len(q)
<1>. DEFINE f == [i \in 1 .. Len(q) |-> q[i]]
<1>1. Len(q) \in Nat
  BY LenProperties
<1>2. f \in Bijection(1 .. Len(q), Elements(q))
  <2>1. f \in [1 .. Len(q) -> Elements(q)]
    BY DEF Elements
  <2>2. \A i, j \in 1 .. Len(q) : f[i] = f[j] => i = j
    BY DEF Distinct
  <2>3. \A x \in Elements(q) : \E i \in 1 .. Len(q) : f[i] = x
    BY DEF Elements
  <2>. HIDE DEF f
  <2>. QED
    BY <2>1, <2>2, <2>3 DEF Bijection, Injection, Surjection, IsInjective
<1>3. IsFiniteSet(1 .. Len(q)) /\ Cardinality(1 .. Len(q)) = Len(q)
  BY <1>1, Interval
<1>. QED
  BY <1>2, <1>3, FS_Bijection DEF ExistsBijection

\* The first k of a line and the others.
LEMMA Cut ==
  ASSUME NEW S, NEW q \in Seq(S), Distinct(q), NEW k \in 0 .. Len(q)
  PROVE  LET front == SubSeq(q, 1, k)
             back == SubSeq(q, k + 1, Len(q))
         IN  /\ front \in Seq(S) /\ Distinct(front) /\ Len(front) = k
             /\ back \in Seq(S) /\ Distinct(back) /\ Len(back) = Len(q) - k
             /\ Elements(front) \cup Elements(back) = Elements(q)
             /\ Elements(front) \cap Elements(back) = {}
<1>. DEFINE n == Len(q)
            front == SubSeq(q, 1, k)
            back == SubSeq(q, k + 1, n)
<1>1. n \in Nat /\ k \in Nat /\ k <= n /\ \A j \in 1 .. n : q[j] \in S
  BY LenProperties, ElementOfSeq
<1>2. front \in Seq(S) /\ Len(front) = k /\ \A j \in 1 .. k : front[j] = q[j]
  <2>1. \A j \in 1 .. k : q[j] \in S
    BY <1>1
  <2>. QED
    BY <1>1, <2>1, SubSeqProperties
<1>3. back \in Seq(S) /\ Len(back) = n - k /\ \A j \in 1 .. n - k : back[j] = q[k + j]
  <2>1. \A j \in k + 1 .. n : q[j] \in S
    BY <1>1
  <2>2. Len(back) = IF k + 1 <= n THEN n - (k + 1) + 1 ELSE 0
    BY <1>1, <2>1, SubSeqProperties
  <2>3. back \in Seq(S) /\ \A j \in 1 .. n - (k + 1) + 1 : back[j] = q[(k + 1) + j - 1]
    BY <1>1, <2>1, SubSeqProperties
  <2>. QED
    BY <1>1, <2>2, <2>3
<1>. HIDE DEF front, back
<1>4. Distinct(front) /\ Distinct(back)
  <2>1. Distinct(front)
    BY <1>1, <1>2 DEF Distinct
  <2>2. ASSUME NEW i \in 1 .. n - k, NEW j \in 1 .. n - k, back[i] = back[j]
        PROVE  i = j
    <3>1. k + i \in 1 .. n /\ k + j \in 1 .. n /\ q[k + i] = q[k + j]
      BY <1>1, <1>3, <2>2
    <3>. QED
      BY <1>1, <3>1 DEF Distinct
  <2>. QED
    BY <1>3, <2>1, <2>2 DEF Distinct
<1>5. Elements(front) \cap Elements(back) = {}
  BY <1>1, <1>2, <1>3 DEF Distinct, Elements
<1>6. Elements(front) \subseteq Elements(q) /\ Elements(back) \subseteq Elements(q)
  <2>1. Elements(front) \subseteq Elements(q)
    BY <1>1, <1>2 DEF Elements
  <2>2. \A j \in 1 .. n - k : k + j \in 1 .. n
    BY <1>1
  <2>3. Elements(back) \subseteq Elements(q)
    BY <1>3, <2>2 DEF Elements
  <2>. QED
    BY <2>1, <2>3
<1>7. ASSUME NEW x \in Elements(q)  PROVE x \in Elements(front) \cup Elements(back)
  <2>1. PICK j \in 1 .. n : q[j] = x
    BY DEF Elements
  <2>2. CASE j <= k
    BY <1>1, <1>2, <2>1, <2>2 DEF Elements
  <2>3. CASE j > k
    <3>1. j - k \in 1 .. n - k /\ back[j - k] = x
      BY <1>1, <1>3, <2>1, <2>3
    <3>. QED
      BY <1>3, <3>1 DEF Elements
  <2>. QED
    BY <1>1, <2>1, <2>2, <2>3
<1>. QED
  BY <1>2, <1>3, <1>4, <1>5, <1>6, <1>7 DEF front, back

\* The tasks of a line that start: the first ones, as many as the slots allow.
LEMMA StartsCount ==
  ASSUME NEW len \in Nat, NEW a \in Nat, NEW p \in 1 .. 4, NEW m \in Nat,
         NEW T, T = {i \in 1 .. len : a + i - 1 < m /\ m - (a + i - 1) >= p}
  PROVE  /\ Cardinality(T) \in 0 .. len
         /\ Cardinality(T) > 0 => a + Cardinality(T) + p - 1 <= m
         /\ Cardinality(T) < len => a + Cardinality(T) + p > m
<1>. DEFINE k == IF m - p - a + 1 <= 0 THEN 0
                 ELSE IF m - p - a + 1 >= len THEN len ELSE m - p - a + 1
<1>1. k \in 0 .. len
      /\ (k > 0 => a + k + p - 1 <= m)
      /\ (k < len => a + k + p > m)
  OBVIOUS
<1>2. T = 1 .. k
  OBVIOUS
<1>3. Cardinality(1 .. k) = k
  <2>1. k \in Nat
    BY <1>1
  <2>. HIDE DEF k
  <2>. QED
    BY <2>1, Interval
<1>. HIDE DEF k
<1>. QED
  BY <1>1, <1>2, <1>3

\* What the queues and the running tasks of a connection are.
QueueStates == [q : [1 .. 4 -> Seq(Q!Tasks)], r : SUBSET Q!Tasks]

\* The tasks queued with a more urgent priority than p.
Before(q, p) == UNION {Elements(q[u]) : u \in 1 .. p - 1}

\* No task is queued twice, or queued and running; pr gives the priorities.
Lined(s, pr) ==
    /\ s \in QueueStates /\ IsFiniteSet(s.r)
    /\ \A p \in 1 .. 4 :
          Distinct(s.q[p]) /\ \A x \in Elements(s.q[p]) : pr[x] = p /\ x \notin s.r
    /\ \A x \in s.r : pr[x] \in 1 .. 4

\* How many of a line start.
Starts(s, p) ==
    Cardinality({i \in 1 .. Len(s.q[p]) :
        Q!CanRunAtPriority(p, Cardinality(s.r) + Cardinality(Before(s.q, p)) + i - 1)})

\* A task of priority v could have been the last to start: what it leaves free is
\* free, and nothing more urgent waits.
Fits(s, v) == Before(s.q, v) = {} /\ Cardinality(s.r) + v - 1 <= maxSlots

\* The instance has FiniteSets of its own, and names the elements of a sequence so.
LEMMA SameSets ==
  /\ \A S : Q!Cardinality(S) = Cardinality(S)
  /\ \A S : Q!IsFiniteSet(S) = IsFiniteSet(S)
  /\ \A S : \A q \in Seq(S) : Q!ToSet(q) = Elements(q)
<1>1. \A S : \A q \in Seq(S) : Q!ToSet(q) = Elements(q)
  BY LenProperties DEF Q!ToSet, Elements
<1>. QED
  BY <1>1 DEF Cardinality, Q!Cardinality, IsFiniteSet, Q!IsFiniteSet

\* The priorities are four numbers, and so are the slots numbers.
LEMMA PriorityFacts == Q!Priorities = 1 .. 4 /\ \A v \in SlotChoices : v \in Nat
BY ConstantsAssumption
DEF ConstantsAssumption, Q!SlotsAssumption, Q!Priorities, Q!HIGH, Q!IDLE

\* No more start than there are.
LEMMA StartsType ==
  ASSUME NEW s \in QueueStates, NEW p \in 1 .. 4
  PROVE  /\ s.q[p] \in Seq(Q!Tasks)
         /\ Starts(s, p) \in 0 .. Len(s.q[p])
         /\ SubSeq(s.q[p], 1, Starts(s, p)) \in Seq(Q!Tasks)
         /\ SubSeq(s.q[p], Starts(s, p) + 1, Len(s.q[p])) \in Seq(Q!Tasks)
<1>. DEFINE T == {i \in 1 .. Len(s.q[p]) :
       Q!CanRunAtPriority(p, Cardinality(s.r) + Cardinality(Before(s.q, p)) + i - 1)}
<1>1. s.q[p] \in Seq(Q!Tasks) /\ Len(s.q[p]) \in Nat
      /\ \A j \in 1 .. Len(s.q[p]) : s.q[p][j] \in Q!Tasks
  BY LenProperties, ElementOfSeq DEF QueueStates
<1>2. T \in SUBSET (1 .. Len(s.q[p]))
  OBVIOUS
<1>. HIDE DEF T
<1>3. Cardinality(T) \in 0 .. Len(s.q[p])
  <2>1. IsFiniteSet(1 .. Len(s.q[p])) /\ Cardinality(1 .. Len(s.q[p])) = Len(s.q[p])
    BY <1>1, Interval
  <2>2. IsFiniteSet(T) /\ Cardinality(T) <= Len(s.q[p])
    BY <1>2, <2>1, FS_Subset
  <2>3. Cardinality(T) \in Nat
    BY <2>2, FS_CardinalityType
  <2>. QED
    BY <1>1, <2>2, <2>3
<1>4. Starts(s, p) \in 0 .. Len(s.q[p])
  BY <1>3 DEF Starts, T
<1>5. SubSeq(s.q[p], 1, Starts(s, p)) \in Seq(Q!Tasks)
  <2>1. \A j \in 1 .. Starts(s, p) : s.q[p][j] \in Q!Tasks
    BY <1>1, <1>4
  <2>. QED
    BY <1>1, <1>4, <2>1, SubSeqProperties
<1>6. SubSeq(s.q[p], Starts(s, p) + 1, Len(s.q[p])) \in Seq(Q!Tasks)
  <2>1. \A j \in Starts(s, p) + 1 .. Len(s.q[p]) : s.q[p][j] \in Q!Tasks
    BY <1>1, <1>4
  <2>. QED
    BY <1>1, <1>4, <2>1, SubSeqProperties
<1>. QED
  BY <1>1, <1>4, <1>5, <1>6

\* Process, with the definitions above.
LEMMA ProcessIs ==
  ASSUME NEW s \in QueueStates
  PROVE  /\ Q!Process(s) =
              [q |-> [p \in 1 .. 4 |-> SubSeq(s.q[p], Starts(s, p) + 1, Len(s.q[p]))],
               r |-> s.r \cup UNION {Elements(SubSeq(s.q[p], 1, Starts(s, p))) : p \in 1 .. 4}]
         /\ Q!Process(s) \in QueueStates
<1>1. \A p \in 1 .. 4 :
        /\ s.q[p] \in Seq(Q!Tasks)
        /\ SubSeq(s.q[p], 1, Starts(s, p)) \in Seq(Q!Tasks)
        /\ SubSeq(s.q[p], Starts(s, p) + 1, Len(s.q[p])) \in Seq(Q!Tasks)
  BY StartsType
<1>2. \A p \in 1 .. 4 : UNION {Q!ToSet(s.q[u]) : u \in Q!HIGH .. p - 1} = Before(s.q, p)
  <2>1. ASSUME NEW p \in 1 .. 4
        PROVE  UNION {Q!ToSet(s.q[u]) : u \in Q!HIGH .. p - 1} = Before(s.q, p)
    <3>1. \A u \in 1 .. p - 1 : u \in 1 .. 4
      OBVIOUS
    <3>2. \A u \in 1 .. p - 1 : Q!ToSet(s.q[u]) = Elements(s.q[u])
      BY <1>1, <3>1, SameSets
    <3>. QED
      BY <3>2 DEF Q!HIGH, Before
  <2>. QED
    BY <2>1
<1>3. \A p \in 1 .. 4 :
        Q!ToSet(SubSeq(s.q[p], 1, Starts(s, p))) = Elements(SubSeq(s.q[p], 1, Starts(s, p)))
  BY <1>1, SameSets
<1>. DEFINE starts(p) == Q!Cardinality({i \in 1 .. Len(s.q[p]) :
        Q!CanRunAtPriority(p, Q!Cardinality(s.r)
            + Q!Cardinality(UNION {Q!ToSet(s.q[u]) : u \in Q!HIGH .. p - 1}) + i - 1)})
<1>4. \A p \in 1 .. 4 : starts(p) = Starts(s, p)
  BY <1>2, SameSets DEF Starts
<1>5. Q!Process(s) =
        [q |-> [p \in 1 .. 4 |-> SubSeq(s.q[p], starts(p) + 1, Len(s.q[p]))],
         r |-> s.r \cup UNION {Q!ToSet(SubSeq(s.q[p], 1, starts(p))) : p \in 1 .. 4}]
  BY PriorityFacts, Zenon DEF Q!Process
<1>. HIDE DEF starts
<1>6. Q!Process(s) =
        [q |-> [p \in 1 .. 4 |-> SubSeq(s.q[p], Starts(s, p) + 1, Len(s.q[p]))],
         r |-> s.r \cup UNION {Elements(SubSeq(s.q[p], 1, Starts(s, p))) : p \in 1 .. 4}]
  BY <1>3, <1>4, <1>5
<1>7. \A p \in 1 .. 4 : Elements(SubSeq(s.q[p], 1, Starts(s, p))) \subseteq Q!Tasks
  <2>1. ASSUME NEW p \in 1 .. 4, NEW front \in Seq(Q!Tasks)
        PROVE  Elements(front) \subseteq Q!Tasks
    BY ElementOfSeq DEF Elements
  <2>. QED
    BY <1>1, <2>1
<1>8. Q!Process(s) \in QueueStates
  <2>. DEFINE front(p) == SubSeq(s.q[p], 1, Starts(s, p))
              back(p) == SubSeq(s.q[p], Starts(s, p) + 1, Len(s.q[p]))
  <2>1. \A p \in 1 .. 4 : back(p) \in Seq(Q!Tasks) /\ Elements(front(p)) \subseteq Q!Tasks
    BY <1>1, <1>7
  <2>2. Q!Process(s) = [q |-> [p \in 1 .. 4 |-> back(p)],
                        r |-> s.r \cup UNION {Elements(front(p)) : p \in 1 .. 4}]
    BY <1>6
  <2>3. s.r \subseteq Q!Tasks
    BY DEF QueueStates
  <2>. HIDE DEF front, back
  <2>. QED
    BY <2>1, <2>2, <2>3 DEF QueueStates
<1>. QED
  BY <1>6, <1>8

\* The union of two finite sets, and how large it is.
LEMMA FiniteUnion ==
  ASSUME NEW S, NEW T, IsFiniteSet(S), IsFiniteSet(T)
  PROVE  /\ IsFiniteSet(S \cup T)
         /\ Cardinality(S \cup T) \in Nat
         /\ Cardinality(S \cup T) <= Cardinality(S) + Cardinality(T)
         /\ S \cap T = {} => Cardinality(S \cup T) = Cardinality(S) + Cardinality(T)
<1>1. IsFiniteSet(S \cup T) /\ IsFiniteSet(S \cap T)
      /\ Cardinality(S \cup T) = Cardinality(S) + Cardinality(T) - Cardinality(S \cap T)
  BY FS_Union, FS_Intersection
<1>2. Cardinality(S) \in Nat /\ Cardinality(T) \in Nat /\ Cardinality(S \cup T) \in Nat
      /\ Cardinality(S \cap T) \in Nat
  BY <1>1, FS_CardinalityType
<1>3. S \cap T = {} => Cardinality(S \cap T) = 0
  BY FS_EmptySet
<1>. DEFINE n == Cardinality(S \cap T)
            u == Cardinality(S \cup T)
<1>. HIDE DEF n, u
<1>4. u \in Nat /\ u <= Cardinality(S) + Cardinality(T)
      /\ (n = 0 => u = Cardinality(S) + Cardinality(T))
  BY <1>1, <1>2 DEF n, u
<1>. QED
  BY <1>1, <1>3, <1>4 DEF n, u

\* The tasks before a priority.
LEMMA BeforeFacts ==
  ASSUME NEW s, NEW pr, Lined(s, pr)
  PROVE  /\ \A p \in 1 .. 4 : IsFiniteSet(Before(s.q, p)) /\ Cardinality(Before(s.q, p)) \in Nat
         /\ \A p, u \in 1 .. 4 : u < p =>
               /\ Before(s.q, u) \cup Elements(s.q[u]) \subseteq Before(s.q, p)
               /\ Before(s.q, u) \cap Elements(s.q[u]) = {}
         /\ \A p \in 1 .. 4 : Before(s.q, p) \cap s.r = {}
         /\ \A p, u \in 1 .. 4 : u < p =>
               Cardinality(Before(s.q, u)) + Len(s.q[u]) <= Cardinality(Before(s.q, p))
<1>1. \A p \in 1 .. 4 : IsFiniteSet(Elements(s.q[p])) /\ Cardinality(Elements(s.q[p])) = Len(s.q[p])
  BY LineSize DEF Lined, QueueStates
<1>2. \A p \in 1 .. 4 : IsFiniteSet(Before(s.q, p)) /\ Cardinality(Before(s.q, p)) \in Nat
  <2>1. ASSUME NEW p \in 1 .. 4
        PROVE IsFiniteSet(Before(s.q, p))
    <3>1. Before(s.q, 1) = {}
      BY DEF Before
    <3>2. Before(s.q, 2) = Elements(s.q[1])
      BY DEF Before
    <3>3. Before(s.q, 3) = Elements(s.q[1]) \cup Elements(s.q[2])
      BY DEF Before
    <3>4. Before(s.q, 4) = (Elements(s.q[1]) \cup Elements(s.q[2])) \cup Elements(s.q[3])
      BY DEF Before
    <3>5. IsFiniteSet(Elements(s.q[1])) /\ IsFiniteSet(Elements(s.q[2]))
          /\ IsFiniteSet(Elements(s.q[3]))
      BY <1>1
    <3>6. IsFiniteSet(Before(s.q, 1)) /\ IsFiniteSet(Before(s.q, 2))
      BY <3>1, <3>2, <3>5, FS_EmptySet, Zenon
    <3>7. IsFiniteSet(Before(s.q, 3))
      BY <3>3, <3>5, FiniteUnion, Zenon
    <3>8. IsFiniteSet(Before(s.q, 4))
      BY <3>3, <3>4, <3>5, <3>7, FiniteUnion, Zenon
    <3>9. p = 1 \/ p = 2 \/ p = 3 \/ p = 4
      OBVIOUS
    <3>. QED
      BY <3>6, <3>7, <3>8, <3>9, Zenon
  <2>. QED
    BY <2>1, FS_CardinalityType
<1>3. \A p, u \in 1 .. 4 : u < p =>
        /\ Before(s.q, u) \cup Elements(s.q[u]) \subseteq Before(s.q, p)
        /\ Before(s.q, u) \cap Elements(s.q[u]) = {}
  <2>1. ASSUME NEW p \in 1 .. 4, NEW u \in 1 .. 4, u < p
        PROVE  Before(s.q, u) \cup Elements(s.q[u]) \subseteq Before(s.q, p)
    <3>1. u \in 1 .. p - 1 /\ \A v \in 1 .. u - 1 : v \in 1 .. p - 1
      BY <2>1
    <3>. QED
      BY <3>1 DEF Before
  <2>2. ASSUME NEW u \in 1 .. 4, NEW x \in Before(s.q, u)
        PROVE  x \notin Elements(s.q[u])
    <3>1. PICK v \in 1 .. u - 1 : x \in Elements(s.q[v])
      BY <2>2 DEF Before
    <3>2. v \in 1 .. 4 /\ v # u
      BY <3>1
    <3>. QED
      BY <3>1, <3>2 DEF Lined
  <2>. QED
    BY <2>1, <2>2
<1>4. \A p \in 1 .. 4 : Before(s.q, p) \cap s.r = {}
  <2>1. ASSUME NEW p \in 1 .. 4, NEW x \in Before(s.q, p)  PROVE x \notin s.r
    <3>1. PICK v \in 1 .. p - 1 : x \in Elements(s.q[v])
      BY <2>1 DEF Before
    <3>2. v \in 1 .. 4
      BY <3>1
    <3>. QED
      BY <3>1, <3>2 DEF Lined
  <2>. QED
    BY <2>1
<1>5. ASSUME NEW p \in 1 .. 4, NEW u \in 1 .. 4, u < p
      PROVE  Cardinality(Before(s.q, u)) + Len(s.q[u]) <= Cardinality(Before(s.q, p))
  <2>. DEFINE B == Before(s.q, u)
              E == Elements(s.q[u])
              D == Before(s.q, p)
  <2>1. IsFiniteSet(B) /\ IsFiniteSet(E) /\ IsFiniteSet(D) /\ Cardinality(E) = Len(s.q[u])
        /\ Cardinality(B) \in Nat
    BY <1>1, <1>2
  <2>2. B \cup E \in SUBSET D /\ B \cap E = {}
    BY <1>3, <1>5
  <2>. HIDE DEF B, E, D
  <2>3. Cardinality(B \cup E) = Cardinality(B) + Cardinality(E)
    BY <2>1, <2>2, FiniteUnion
  <2>4. Cardinality(B \cup E) <= Cardinality(D)
    BY <2>1, <2>2, FS_Subset
  <2>. QED
    BY <2>1, <2>3, <2>4 DEF B, E, D
<1>. QED
  BY <1>2, <1>3, <1>4, <1>5

\* Which tasks of a line start, and what that says of the slots.
LEMMA StartsFacts ==
  ASSUME NEW s, NEW pr, Lined(s, pr), maxSlots \in Nat, NEW p \in 1 .. 4
  PROVE  LET used == Cardinality(s.r) + Cardinality(Before(s.q, p)) + Starts(s, p)
         IN  /\ Starts(s, p) \in 0 .. Len(s.q[p])
             /\ Starts(s, p) > 0 => used + p - 1 <= maxSlots
             /\ Starts(s, p) < Len(s.q[p]) => used + p > maxSlots
<1>. DEFINE len == Len(s.q[p])
            a == Cardinality(s.r) + Cardinality(Before(s.q, p))
            T == {i \in 1 .. len : a + i - 1 < maxSlots /\ maxSlots - (a + i - 1) >= p}
<1>1. len \in Nat
  BY LenProperties DEF Lined, QueueStates
<1>2. a \in Nat
  <2>1. Cardinality(s.r) \in Nat
    BY FS_CardinalityType DEF Lined
  <2>. QED
    BY <2>1, BeforeFacts
<1>3. Starts(s, p) = Cardinality(T)
  BY DEF Starts, Q!CanRunAtPriority
<1>. HIDE DEF len, a
<1>4. /\ Cardinality(T) \in 0 .. len
      /\ Cardinality(T) > 0 => a + Cardinality(T) + p - 1 <= maxSlots
      /\ Cardinality(T) < len => a + Cardinality(T) + p > maxSlots
  BY <1>1, <1>2, StartsCount
<1>. QED
  BY <1>3, <1>4 DEF len, a

\* The more urgent lines start wholly before a task starts.
LEMMA UrgentFirst ==
  ASSUME NEW s, NEW pr, Lined(s, pr), maxSlots \in Nat,
         NEW p \in 1 .. 4, NEW u \in 1 .. 4, u < p, Starts(s, p) > 0
  PROVE  Starts(s, u) = Len(s.q[u])
<1>1. Cardinality(Before(s.q, u)) + Len(s.q[u]) <= Cardinality(Before(s.q, p))
  BY BeforeFacts
<1>2. Cardinality(Before(s.q, u)) \in Nat /\ Cardinality(Before(s.q, p)) \in Nat
  BY BeforeFacts
<1>3. Cardinality(s.r) \in Nat
  BY FS_CardinalityType DEF Lined
<1>4. Len(s.q[u]) \in Nat /\ Len(s.q[p]) \in Nat
  BY LenProperties DEF Lined, QueueStates
<1>5. Cardinality(s.r) + Cardinality(Before(s.q, p)) + Starts(s, p) + p - 1 <= maxSlots
      /\ Starts(s, p) \in 0 .. Len(s.q[p])
  BY StartsFacts
<1>6. Starts(s, u) \in 0 .. Len(s.q[u])
      /\ (Starts(s, u) < Len(s.q[u]) =>
            Cardinality(s.r) + Cardinality(Before(s.q, u)) + Starts(s, u) + u > maxSlots)
  BY StartsFacts
<1>. DEFINE bu == Cardinality(Before(s.q, u))
            bp == Cardinality(Before(s.q, p))
            r == Cardinality(s.r)
            su == Starts(s, u)
            sp == Starts(s, p)
            lu == Len(s.q[u])
<1>. HIDE DEF bu, bp, r, su, sp, lu
<1>7. bu \in Nat /\ bp \in Nat /\ r \in Nat /\ lu \in Nat /\ su \in 0 .. lu /\ sp \in Nat
      /\ bu + lu <= bp /\ r + bp + sp + p - 1 <= maxSlots /\ sp > 0
      /\ (su < lu => r + bu + su + u > maxSlots)
  BY <1>1, <1>2, <1>3, <1>4, <1>5, <1>6 DEF bu, bp, r, su, sp, lu
<1>8. su = lu
  BY <1>7
<1>. QED
  BY <1>8 DEF su, lu

\* What Process does to each line and to the running tasks.
LEMMA ProcessLines ==
  ASSUME NEW s, NEW pr, Lined(s, pr), maxSlots \in Nat
  PROVE  LET s2 == Q!Process(s)
             front(p) == Elements(SubSeq(s.q[p], 1, Starts(s, p)))
         IN  /\ s2 \in QueueStates /\ IsFiniteSet(s2.r)
             /\ s2.r = s.r \cup UNION {front(p) : p \in 1 .. 4}
             /\ \A p \in 1 .. 4 :
                   /\ Distinct(s2.q[p])
                   /\ front(p) \cup Elements(s2.q[p]) = Elements(s.q[p])
                   /\ front(p) \cap Elements(s2.q[p]) = {}
                   /\ IsFiniteSet(front(p)) /\ Cardinality(front(p)) = Starts(s, p)
                   /\ s2.q[p] = <<>> <=> Starts(s, p) = Len(s.q[p])
                   /\ Starts(s, p) = 0 => front(p) = {}
<1>. DEFINE s2 == Q!Process(s)
            front(p) == SubSeq(s.q[p], 1, Starts(s, p))
            back(p) == SubSeq(s.q[p], Starts(s, p) + 1, Len(s.q[p]))
<1>1. s \in QueueStates /\ \A p \in 1 .. 4 : s.q[p] \in Seq(Q!Tasks) /\ Distinct(s.q[p])
  BY DEF Lined, QueueStates
<1>2. s2 = [q |-> [p \in 1 .. 4 |-> back(p)],
            r |-> s.r \cup UNION {Elements(front(p)) : p \in 1 .. 4}]
  BY <1>1, ProcessIs
<1>3. \A p \in 1 .. 4 : Starts(s, p) \in 0 .. Len(s.q[p]) /\ Len(s.q[p]) \in Nat
  <2>1. ASSUME NEW p \in 1 .. 4  PROVE Starts(s, p) \in 0 .. Len(s.q[p])
    BY StartsFacts
  <2>. QED
    BY <1>1, <2>1, LenProperties
<1>4. ASSUME NEW p \in 1 .. 4
      PROVE  /\ front(p) \in Seq(Q!Tasks) /\ Distinct(front(p)) /\ Len(front(p)) = Starts(s, p)
             /\ back(p) \in Seq(Q!Tasks) /\ Distinct(back(p))
             /\ Len(back(p)) = Len(s.q[p]) - Starts(s, p)
             /\ Elements(front(p)) \cup Elements(back(p)) = Elements(s.q[p])
             /\ Elements(front(p)) \cap Elements(back(p)) = {}
  <2>1. s.q[p] \in Seq(Q!Tasks) /\ Distinct(s.q[p]) /\ Starts(s, p) \in 0 .. Len(s.q[p])
    BY <1>1, <1>3
  <2>. QED
    BY <2>1, Cut
<1>. HIDE DEF front, back, s2
<1>5. ASSUME NEW p \in 1 .. 4
      PROVE  /\ IsFiniteSet(Elements(front(p))) /\ Cardinality(Elements(front(p))) = Starts(s, p)
             /\ Elements(front(p)) \subseteq Q!Tasks
             /\ back(p) = <<>> <=> Starts(s, p) = Len(s.q[p])
             /\ Starts(s, p) = 0 => Elements(front(p)) = {}
  <2>1. IsFiniteSet(Elements(front(p))) /\ Cardinality(Elements(front(p))) = Starts(s, p)
    BY <1>4, LineSize
  <2>2. Elements(front(p)) \subseteq Q!Tasks
    <3>1. front(p) \in Seq(Q!Tasks)
      BY <1>4
    <3>2. \A i \in 1 .. Len(front(p)) : front(p)[i] \in Q!Tasks
      BY <3>1, ElementOfSeq
    <3>. QED
      BY <3>2 DEF Elements
  <2>3. back(p) = <<>> <=> Len(back(p)) = 0
    BY <1>4, EmptySeq
  <2>4. Starts(s, p) = 0 => Elements(front(p)) = {}
    BY <2>1, FS_EmptySet
  <2>. QED
    <3>1. back(p) = <<>> <=> Starts(s, p) = Len(s.q[p])
      <4>1. Len(back(p)) = Len(s.q[p]) - Starts(s, p)
        BY <1>4
      <4>2. Len(s.q[p]) \in Nat /\ Starts(s, p) \in Nat
        BY <1>3
      <4>. QED
        BY <2>3, <4>1, <4>2
    <3>. QED
      BY <2>1, <2>2, <2>4, <3>1
<1>6. s2.r = s.r \cup UNION {Elements(front(p)) : p \in 1 .. 4}
      /\ \A p \in 1 .. 4 : s2.q[p] = back(p)
  BY <1>2
<1>7. s2 \in QueueStates
  BY <1>1, <1>2, <1>4, <1>5 DEF QueueStates
<1>8. IsFiniteSet(s2.r)
  <2>1. UNION {Elements(front(p)) : p \in 1 .. 4}
          = (Elements(front(1)) \cup Elements(front(2))) \cup (Elements(front(3)) \cup Elements(front(4)))
    OBVIOUS
  <2>2. IsFiniteSet(Elements(front(1))) /\ IsFiniteSet(Elements(front(2)))
        /\ IsFiniteSet(Elements(front(3))) /\ IsFiniteSet(Elements(front(4)))
    BY <1>5
  <2>3. IsFiniteSet(s.r)
    BY DEF Lined
  <2>4. IsFiniteSet(Elements(front(1)) \cup Elements(front(2)))
        /\ IsFiniteSet(Elements(front(3)) \cup Elements(front(4)))
    BY <2>2, FiniteUnion, Zenon
  <2>. DEFINE low == Elements(front(1)) \cup Elements(front(2))
              high == Elements(front(3)) \cup Elements(front(4))
  <2>5. s2.r = s.r \cup (low \cup high)
    BY <1>6, <2>1
  <2>. HIDE DEF low, high
  <2>6. IsFiniteSet(low \cup high)
    BY <2>4, FiniteUnion DEF low, high
  <2>. QED
    BY <2>3, <2>5, <2>6, FiniteUnion
<1>. QED
  <2>1. ASSUME NEW p \in 1 .. 4
        PROVE /\ Distinct(s2.q[p])
              /\ Elements(front(p)) \cup Elements(s2.q[p]) = Elements(s.q[p])
              /\ Elements(front(p)) \cap Elements(s2.q[p]) = {}
              /\ IsFiniteSet(Elements(front(p))) /\ Cardinality(Elements(front(p))) = Starts(s, p)
              /\ s2.q[p] = <<>> <=> Starts(s, p) = Len(s.q[p])
              /\ Starts(s, p) = 0 => Elements(front(p)) = {}
    BY <1>4, <1>5, <1>6, Zenon
  <2>. QED
    BY <1>6, <1>7, <1>8, <2>1, Zenon DEF s2, front

\* No task is lost, started twice or queued twice.
LEMMA ProcessKeeps ==
  ASSUME NEW s, NEW pr, Lined(s, pr), maxSlots \in Nat
  PROVE  LET s2 == Q!Process(s)
         IN  /\ Lined(s2, pr)
             /\ s.r \subseteq s2.r
             /\ \A p \in 1 .. 4 : /\ Elements(s2.q[p]) \subseteq Elements(s.q[p])
                                  /\ Elements(s.q[p]) \subseteq Elements(s2.q[p]) \cup s2.r
             /\ \A x \in s2.r \ s.r : x \in Elements(s.q[pr[x]])
<1>. DEFINE s2 == Q!Process(s)
            front(p) == Elements(SubSeq(s.q[p], 1, Starts(s, p)))
<1>1. /\ s2 \in QueueStates /\ IsFiniteSet(s2.r)
      /\ s2.r = s.r \cup UNION {front(p) : p \in 1 .. 4}
      /\ \A p \in 1 .. 4 : /\ Distinct(s2.q[p])
                           /\ front(p) \cup Elements(s2.q[p]) = Elements(s.q[p])
                           /\ front(p) \cap Elements(s2.q[p]) = {}
  BY ProcessLines, Zenon
<1>. HIDE DEF s2, front
<1>2. \A p \in 1 .. 4 : \A x \in front(p) : pr[x] = p /\ x \notin s.r
  BY <1>1 DEF Lined
<1>3. ASSUME NEW p \in 1 .. 4, NEW x \in Elements(s2.q[p])  PROVE pr[x] = p /\ x \notin s2.r
  <2>1. pr[x] = p /\ x \notin s.r /\ x \notin front(p)
    BY <1>1, <1>3 DEF Lined
  <2>2. \A u \in 1 .. 4 : x \notin front(u)
    BY <1>2, <2>1
  <2>. QED
    BY <1>1, <2>1, <2>2
<1>4. \A x \in s2.r : pr[x] \in 1 .. 4
  BY <1>1, <1>2 DEF Lined
<1>5. Lined(s2, pr)
  BY <1>1, <1>3, <1>4 DEF Lined
<1>6. \A x \in s2.r \ s.r : x \in Elements(s.q[pr[x]])
  BY <1>1, <1>2
<1>7. \A p \in 1 .. 4 : /\ Elements(s2.q[p]) \subseteq Elements(s.q[p])
                        /\ Elements(s.q[p]) \subseteq Elements(s2.q[p]) \cup s2.r
  BY <1>1
<1>. QED
  BY <1>1, <1>5, <1>6, <1>7 DEF s2

\* Whatever starts leaves the reserved slots free; what starts before a priority was
\* queued before it; and a task that still waits may not run.
LEMMA ProcessFits ==
  ASSUME NEW s, NEW pr, Lined(s, pr), maxSlots \in Nat
  PROVE  LET s2 == Q!Process(s)
         IN  /\ \A v \in 1 .. 4 : \/ Fits(s2, v)
                                  \/ s2.r \cup Before(s2.q, v) \subseteq s.r \cup Before(s.q, v)
             /\ \A x \in s2.r \ s.r : Fits(s2, pr[x])
             /\ \A v \in 1 .. 4 : s2.q[v] # <<>> => Cardinality(s2.r) + v > maxSlots
<1>. DEFINE s2 == Q!Process(s)
            front(p) == Elements(SubSeq(s.q[p], 1, Starts(s, p)))
            some == {p \in 1 .. 4 : Starts(s, p) > 0}
            cr == Cardinality(s.r)
            cr2 == Cardinality(s2.r)
            n(p) == Cardinality(Before(s.q, p))
<1>1. /\ s2 \in QueueStates /\ IsFiniteSet(s2.r)
      /\ s2.r = s.r \cup UNION {front(p) : p \in 1 .. 4}
      /\ \A p \in 1 .. 4 :
            /\ front(p) \cup Elements(s2.q[p]) = Elements(s.q[p])
            /\ IsFiniteSet(front(p)) /\ Cardinality(front(p)) = Starts(s, p)
            /\ s2.q[p] = <<>> <=> Starts(s, p) = Len(s.q[p])
            /\ Starts(s, p) = 0 => front(p) = {}
  BY ProcessLines, Zenon
<1>. HIDE DEF s2, front
<1>2. \A p \in 1 .. 4 :
        /\ Starts(s, p) \in Nat /\ Starts(s, p) <= Len(s.q[p]) /\ Len(s.q[p]) \in Nat
        /\ Starts(s, p) > 0 => cr + n(p) + Starts(s, p) + p - 1 <= maxSlots
        /\ Starts(s, p) < Len(s.q[p]) => cr + n(p) + Starts(s, p) + p > maxSlots
  <2>1. ASSUME NEW p \in 1 .. 4
        PROVE /\ Starts(s, p) \in 0 .. Len(s.q[p])
              /\ Starts(s, p) > 0 => cr + n(p) + Starts(s, p) + p - 1 <= maxSlots
              /\ Starts(s, p) < Len(s.q[p]) => cr + n(p) + Starts(s, p) + p > maxSlots
    BY StartsFacts
  <2>2. ASSUME NEW p \in 1 .. 4  PROVE Len(s.q[p]) \in Nat
    BY LenProperties DEF Lined, QueueStates
  <2>. QED
    BY <2>1, <2>2
<1>3. IsFiniteSet(s.r) /\ cr \in Nat /\ cr2 \in Nat
  BY <1>1, FS_CardinalityType DEF Lined
<1>4. \A p \in 1 .. 4 : IsFiniteSet(Before(s.q, p)) /\ n(p) \in Nat /\ Before(s.q, p) \cap s.r = {}
  BY BeforeFacts
<1>5. \A p, u \in 1 .. 4 : u < p /\ Starts(s, p) > 0 => Starts(s, u) = Len(s.q[u])
  <2>1. ASSUME NEW p \in 1 .. 4, NEW u \in 1 .. 4, u < p, Starts(s, p) > 0
        PROVE  Starts(s, u) = Len(s.q[u])
    BY <2>1, UrgentFirst
  <2>. QED
    BY <2>1
<1>6. ASSUME NEW v \in 1 .. 4  PROVE Before(s2.q, v) \subseteq Before(s.q, v)
  <2>1. \A u \in 1 .. v - 1 : u \in 1 .. 4
    OBVIOUS
  <2>2. \A u \in 1 .. v - 1 : Elements(s2.q[u]) \subseteq Elements(s.q[u])
    BY <1>1, <2>1
  <2>. QED
    BY <2>2 DEF Before
<1>7. ASSUME NEW v \in 1 .. 4, \A u \in 1 .. v - 1 : Starts(s, u) = Len(s.q[u])
      PROVE  Before(s2.q, v) = {}
  <2>1. \A u \in 1 .. v - 1 : u \in 1 .. 4 /\ s2.q[u] = <<>>
    BY <1>1, <1>7
  <2>2. Elements(<<>>) = {}
    BY DEF Elements
  <2>. QED
    BY <2>1, <2>2 DEF Before
<1>8. ASSUME NEW p \in 1 .. 4, \A u \in 1 .. 4 : u > p => Starts(s, u) = 0
      PROVE  s2.r \subseteq s.r \cup (Before(s.q, p) \cup front(p))
  <2>1. \A u \in 1 .. 4 : u > p => front(u) = {}
    BY <1>1, <1>8
  <2>2. \A u \in 1 .. 4 : u < p => u \in 1 .. p - 1 /\ front(u) \subseteq Elements(s.q[u])
    BY <1>1
  <2>3. \A u \in 1 .. 4 : u < p => front(u) \subseteq Before(s.q, p)
    BY <2>2 DEF Before
  <2>. QED
    BY <1>1, <2>1, <2>3
<1>9. ASSUME NEW P \in some, \A o \in some : o <= P
      PROVE  /\ cr2 + P - 1 <= maxSlots
             /\ \A v \in 1 .. 4 : v <= P => Fits(s2, v)
             /\ \A v \in 1 .. 4 : v > P =>
                   s2.r \cup Before(s2.q, v) \subseteq s.r \cup Before(s.q, v)
  <2>1. P \in 1 .. 4 /\ Starts(s, P) > 0 /\ \A u \in 1 .. 4 : u > P => Starts(s, u) = 0
    <3>1. \A u \in 1 .. 4 : u > P => ~(Starts(s, u) > 0)
      BY <1>9
    <3>. QED
      BY <1>2, <1>9, <3>1
  <2>2. s2.r \subseteq s.r \cup (Before(s.q, P) \cup front(P))
    BY <1>8, <2>1
  <2>3. IsFiniteSet(Before(s.q, P) \cup front(P))
        /\ Cardinality(Before(s.q, P) \cup front(P)) <= n(P) + Starts(s, P)
        /\ Cardinality(Before(s.q, P) \cup front(P)) \in Nat
    <3>1. IsFiniteSet(front(P)) /\ Cardinality(front(P)) = Starts(s, P) /\ IsFiniteSet(Before(s.q, P))
      BY <1>1, <1>4, <2>1
    <3>. QED
      BY <3>1, FiniteUnion
  <2>4. cr2 <= cr + n(P) + Starts(s, P)
    <3>. DEFINE more == Before(s.q, P) \cup front(P)
    <3>. HIDE DEF more
    <3>1. IsFiniteSet(s.r \cup more) /\ Cardinality(s.r \cup more) <= cr + Cardinality(more)
          /\ Cardinality(s.r \cup more) \in Nat
      BY <1>3, <2>3, FiniteUnion DEF more
    <3>2. s2.r \in SUBSET (s.r \cup more)
      BY <2>2 DEF more
    <3>3. cr2 <= Cardinality(s.r \cup more)
      BY <3>1, <3>2, FS_Subset
    <3>4. Cardinality(more) \in Nat /\ Cardinality(more) <= n(P) + Starts(s, P)
          /\ n(P) \in Nat /\ Starts(s, P) \in Nat
      BY <1>2, <1>4, <2>1, <2>3 DEF more
    <3>. HIDE DEF cr, cr2, n
    <3>. QED
      BY <1>3, <3>1, <3>3, <3>4
  <2>5. cr2 + P - 1 <= maxSlots
    <3>1. cr + n(P) + Starts(s, P) + P - 1 <= maxSlots /\ n(P) \in Nat /\ Starts(s, P) \in Nat
      BY <1>2, <1>4, <2>1
    <3>. HIDE DEF cr, cr2, n
    <3>. QED
      BY <1>3, <2>1, <2>4, <3>1
  <2>6. ASSUME NEW v \in 1 .. 4, v <= P  PROVE Fits(s2, v)
    <3>1. \A u \in 1 .. v - 1 : Starts(s, u) = Len(s.q[u])
      BY <1>5, <2>1, <2>6
    <3>2. Before(s2.q, v) = {}
      BY <1>7, <3>1
    <3>3. cr2 + v - 1 <= maxSlots
      <4>. HIDE DEF cr2
      <4>. QED
        BY <1>3, <2>1, <2>5, <2>6
    <3>. QED
      BY <3>2, <3>3 DEF Fits
  <2>7. ASSUME NEW v \in 1 .. 4, v > P
        PROVE  s2.r \cup Before(s2.q, v) \subseteq s.r \cup Before(s.q, v)
    <3>1. Before(s.q, P) \cup Elements(s.q[P]) \subseteq Before(s.q, v)
      <4>1. P < v
        BY <2>1, <2>7
      <4>. QED
        BY <2>1, <4>1, BeforeFacts, Zenon
    <3>2. front(P) \subseteq Elements(s.q[P])
      BY <1>1, <2>1
    <3>. QED
      BY <1>6, <2>2, <3>1, <3>2
  <2>. QED
    BY <2>5, <2>6, <2>7
<1>10. some = {} => s2.r = s.r
  <2>1. some = {} => \A p \in 1 .. 4 : front(p) = {}
    BY <1>1, <1>2
  <2>. QED
    BY <1>1, <2>1
<1>11. some # {} => \E P \in some : \A o \in some : o <= P
  OBVIOUS
<1>. HIDE DEF some
<1>12. ASSUME NEW v \in 1 .. 4
       PROVE  Fits(s2, v) \/ s2.r \cup Before(s2.q, v) \subseteq s.r \cup Before(s.q, v)
  <2>1. CASE some = {}
    BY <1>6, <1>10, <2>1
  <2>2. CASE some # {}
    <3>1. PICK P \in some : \A o \in some : o <= P
      BY <1>11, <2>2
    <3>2. P \in 1 .. 4
      BY DEF some
    <3>3. v <= P \/ v > P
      BY <3>2
    <3>. QED
      BY <1>9, <3>1, <3>3
  <2>. QED
    BY <2>1, <2>2
<1>13. ASSUME NEW x \in s2.r \ s.r  PROVE Fits(s2, pr[x])
  <2>1. PICK p \in 1 .. 4 : x \in front(p)
    BY <1>1, <1>13
  <2>2. Starts(s, p) > 0
    BY <1>1, <1>2, <2>1
  <2>3. pr[x] = p
    BY <1>1, <2>1 DEF Lined
  <2>4. p \in some
    BY <2>2 DEF some
  <2>5. PICK P \in some : \A o \in some : o <= P
    BY <1>11, <2>4
  <2>. QED
    BY <1>9, <2>3, <2>4, <2>5
<1>14. ASSUME NEW v \in 1 .. 4, s2.q[v] # <<>>  PROVE cr2 + v > maxSlots
  <2>. DEFINE left == {p \in 1 .. 4 : s2.q[p] # <<>>}
  <2>1. PICK p \in left : \A o \in left : p <= o
    BY <1>14
  <2>2. p \in 1 .. 4 /\ p <= v /\ \A u \in 1 .. 4 : u < p => s2.q[u] = <<>>
    BY <1>14, <2>1
  <2>3. Starts(s, p) < Len(s.q[p]) /\ Starts(s, p) \in Nat /\ n(p) \in Nat
        /\ cr + n(p) + Starts(s, p) + p > maxSlots
    <3>1. Starts(s, p) # Len(s.q[p])
      BY <1>1, <2>1
    <3>2. Starts(s, p) \in Nat /\ Starts(s, p) <= Len(s.q[p]) /\ Len(s.q[p]) \in Nat
          /\ (Starts(s, p) < Len(s.q[p]) => cr + n(p) + Starts(s, p) + p > maxSlots)
      BY <1>2, <2>2
    <3>3. Starts(s, p) < Len(s.q[p])
      BY <3>1, <3>2
    <3>. QED
      BY <1>4, <2>2, <3>2, <3>3
  <2>4. s.r \cup (Before(s.q, p) \cup front(p)) \subseteq s2.r
    <3>1. ASSUME NEW u \in 1 .. p - 1  PROVE Elements(s.q[u]) \subseteq s2.r
      <4>1. u \in 1 .. 4 /\ s2.q[u] = <<>>
        BY <2>2
      <4>2. Elements(s2.q[u]) = {}
        BY <4>1 DEF Elements
      <4>. QED
        BY <1>1, <4>1, <4>2
    <3>2. Before(s.q, p) \subseteq s2.r
      BY <3>1 DEF Before
    <3>. QED
      BY <1>1, <2>2, <3>2
  <2>5. Before(s.q, p) \cap front(p) = {} /\ s.r \cap (Before(s.q, p) \cup front(p)) = {}
    <3>1. front(p) \subseteq Elements(s.q[p]) /\ front(p) \cap s.r = {}
      BY <1>1, <2>2 DEF Lined
    <3>2. Before(s.q, p) \cap Elements(s.q[p]) = {}
      <4>1. ASSUME NEW x \in Before(s.q, p)  PROVE x \notin Elements(s.q[p])
        <5>1. PICK u \in 1 .. p - 1 : x \in Elements(s.q[u])
          BY <4>1 DEF Before
        <5>2. u \in 1 .. 4 /\ u # p
          BY <2>2
        <5>. QED
          BY <2>2, <5>1, <5>2 DEF Lined
      <4>. QED
        BY <4>1
    <3>. QED
      BY <1>4, <2>2, <3>1, <3>2
  <2>6. cr + n(p) + Starts(s, p) <= cr2
    <3>. DEFINE more == Before(s.q, p) \cup front(p)
    <3>1. IsFiniteSet(more) /\ Cardinality(more) = n(p) + Starts(s, p)
      <4>1. IsFiniteSet(front(p)) /\ Cardinality(front(p)) = Starts(s, p) /\ IsFiniteSet(Before(s.q, p))
        BY <1>1, <1>4, <2>2
      <4>. QED
        BY <2>5, <4>1, FiniteUnion
    <3>2. s.r \cap more = {} /\ s.r \cup more \in SUBSET s2.r
      BY <2>4, <2>5
    <3>. HIDE DEF more
    <3>3. Cardinality(s.r \cup more) = cr + Cardinality(more)
      BY <1>3, <3>1, <3>2, FiniteUnion
    <3>4. Cardinality(s.r \cup more) <= cr2
      BY <1>1, <3>2, FS_Subset
    <3>. HIDE DEF cr, cr2, n
    <3>. QED
      BY <1>3, <2>3, <3>1, <3>3, <3>4
  <2>. HIDE DEF cr, cr2, n
  <2>. QED
    BY <1>3, <2>2, <2>3, <2>6
<1>. QED
  BY <1>12, <1>13, <1>14 DEF s2

\* t joins the line of priority p.
Joined(s, t, p) == [s EXCEPT !.q[p] = Append(@, t)]

\* A task that is nowhere yet joins a line.
LEMMA Joins ==
  ASSUME NEW s, NEW pr, Lined(s, pr), NEW t \in Q!Tasks, pr[t] \in 1 .. 4,
         t \notin s.r, \A u \in 1 .. 4 : t \notin Elements(s.q[u]),
         NEW s1, s1 = Joined(s, t, pr[t])
  PROVE  /\ Lined(s1, pr) /\ s1.r = s.r
         /\ \A u \in 1 .. 4 : u # pr[t] => s1.q[u] = s.q[u]
         /\ Elements(s1.q[pr[t]]) = Elements(s.q[pr[t]]) \cup {t}
         /\ \A v \in 1 .. 4 : Before(s1.q, v) \subseteq Before(s.q, v) \cup {t}
<1>0. PICK p \in 1 .. 4 : p = pr[t]
  OBVIOUS
<1>. DEFINE line == Append(s.q[p], t)
<1>1. s \in QueueStates /\ s.q[p] \in Seq(Q!Tasks) /\ Distinct(s.q[p])
  BY DEF Lined, QueueStates
<1>2. line \in Seq(Q!Tasks) /\ Distinct(line) /\ Elements(line) = Elements(s.q[p]) \cup {t}
  BY <1>1, AppendDistinct
<1>. HIDE DEF line
<1>3. s1 = [q |-> [s.q EXCEPT ![p] = line], r |-> s.r]
  <2>1. s = [q |-> s.q, r |-> s.r]
    BY <1>1 DEF QueueStates
  <2>2. s1 = [s EXCEPT !.q = [s.q EXCEPT ![p] = line]]
    BY <1>0 DEF line, Joined
  <2>. QED
    BY <2>1, <2>2
<1>4. s1.r = s.r /\ s1.q[p] = line /\ \A u \in 1 .. 4 : u # p => s1.q[u] = s.q[u]
  BY <1>1, <1>3 DEF QueueStates
<1>5. s1 \in QueueStates
  BY <1>1, <1>2, <1>3 DEF QueueStates
<1>6. Lined(s1, pr)
  BY <1>0, <1>2, <1>4, <1>5 DEF Lined
<1>7. ASSUME NEW v \in 1 .. 4  PROVE Before(s1.q, v) \subseteq Before(s.q, v) \cup {t}
  <2>1. \A u \in 1 .. v - 1 : u \in 1 .. 4
    OBVIOUS
  <2>2. \A u \in 1 .. v - 1 : Elements(s1.q[u]) \subseteq Elements(s.q[u]) \cup {t}
    BY <1>2, <1>4, <2>1
  <2>. QED
    BY <2>2 DEF Before
<1>. QED
  BY <1>0, <1>2, <1>4, <1>6, <1>7

\* The tasks of a connection.
Placed(s) == s.r \cup UNION {Elements(s.q[p]) : p \in 1 .. 4}

\* Process moves tasks, no more.
LEMMA ProcessPlaces ==
  ASSUME NEW s, NEW pr, Lined(s, pr), maxSlots \in Nat
  PROVE  Placed(Q!Process(s)) = Placed(s)
<1>. DEFINE s2 == Q!Process(s)
<1>1. /\ s.r \subseteq s2.r
      /\ \A p \in 1 .. 4 : /\ Elements(s2.q[p]) \subseteq Elements(s.q[p])
                           /\ Elements(s.q[p]) \subseteq Elements(s2.q[p]) \cup s2.r
      /\ \A x \in s2.r \ s.r : pr[x] \in 1 .. 4 /\ x \in Elements(s.q[pr[x]])
  <2>1. Lined(s2, pr)
    BY ProcessKeeps
  <2>. QED
    BY <2>1, ProcessKeeps DEF Lined
<1>. HIDE DEF s2
<1>. QED
  BY <1>1 DEF Placed, s2

\* A task that is nowhere yet is enqueued.
LEMMA EnqueueKeeps ==
  ASSUME NEW s, NEW pr, Lined(s, pr), maxSlots \in Nat, NEW t \in Q!Tasks,
         pr[t] \in 1 .. 4, t \notin Placed(s)
  PROVE  LET s2 == Q!EnqueueTo(s, t, pr[t])
         IN  /\ Lined(s2, pr) /\ s.r \subseteq s2.r
             /\ Placed(s2) = Placed(s) \cup {t}
             /\ \A v \in 1 .. 4 :
                   \/ Fits(s2, v)
                   \/ s2.r \cup Before(s2.q, v) \subseteq (s.r \cup Before(s.q, v)) \cup {t}
             /\ \A x \in s2.r \ s.r : Fits(s2, pr[x])
             /\ \A v \in 1 .. 4 : s2.q[v] # <<>> => Cardinality(s2.r) + v > maxSlots
<1>1. t \notin s.r /\ \A u \in 1 .. 4 : t \notin Elements(s.q[u])
  BY DEF Placed
<1>2. PICK s1 : s1 = Joined(s, t, pr[t])
  OBVIOUS
<1>3. Lined(s1, pr) /\ s1.r = s.r
  BY <1>2, <1>1, Joins
<1>4. \A u \in 1 .. 4 : u # pr[t] => s1.q[u] = s.q[u]
  BY <1>2, <1>1, Joins
<1>5. Elements(s1.q[pr[t]]) = Elements(s.q[pr[t]]) \cup {t}
  BY <1>2, <1>1, Joins
<1>6. \A v \in 1 .. 4 : Before(s1.q, v) \subseteq Before(s.q, v) \cup {t}
  BY <1>2, <1>1, Joins
<1>. DEFINE s2 == Q!EnqueueTo(s, t, pr[t])
<1>7. s2 = Q!Process(s1)
  BY <1>2 DEF Q!EnqueueTo, Joined
<1>. HIDE DEF s2
<1>8. Lined(s2, pr) /\ s1.r \subseteq s2.r
  BY <1>3, <1>7, ProcessKeeps
<1>9. Placed(s2) = Placed(s1)
  BY <1>3, <1>7, ProcessPlaces
<1>10. /\ \A v \in 1 .. 4 : \/ Fits(s2, v)
                            \/ s2.r \cup Before(s2.q, v) \subseteq s1.r \cup Before(s1.q, v)
       /\ \A x \in s2.r \ s1.r : Fits(s2, pr[x])
       /\ \A v \in 1 .. 4 : s2.q[v] # <<>> => Cardinality(s2.r) + v > maxSlots
  <2>. DEFINE r == Q!Process(s1)
  <2>1. /\ \A v \in 1 .. 4 : \/ Fits(r, v)
                             \/ r.r \cup Before(r.q, v) \subseteq s1.r \cup Before(s1.q, v)
        /\ \A x \in r.r \ s1.r : Fits(r, pr[x])
        /\ \A v \in 1 .. 4 : r.q[v] # <<>> => Cardinality(r.r) + v > maxSlots
    BY <1>3, ProcessFits, Zenon
  <2>. HIDE DEF r
  <2>2. s2 = r
    BY <1>7 DEF r
  <2>. QED
    BY <2>1, <2>2
<1>11. Placed(s1) = Placed(s) \cup {t}
  BY <1>3, <1>4, <1>5 DEF Placed
<1>12. ASSUME NEW v \in 1 .. 4
       PROVE  Fits(s2, v) \/ s2.r \cup Before(s2.q, v) \subseteq (s.r \cup Before(s.q, v)) \cup {t}
  BY <1>3, <1>6, <1>10
<1>13. /\ Lined(s2, pr) /\ s.r \subseteq s2.r
       /\ Placed(s2) = Placed(s) \cup {t}
       /\ \A x \in s2.r \ s.r : Fits(s2, pr[x])
       /\ \A v \in 1 .. 4 : s2.q[v] # <<>> => Cardinality(s2.r) + v > maxSlots
  BY <1>3, <1>8, <1>9, <1>10, <1>11
<1>. QED
  BY <1>12, <1>13, Zenon DEF s2

\* A queue of a connection stays one.
LEMMA EnqueueType ==
  ASSUME NEW s \in QueueStates, NEW t \in Q!Tasks, NEW p \in 1 .. 4
  PROVE  Q!EnqueueTo(s, t, p) \in QueueStates
<1>. DEFINE s1 == Joined(s, t, p)
            line == Append(s.q[p], t)
<1>1. s.q[p] \in Seq(Q!Tasks) /\ s = [q |-> s.q, r |-> s.r]
  BY DEF QueueStates
<1>2. line \in Seq(Q!Tasks)
  BY <1>1, AppendProperties
<1>3. s1 = [s EXCEPT !.q = [s.q EXCEPT ![p] = line]]
  BY DEF Joined
<1>. HIDE DEF line, s1
<1>4. s1 = [q |-> [s.q EXCEPT ![p] = line], r |-> s.r]
  BY <1>1, <1>3
<1>5. s1 \in QueueStates
  BY <1>2, <1>4 DEF QueueStates
<1>6. Q!EnqueueTo(s, t, p) = Q!Process(s1)
  BY DEF Q!EnqueueTo, Joined, s1
<1>. QED
  BY <1>5, <1>6, ProcessIs

\* The queues after the tasks of a set have been enqueued, one by one.
Enqueued(s, subs, p) == Q!FoldSet(LAMBDA u, acc : Q!EnqueueTo(acc, u, p), s, subs)

LEMMA EnqueuedSteps ==
  ASSUME NEW s \in QueueStates, NEW subs \in SUBSET Q!Tasks, IsFiniteSet(subs), NEW p \in 1 .. 4
  PROVE  \E it \in [SUBSET subs -> QueueStates] :
            /\ Enqueued(s, subs, p) = it[subs]
            /\ it[{}] = s
            /\ \A T \in SUBSET subs :
                  T # {} => it[T] = Q!EnqueueTo(it[Rest(T)], Pick(T), p)
<1>. DEFINE Iter(it) == it = [T \in SUBSET subs |->
                               IF T = {} THEN s
                               ELSE LET x == CHOOSE x \in T : TRUE
                                    IN Q!EnqueueTo(it[T \ {x}], x, p)]
            chosen == CHOOSE it : Iter(it)
            h == [ua \in subs \X QueueStates |-> Q!EnqueueTo(ua[2], ua[1], p)]
            Acc == QueueStates
<1>1. Enqueued(s, subs, p) = chosen[subs]
  BY DEF Enqueued, Q!FoldSet, Q!MapThenFoldSet
<1>2. \A x \in subs : \A a \in QueueStates :
        h[<<x, a>>] = Q!EnqueueTo(a, x, p) /\ h[<<x, a>>] \in QueueStates
  BY EnqueueType
<1>3. PICK it \in [SUBSET subs -> QueueStates] :
        \A T \in SUBSET subs : it[T] = FoldStep(it, T, s, h)
  <2>1. Steps(h, subs, Acc)
    BY <1>2 DEF Steps
  <2>. HIDE DEF h, Acc
  <2>2. s \in Acc
    BY DEF Acc
  <2>3. \E it : Folds(it, subs, Acc, s, h)
    BY <2>1, <2>2, FoldExists
  <2>. QED
    BY <2>3 DEF Acc, Folds
<1>4. ASSUME NEW T \in SUBSET subs, T # {}  PROVE Pick(T) \in subs /\ Rest(T) \in SUBSET subs
  BY <1>4 DEF Pick, Rest
<1>5. Iter(it)
  <2>1. ASSUME NEW T \in SUBSET subs, T # {}
        PROVE  it[T] = Q!EnqueueTo(it[Rest(T)], Pick(T), p)
    <3>1. it[T] = h[<<Pick(T), it[Rest(T)]>>]
      BY <1>3, <2>1 DEF FoldStep
    <3>2. Pick(T) \in subs /\ it[Rest(T)] \in QueueStates
      BY <1>3, <1>4, <2>1
    <3>. QED
      BY <1>2, <3>1, <3>2
  <2>2. it[{}] = s
    BY <1>3 DEF FoldStep
  <2>. QED
    BY <1>3, <2>1, <2>2 DEF Pick, Rest
<1>6. Iter(chosen)
  BY <1>5
<1>7. /\ DOMAIN chosen = SUBSET subs
      /\ chosen = [T \in SUBSET subs |-> chosen[T]]
      /\ chosen[{}] = s
      /\ \A T \in SUBSET subs : T # {} => chosen[T] = Q!EnqueueTo(chosen[Rest(T)], Pick(T), p)
  BY <1>6 DEF Pick, Rest
<1>. HIDE DEF chosen
<1>8. \A T \in SUBSET subs : chosen[T] \in QueueStates
  <2>. DEFINE typed == {T \in SUBSET subs : chosen[T] \in QueueStates}
  <2>1. {} \in typed
    BY <1>7
  <2>2. ASSUME NEW T \in SUBSET subs, T # {}, Rest(T) \in typed  PROVE T \in typed
    <3>1. chosen[T] = Q!EnqueueTo(chosen[Rest(T)], Pick(T), p) /\ chosen[Rest(T)] \in QueueStates
      BY <1>7, <2>2
    <3>2. Pick(T) \in Q!Tasks
      BY <1>4, <2>2
    <3>. QED
      BY <3>1, <3>2, EnqueueType
  <2>. HIDE DEF typed
  <2>3. SUBSET subs \subseteq typed
    BY <2>1, <2>2, FoldInduction
  <2>. QED
    BY <2>3 DEF typed
<1>. QED
  BY <1>1, <1>7, <1>8

\* What holds when the tasks of T have been enqueued on s0: x, which started on the
\* way, has left its slots free, but for the tasks enqueued after it.
Growing(s0, s, pr, T) ==
    /\ Lined(s, pr) /\ s0.r \subseteq s.r
    /\ Placed(s) = Placed(s0) \cup T
    /\ \A x \in s.r \ s0.r :
          Cardinality(s.r \cup Before(s.q, pr[x])) + pr[x] <= maxSlots + Cardinality(T)

\* Another task is enqueued.
LEMMA GrowsBy ==
  ASSUME NEW s0, NEW s, NEW pr, NEW T, IsFiniteSet(T), Growing(s0, s, pr, T), maxSlots \in Nat,
         NEW t \in Q!Tasks, pr[t] \in 1 .. 4, t \notin Placed(s0), t \notin T
  PROVE  Growing(s0, Q!EnqueueTo(s, t, pr[t]), pr, T \cup {t})
<1>. DEFINE s2 == Q!EnqueueTo(s, t, pr[t])
            W(z, x) == z.r \cup Before(z.q, pr[x])
<1>1. Lined(s, pr) /\ s0.r \subseteq s.r /\ Placed(s) = Placed(s0) \cup T /\ t \notin Placed(s)
      /\ \A x \in s.r \ s0.r : Cardinality(W(s, x)) + pr[x] <= maxSlots + Cardinality(T)
  BY DEF Growing
<1>2. /\ Lined(s2, pr) /\ s.r \subseteq s2.r
      /\ Placed(s2) = Placed(s) \cup {t}
      /\ \A v \in 1 .. 4 :
            \/ Fits(s2, v)
            \/ s2.r \cup Before(s2.q, v) \subseteq (s.r \cup Before(s.q, v)) \cup {t}
      /\ \A x \in s2.r \ s.r : Fits(s2, pr[x])
  BY <1>1, EnqueueKeeps
<1>. HIDE DEF s2
<1>3. Cardinality(T) \in Nat /\ Cardinality(T \cup {t}) = Cardinality(T) + 1
  BY FS_CardinalityType, FS_AddElement
<1>4. ASSUME NEW z, Lined(z, pr), NEW x, pr[x] \in 1 .. 4
      PROVE  IsFiniteSet(W(z, x)) /\ Cardinality(W(z, x)) \in Nat
  <2>1. IsFiniteSet(z.r) /\ IsFiniteSet(Before(z.q, pr[x]))
    BY <1>4, BeforeFacts DEF Lined
  <2>. QED
    BY <2>1, FiniteUnion
<1>5. ASSUME NEW x \in s2.r \ s0.r
      PROVE  Cardinality(W(s2, x)) + pr[x] <= maxSlots + Cardinality(T \cup {t})
  <2>1. pr[x] \in 1 .. 4
    BY <1>2 DEF Lined
  <2>2. ASSUME Fits(s2, pr[x])  PROVE Cardinality(W(s2, x)) + pr[x] <= maxSlots + 1
    <3>1. W(s2, x) = s2.r /\ Cardinality(s2.r) + pr[x] - 1 <= maxSlots
      BY <2>2 DEF Fits
    <3>2. Cardinality(s2.r) \in Nat
      BY <1>2, FS_CardinalityType DEF Lined
    <3>. DEFINE n == Cardinality(s2.r)
    <3>. HIDE DEF n
    <3>3. n + pr[x] <= maxSlots + 1
      BY <2>1, <3>1, <3>2 DEF n
    <3>. QED
      BY <3>1, <3>3 DEF n
  <2>3. CASE Fits(s2, pr[x])
    <3>1. Cardinality(W(s2, x)) + pr[x] <= maxSlots + 1
      BY <2>2, <2>3
    <3>2. Cardinality(W(s2, x)) \in Nat
      BY <1>2, <1>4, <2>1
    <3>. HIDE DEF W
    <3>. QED
      BY <1>3, <2>1, <3>1, <3>2
  <2>4. CASE ~Fits(s2, pr[x])
    <3>1. x \in s.r \ s0.r
      BY <1>2, <2>4
    <3>2. Cardinality(W(s, x)) + pr[x] <= maxSlots + Cardinality(T)
      BY <1>1, <3>1
    <3>3. W(s2, x) \in SUBSET (W(s, x) \cup {t})
      BY <1>2, <2>1, <2>4
    <3>4. IsFiniteSet(W(s, x)) /\ Cardinality(W(s, x)) \in Nat
      BY <1>1, <1>4, <2>1
    <3>5. IsFiniteSet(W(s2, x)) /\ Cardinality(W(s2, x)) \in Nat
      BY <1>2, <1>4, <2>1
    <3>. HIDE DEF W
    <3>6. IsFiniteSet(W(s, x) \cup {t}) /\ Cardinality(W(s, x) \cup {t}) <= Cardinality(W(s, x)) + 1
          /\ Cardinality(W(s, x) \cup {t}) \in Nat
      <4>1. IsFiniteSet(W(s, x) \cup {t})
            /\ Cardinality(W(s, x) \cup {t}) =
                  IF t \in W(s, x) THEN Cardinality(W(s, x)) ELSE Cardinality(W(s, x)) + 1
        BY <3>4, FS_AddElement
      <4>. QED
        BY <3>4, <4>1
    <3>7. Cardinality(W(s2, x)) <= Cardinality(W(s, x) \cup {t})
      BY <3>3, <3>6, FS_Subset
    <3>. QED
      BY <1>3, <2>1, <3>2, <3>4, <3>5, <3>6, <3>7
  <2>. QED
    BY <2>3, <2>4
<1>6. Placed(s2) = Placed(s0) \cup (T \cup {t})
  BY <1>1, <1>2
<1>. QED
  BY <1>1, <1>2, <1>5, <1>6 DEF Growing, s2

\* All tasks of a set are enqueued.
LEMMA EnqueuedGrows ==
  ASSUME NEW s0, NEW pr, Lined(s0, pr), maxSlots \in Nat, NEW p \in 1 .. 4,
         NEW subs \in SUBSET Q!Tasks, IsFiniteSet(subs),
         \A u \in subs : pr[u] = p /\ u \notin Placed(s0)
  PROVE  Growing(s0, Enqueued(s0, subs, p), pr, subs)
<1>1. PICK it \in [SUBSET subs -> QueueStates] :
        /\ Enqueued(s0, subs, p) = it[subs]
        /\ it[{}] = s0
        /\ \A T \in SUBSET subs : T # {} => it[T] = Q!EnqueueTo(it[Rest(T)], Pick(T), p)
  <2>1. s0 \in QueueStates
    BY DEF Lined
  <2>. QED
    BY <2>1, EnqueuedSteps
<1>. DEFINE grown == {T \in SUBSET subs : Growing(s0, it[T], pr, T)}
<1>2. {} \in grown
  BY <1>1 DEF Growing
<1>3. ASSUME NEW T \in SUBSET subs, T # {}, Rest(T) \in grown  PROVE T \in grown
  <2>1. Pick(T) \in T /\ Pick(T) \notin Rest(T) /\ T = Rest(T) \cup {Pick(T)}
    BY <1>3 DEF Pick, Rest
  <2>. DEFINE u == Pick(T)
              U == Rest(T)
  <2>2. it[T] = Q!EnqueueTo(it[U], u, p) /\ Growing(s0, it[U], pr, U) /\ U \in SUBSET subs
    BY <1>1, <1>3
  <2>3. u \in Q!Tasks /\ pr[u] = p /\ u \notin Placed(s0) /\ u \notin U
    BY <2>1
  <2>. HIDE DEF u, U
  <2>4. IsFiniteSet(U)
    BY <2>2, FS_Subset
  <2>5. Growing(s0, Q!EnqueueTo(it[U], u, pr[u]), pr, U \cup {u})
    BY <2>2, <2>3, <2>4, GrowsBy
  <2>6. Growing(s0, it[T], pr, T)
    BY <2>1, <2>2, <2>3, <2>5 DEF u, U
  <2>. QED
    BY <2>6
<1>. HIDE DEF grown
<1>4. SUBSET subs \subseteq grown
  BY <1>2, <1>3, FoldInduction
<1>. QED
  BY <1>1, <1>4 DEF grown

\* Inductive: a task is in one place at most, with the priority of its line; the keys
\* of the tree stand for tasks.
PreloadInv ==
    /\ Q!TypeOK
    /\ Q!KeysHaveTasks
    /\ \A k \in Connections : Lined(Q!Now(k), priority)
    /\ \A j, k \in Connections : j # k => Placed(Q!Now(j)) \cap Placed(Q!Now(k)) = {}

\* At first nothing is queued.
LEMMA PreloadInit == Q!Init => PreloadInv
<1>. SUFFICES ASSUME Q!Init PROVE PreloadInv
  OBVIOUS
<1>1. \A p \in 1 .. 4 : <<>> \in Seq(Q!Tasks) /\ Distinct(<<>>) /\ Elements(<<>>) = {}
  BY EmptySeq DEF Distinct, Elements
<1>2. \A k \in Connections :
        Q!Now(k).q = [p \in 1 .. 4 |-> <<>>] /\ Q!Now(k).r = {} /\ Q!Now(k) \in QueueStates
  BY <1>1, PriorityFacts DEF Q!Init, Q!Now, QueueStates
<1>3. \A k \in Connections : Lined(Q!Now(k), priority) /\ Placed(Q!Now(k)) = {}
  <2>1. ASSUME NEW k \in Connections
        PROVE  Lined(Q!Now(k), priority) /\ Placed(Q!Now(k)) = {}
    <3>1. \A p \in 1 .. 4 : Q!Now(k).q[p] = <<>>
      BY <1>2
    <3>2. \A p \in 1 .. 4 : Distinct(Q!Now(k).q[p]) /\ Elements(Q!Now(k).q[p]) = {}
      BY <1>1, <3>1
    <3>3. Q!Now(k).r = {} /\ Q!Now(k) \in QueueStates /\ IsFiniteSet({})
      BY <1>2, FS_EmptySet
    <3>. QED
      BY <3>2, <3>3 DEF Lined, Placed
  <2>. QED
    BY <2>1
<1>4. Q!TypeOK
  BY <1>1, PriorityFacts DEF Q!Init, Q!TypeOK
<1>5. Q!KeysHaveTasks
  BY DEF Q!Init, Q!KeysHaveTasks, Q!Tasks
<1>. QED
  BY <1>3, <1>4, <1>5 DEF PreloadInv

\* A task without a priority is nowhere.
LEMMA NowherePlaced ==
  ASSUME PreloadInv, NEW t, priority[t] = 0, NEW k \in Connections
  PROVE  t \notin Placed(Q!Now(k))
<1>1. Lined(Q!Now(k), priority)
  BY DEF PreloadInv
<1>. QED
  BY <1>1 DEF Lined, Placed

\* Of the priorities only those of its own tasks matter to a connection.
LEMMA SamePriorities ==
  ASSUME NEW s, NEW pr, NEW pr2, Lined(s, pr), \A x \in Placed(s) : pr2[x] = pr[x]
  PROVE  Lined(s, pr2)
BY DEF Lined, Placed

\* One connection changes.
LEMMA OneChanges ==
  ASSUME PreloadInv, NEW k \in Connections, NEW s, Q!SetConnection(k, s),
         Lined(s, priority'),
         \A j \in Connections : j # k =>
             /\ Placed(s) \cap Placed(Q!Now(j)) = {}
             /\ \A x \in Placed(Q!Now(j)) : priority'[x] = priority[x]
  PROVE  /\ queue' \in [Connections -> [Q!Priorities -> Seq(Q!Tasks)]]
         /\ running' \in [Connections -> SUBSET Q!Tasks]
         /\ \A j \in Connections : Lined(Q!Now(j)', priority')
         /\ \A i, j \in Connections : i # j => Placed(Q!Now(i)') \cap Placed(Q!Now(j)') = {}
<1>1. s \in QueueStates /\ s.q \in [1 .. 4 -> Seq(Q!Tasks)] /\ s.r \in SUBSET Q!Tasks
      /\ s = [q |-> s.q, r |-> s.r]
  BY DEF Lined, QueueStates
<1>2. queue \in [Connections -> [Q!Priorities -> Seq(Q!Tasks)]]
      /\ running \in [Connections -> SUBSET Q!Tasks]
  BY DEF PreloadInv, Q!TypeOK
<1>3. queue' = [queue EXCEPT ![k] = s.q] /\ running' = [running EXCEPT ![k] = s.r]
  BY DEF Q!SetConnection
<1>4. queue' \in [Connections -> [Q!Priorities -> Seq(Q!Tasks)]]
      /\ running' \in [Connections -> SUBSET Q!Tasks]
  BY <1>1, <1>2, <1>3, PriorityFacts
<1>5. \A j \in Connections : Q!Now(j)' = IF j = k THEN s ELSE Q!Now(j)
  BY <1>1, <1>2, <1>3 DEF Q!Now
<1>6. ASSUME NEW j \in Connections  PROVE Lined(Q!Now(j)', priority')
  <2>1. CASE j = k
    BY <1>5, <2>1
  <2>2. CASE j # k
    <3>1. Lined(Q!Now(j), priority) /\ \A x \in Placed(Q!Now(j)) : priority'[x] = priority[x]
      BY <2>2 DEF PreloadInv
    <3>2. Lined(Q!Now(j), priority')
      BY <3>1, SamePriorities
    <3>. QED
      BY <1>5, <2>2, <3>2
  <2>. QED
    BY <2>1, <2>2
<1>7. ASSUME NEW i \in Connections, NEW j \in Connections, i # j
      PROVE  Placed(Q!Now(i)') \cap Placed(Q!Now(j)') = {}
  <2>1. \A a, b \in Connections : a # b => Placed(Q!Now(a)) \cap Placed(Q!Now(b)) = {}
    BY DEF PreloadInv
  <2>2. \A b \in Connections : b # k => Placed(s) \cap Placed(Q!Now(b)) = {}
    OBVIOUS
  <2>. QED
    BY <1>5, <1>7, <2>1, <2>2
<1>. QED
  BY <1>4, <1>6, <1>7

\* What a step says of the slots.
Reserving ==
    \A k \in Connections : \A t \in running'[k] \ running[k] :
        Cardinality(running'[k]) + priority'[t] - 1 <= maxSlots + Q!Late
Waking ==
    \A k \in Connections :
        queue'[k] # queue[k] \/ running'[k] # running[k] =>
            \A p \in 1 .. 4 : queue'[k][p] # <<>> =>
                ~Q!CanRunAtPriority(p, Cardinality(running'[k]))

\* A task is enqueued, or not once preloading is cancelled.
LEMMA EnqueueStep ==
  ASSUME PreloadInv, NEW k \in Connections, NEW t \in Q!Tasks, NEW p \in 1 .. 4,
         priority[t] = 0, Q!Enqueue(k, t, p), UNCHANGED maxSlots,
         cancelledAll' = cancelledAll, preloadQueue' \subseteq Folders,
         ~cancelledAll => preloadQueue' = preloadQueue \cup ({t} \cap Folders)
  PROVE  PreloadInv' /\ Reserving /\ Waking
<1>1. CASE cancelledAll
  <2>1. UNCHANGED <<queue, running, priority>>
    BY <1>1 DEF Q!Enqueue
  <2>2. Q!TypeOK' /\ Q!KeysHaveTasks'
    BY <1>1, <2>1 DEF PreloadInv, Q!TypeOK, Q!KeysHaveTasks
  <2>3. \A j \in Connections : Q!Now(j)' = Q!Now(j)
    BY <2>1 DEF Q!Now
  <2>. QED
    BY <2>1, <2>2, <2>3 DEF PreloadInv, Reserving, Waking
<1>2. CASE ~cancelledAll
  <2>. DEFINE s == Q!Now(k)
              s2 == Q!EnqueueTo(s, t, p)
  <2>1. Q!SetConnection(k, s2) /\ priority' = [priority EXCEPT ![t] = p]
    BY <1>2 DEF Q!Enqueue
  <2>2. priority \in [Q!Tasks -> 0 .. 4] /\ maxSlots \in Nat /\ Lined(s, priority)
        /\ preloadQueue = {u \in Folders : priority[u] # 0}
    BY <1>2, PriorityFacts DEF PreloadInv, Q!TypeOK, Q!KeysHaveTasks
  <2>3. priority'[t] = p /\ \A x : x # t => priority'[x] = priority[x]
    BY <2>1, <2>2
  <2>4. \A j \in Connections : t \notin Placed(Q!Now(j))
    BY NowherePlaced
  <2>5. Lined(s, priority')
    BY <2>2, <2>3, <2>4, SamePriorities
  <2>. HIDE DEF s2
  <2>6. /\ Lined(s2, priority')
        /\ Placed(s2) = Placed(s) \cup {t}
        /\ \A x \in s2.r \ s.r : Fits(s2, priority'[x])
        /\ \A v \in 1 .. 4 : s2.q[v] # <<>> => Cardinality(s2.r) + v > maxSlots
    <3>1. priority'[t] \in 1 .. 4 /\ t \notin Placed(s)
      BY <2>3, <2>4
    <3>2. s2 = Q!EnqueueTo(s, t, priority'[t])
      BY <2>3 DEF s2
    <3>. HIDE DEF s
    <3>. QED
      BY <2>2, <2>5, <3>1, <3>2, EnqueueKeeps
  <2>7. /\ queue' \in [Connections -> [Q!Priorities -> Seq(Q!Tasks)]]
        /\ running' \in [Connections -> SUBSET Q!Tasks]
        /\ \A j \in Connections : Lined(Q!Now(j)', priority')
        /\ \A i, j \in Connections : i # j => Placed(Q!Now(i)') \cap Placed(Q!Now(j)') = {}
    <3>1. \A j \in Connections : j # k => Placed(Q!Now(k)) \cap Placed(Q!Now(j)) = {}
      BY DEF PreloadInv
    <3>2. \A j \in Connections : j # k =>
            /\ Placed(s2) \cap Placed(Q!Now(j)) = {}
            /\ \A x \in Placed(Q!Now(j)) : priority'[x] = priority[x]
      BY <2>3, <2>4, <2>6, <3>1
    <3>3. Lined(s2, priority')
      BY <2>6
    <3>. HIDE DEF s
    <3>. QED
      BY <2>1, <3>2, <3>3, OneChanges
  <2>8. Q!TypeOK'
    <3>1. priority' \in [Q!Tasks -> Q!Priorities \cup {0}]
      BY <2>1, PriorityFacts DEF PreloadInv, Q!TypeOK
    <3>. QED
      BY <2>7, <3>1 DEF PreloadInv, Q!TypeOK
  <2>9. Q!KeysHaveTasks'
    <3>1. preloadQueue' = {u \in Folders : priority'[u] # 0}
      BY <1>2, <2>2, <2>3
    <3>. QED
      BY <3>1 DEF Q!KeysHaveTasks
  <2>10. \A j \in Connections : /\ queue'[j] = IF j = k THEN s2.q ELSE queue[j]
                                /\ running'[j] = IF j = k THEN s2.r ELSE running[j]
    BY <2>1 DEF Q!SetConnection, PreloadInv, Q!TypeOK
  <2>11. Reserving
    <3>1. Q!Late = 0
      <4>. DEFINE new == {u \in Q!Tasks : priority[u] = 0 /\ priority'[u] # 0}
      <4>1. new = {t}
        BY <2>3
      <4>2. Cardinality(new) = 1
        BY <4>1, FS_Singleton
      <4>. QED
        BY <4>2, SameSets DEF Q!Late
    <3>2. s.r = running[k]
      BY DEF Q!Now
    <3>3. ASSUME NEW j \in Connections, NEW x \in running'[j] \ running[j]
          PROVE  Cardinality(running'[j]) + priority'[x] - 1 <= maxSlots
      <4>1. j = k /\ running'[j] = s2.r /\ x \in s2.r \ s.r
        BY <2>10, <3>2, <3>3
      <4>. QED
        BY <2>6, <4>1 DEF Fits
    <3>. QED
      BY <2>2, <3>1, <3>3 DEF Reserving
  <2>12. Waking
    <3>1. ASSUME NEW v \in 1 .. 4, s2.q[v] # <<>>
          PROVE  ~Q!CanRunAtPriority(v, Cardinality(s2.r))
      <4>1. Cardinality(s2.r) + v > maxSlots /\ Cardinality(s2.r) \in Nat
        BY <2>6, <3>1, FS_CardinalityType DEF Lined
      <4>. QED
        BY <2>2, <4>1 DEF Q!CanRunAtPriority
    <3>. QED
      BY <2>10, <3>1 DEF Waking
  <2>. QED
    BY <2>7, <2>8, <2>9, <2>11, <2>12 DEF PreloadInv
<1>. QED
  BY <1>1, <1>2

\* A running task leaves.
LEMMA SlotBack ==
  ASSUME NEW s, NEW pr, NEW t, Lined(s, pr), t \in s.r,
         NEW s1, s1 \in QueueStates, s1.r = s.r \ {t}, s1.q = s.q
  PROVE  Lined(s1, pr) /\ Placed(s1) = Placed(s) \ {t}
<1>1. IsFiniteSet(s1.r)
  BY FS_RemoveElement DEF Lined
<1>2. \A p \in 1 .. 4 : t \notin Elements(s.q[p])
  BY DEF Lined
<1>. QED
  BY <1>1, <1>2 DEF Lined, Placed

\* A task ends, after it has enqueued subdirectories.
LEMMA FinishStep ==
  ASSUME PreloadInv, NEW k \in Connections, NEW t \in Q!Tasks,
         NEW subs \in SUBSET Folders, IsFiniteSet(subs), Q!Finish(k, t, subs)
  PROVE  PreloadInv' /\ Reserving /\ Waking
<1>. DEFINE s0 == Q!Now(k)
            p == Q!SubPriority(priority[t])
            s == Enqueued(s0, subs, p)
            pr == [u \in Q!Tasks |-> IF u \in subs THEN p ELSE priority[u]]
<1>1. /\ t \in running[k] /\ \A u \in subs : u \notin preloadQueue /\ priority[u] = 0
      /\ Q!SetConnection(k, Q!Process([s EXCEPT !.r = @ \ {t}]))
      /\ priority' = [u \in Q!Tasks |-> IF u = t THEN 0 ELSE IF u \in subs THEN p ELSE priority[u]]
      /\ preloadQueue' = (preloadQueue \cup subs) \ {t}
      /\ UNCHANGED <<cancelledAll, maxSlots>>
  BY DEF Q!Finish, Q!Preloadable, Enqueued
<1>2. /\ priority \in [Q!Tasks -> 0 .. 4] /\ maxSlots \in Nat /\ Lined(s0, priority)
      /\ s0.r = running[k] /\ subs \subseteq Q!Tasks
  BY PriorityFacts DEF PreloadInv, Q!TypeOK, Q!Now, Q!Tasks
<1>3. priority[t] \in 1 .. 4 /\ t \notin subs /\ p \in 1 .. 4
  <2>1. priority[t] \in 1 .. 4
    BY <1>1, <1>2 DEF Lined
  <2>. QED
    BY <1>1, <2>1 DEF Q!SubPriority, Q!IDLE
<1>. HIDE DEF p, s, s0
<1>4. \A j \in Connections : \A u \in subs : u \notin Placed(Q!Now(j))
  BY <1>1, NowherePlaced
<1>5. /\ \A u \in subs : pr[u] = p
      /\ \A x \in Q!Tasks \ subs : pr[x] = priority[x]
      /\ \A x \in Q!Tasks : x # t => priority'[x] = pr[x]
      /\ priority'[t] = 0
  BY <1>1, <1>2
<1>6. \A j \in Connections : Placed(Q!Now(j)) \subseteq Q!Tasks
  <2>1. ASSUME NEW j \in Connections, NEW x \in Placed(Q!Now(j))  PROVE x \in Q!Tasks
    <3>1. Q!Now(j) \in QueueStates
      BY DEF PreloadInv, Lined
    <3>2. Q!Now(j).r \subseteq Q!Tasks /\ \A v \in 1 .. 4 : Q!Now(j).q[v] \in Seq(Q!Tasks)
      BY <3>1 DEF QueueStates
    <3>3. \A v \in 1 .. 4 : \A i \in 1 .. Len(Q!Now(j).q[v]) : Q!Now(j).q[v][i] \in Q!Tasks
      BY <3>2, ElementOfSeq
    <3>. QED
      BY <2>1, <3>2, <3>3 DEF Placed, Elements
  <2>. QED
    BY <2>1
<1>. HIDE DEF pr
<1>7. Lined(s0, pr)
  <2>1. \A x \in Placed(s0) : pr[x] = priority[x]
    BY <1>4, <1>5, <1>6 DEF s0
  <2>. QED
    BY <1>2, <2>1, SamePriorities
<1>8. Growing(s0, s, pr, subs)
  <2>1. \A u \in subs : pr[u] = p /\ u \notin Placed(s0)
    BY <1>4, <1>5 DEF s0
  <2>. QED
    BY <1>2, <1>3, <1>7, <2>1, EnqueuedGrows DEF s
<1>9. /\ Lined(s, pr) /\ s0.r \subseteq s.r /\ Placed(s) = Placed(s0) \cup subs /\ t \in s.r
      /\ \A x \in s.r \ s0.r :
            Cardinality(s.r \cup Before(s.q, pr[x])) + pr[x] <= maxSlots + Cardinality(subs)
  BY <1>1, <1>2, <1>8 DEF Growing
<1>10. PICK s1 : s1 = [s EXCEPT !.r = @ \ {t}]
  OBVIOUS
<1>11. /\ Lined(s1, pr) /\ s1.r = s.r \ {t} /\ s1.q = s.q
       /\ Placed(s1) = Placed(s) \ {t}
       /\ \A v \in 1 .. 4 :
             /\ IsFiniteSet(s1.r \cup Before(s1.q, v))
             /\ Cardinality(s1.r \cup Before(s1.q, v)) \in Nat
             /\ Cardinality(s.r \cup Before(s.q, v))
                  = Cardinality(s1.r \cup Before(s1.q, v)) + 1
  <2>1. s1 \in QueueStates /\ s1.r = s.r \ {t} /\ s1.q = s.q
    BY <1>9, <1>10 DEF Lined, QueueStates
  <2>2. Lined(s, pr) /\ t \in s.r
    BY <1>9
  <2>3. Lined(s1, pr) /\ Placed(s1) = Placed(s) \ {t}
    BY <2>1, <2>2, SlotBack
  <2>4. ASSUME NEW v \in 1 .. 4
        PROVE  /\ IsFiniteSet(s1.r \cup Before(s1.q, v))
               /\ Cardinality(s1.r \cup Before(s1.q, v)) \in Nat
               /\ Cardinality(s.r \cup Before(s.q, v))
                    = Cardinality(s1.r \cup Before(s1.q, v)) + 1
    <3>. DEFINE W == s.r \cup Before(s.q, v)
                W1 == s1.r \cup Before(s1.q, v)
    <3>1. IsFiniteSet(Before(s.q, v)) /\ Before(s.q, v) \cap s.r = {}
      BY <2>2, BeforeFacts
    <3>2. IsFiniteSet(s1.r)
      BY <2>1, <2>2, FS_RemoveElement DEF Lined
    <3>3. IsFiniteSet(W1) /\ Cardinality(W1) \in Nat
      BY <2>1, <3>1, <3>2, FiniteUnion
    <3>4. W = W1 \cup {t} /\ t \notin W1
      BY <2>1, <2>2, <3>1
    <3>. HIDE DEF W, W1
    <3>5. Cardinality(W) = Cardinality(W1) + 1
      BY <3>3, <3>4, FS_AddElement
    <3>. QED
      BY <3>3, <3>5 DEF W, W1
  <2>. QED
    BY <2>1, <2>3, <2>4
<1>12. Lined(s1, priority')
  <2>1. \A x \in Placed(s1) : priority'[x] = pr[x]
    BY <1>2, <1>5, <1>6, <1>9, <1>11 DEF s0
  <2>. QED
    BY <1>11, <2>1, SamePriorities
<1>. DEFINE s2 == Q!Process(s1)
<1>13. Q!SetConnection(k, s2)
  BY <1>1, <1>10
<1>14. Lined(s2, priority') /\ s1.r \subseteq s2.r /\ Placed(s2) = Placed(s1)
  BY <1>2, <1>12, ProcessKeeps, ProcessPlaces
<1>15. /\ \A v \in 1 .. 4 : \/ Fits(s2, v)
                            \/ s2.r \cup Before(s2.q, v) \subseteq s1.r \cup Before(s1.q, v)
       /\ \A x \in s2.r \ s1.r : Fits(s2, priority'[x])
       /\ \A v \in 1 .. 4 : s2.q[v] # <<>> => Cardinality(s2.r) + v > maxSlots
  BY <1>2, <1>12, ProcessFits
<1>. HIDE DEF s2
<1>16. /\ queue' \in [Connections -> [Q!Priorities -> Seq(Q!Tasks)]]
       /\ running' \in [Connections -> SUBSET Q!Tasks]
       /\ \A j \in Connections : Lined(Q!Now(j)', priority')
       /\ \A i, j \in Connections : i # j => Placed(Q!Now(i)') \cap Placed(Q!Now(j)') = {}
  <2>1. t \in Placed(Q!Now(k))
    BY <1>1, <1>2 DEF Placed, s0
  <2>2. ASSUME NEW j \in Connections, j # k
        PROVE  /\ Placed(s2) \cap Placed(Q!Now(j)) = {}
               /\ \A x \in Placed(Q!Now(j)) : priority'[x] = priority[x]
    <3>1. Placed(Q!Now(k)) \cap Placed(Q!Now(j)) = {}
      BY <2>2 DEF PreloadInv
    <3>2. Placed(s2) \subseteq Placed(Q!Now(k)) \cup subs
      BY <1>9, <1>11, <1>14 DEF s0
    <3>3. \A x \in Placed(Q!Now(j)) : x # t /\ x \notin subs /\ x \in Q!Tasks
      BY <1>4, <1>6, <2>1, <3>1
    <3>. QED
      BY <1>5, <3>1, <3>2, <3>3
  <2>. QED
    BY <1>13, <1>14, <2>2, OneChanges
<1>17. Q!TypeOK'
  <2>1. priority' \in [Q!Tasks -> Q!Priorities \cup {0}]
    <3>1. \A u \in Q!Tasks : priority[u] \in 0 .. 4
      BY <1>2
    <3>. QED
      BY <1>1, <1>3, <3>1, PriorityFacts
  <2>. QED
    BY <1>1, <1>16, <2>1 DEF PreloadInv, Q!TypeOK
<1>18. Q!KeysHaveTasks'
  <2>1. ~cancelledAll => preloadQueue = {u \in Folders : priority[u] # 0}
    BY DEF PreloadInv, Q!KeysHaveTasks
  <2>2. ASSUME ~cancelledAll  PROVE preloadQueue' = {u \in Folders : priority'[u] # 0}
    <3>1. Folders \subseteq Q!Tasks
      BY DEF Q!Tasks
    <3>2. \A u \in Folders : priority'[u] # 0 <=> u # t /\ (u \in subs \/ priority[u] # 0)
      BY <1>3, <1>5, <3>1
    <3>. QED
      BY <1>1, <2>1, <2>2, <3>2
  <2>. QED
    BY <1>1, <2>2 DEF Q!KeysHaveTasks
<1>19. \A j \in Connections : /\ queue'[j] = IF j = k THEN s2.q ELSE queue[j]
                              /\ running'[j] = IF j = k THEN s2.r ELSE running[j]
  BY <1>13 DEF Q!SetConnection, PreloadInv, Q!TypeOK
<1>20. IsFiniteSet(s2.r) /\ Cardinality(s2.r) \in Nat /\ Cardinality(subs) \in Nat
  BY <1>14, FS_CardinalityType DEF Lined
<1>21. Reserving
  <2>1. Q!Late = IF Cardinality(subs) > 2 THEN Cardinality(subs) - 2 ELSE 0
    <3>. DEFINE new == {u \in Q!Tasks : priority[u] = 0 /\ priority'[u] # 0}
    <3>1. new = subs
      BY <1>1, <1>2, <1>3, <1>5
    <3>. QED
      BY <3>1, SameSets DEF Q!Late
  <2>2. ASSUME NEW x \in s2.r \ s0.r
        PROVE  Cardinality(s2.r) + priority'[x] - 1 <= maxSlots + Q!Late
    <3>1. priority'[x] \in 1 .. 4
      BY <1>14 DEF Lined
    <3>2. CASE Fits(s2, priority'[x])
      BY <1>2, <1>20, <2>1, <3>1, <3>2 DEF Fits
    <3>3. CASE ~Fits(s2, priority'[x])
      <4>1. x \in s1.r /\ x \in s.r \ s0.r
        BY <1>11, <1>15, <3>3
      <4>2. priority'[x] = pr[x]
        BY <1>2, <1>5, <1>6, <1>9, <1>11, <4>1 DEF Placed, s0
      <4>. DEFINE W == s.r \cup Before(s.q, pr[x])
                  W1 == s1.r \cup Before(s1.q, pr[x])
      <4>3. Cardinality(W) + pr[x] <= maxSlots + Cardinality(subs)
        BY <1>9, <4>1
      <4>4. IsFiniteSet(W1) /\ Cardinality(W1) \in Nat /\ Cardinality(W) = Cardinality(W1) + 1
        BY <1>11, <3>1, <4>2
      <4>5. s2.r \in SUBSET W1
        BY <1>15, <3>1, <3>3, <4>2
      <4>. HIDE DEF W, W1
      <4>6. Cardinality(s2.r) <= Cardinality(W1)
        BY <4>4, <4>5, FS_Subset
      <4>7. Cardinality(s2.r) + pr[x] - 1 <= maxSlots + Cardinality(subs) - 2
        BY <1>2, <1>20, <3>1, <4>2, <4>3, <4>4, <4>6
      <4>. QED
        BY <1>2, <1>20, <2>1, <3>1, <4>2, <4>7
    <3>. QED
      BY <3>2, <3>3
  <2>. QED
    BY <1>2, <1>19, <2>2 DEF Reserving
<1>22. Waking
  <2>1. ASSUME NEW v \in 1 .. 4, s2.q[v] # <<>>
        PROVE  ~Q!CanRunAtPriority(v, Cardinality(s2.r))
    BY <1>2, <1>15, <1>20, <2>1 DEF Q!CanRunAtPriority
  <2>. QED
    BY <1>19, <2>1 DEF Waking
<1>. QED
  BY <1>16, <1>17, <1>18, <1>21, <1>22 DEF PreloadInv

\* The queues are emptied; what runs goes on.
LEMMA CancelStep == PreloadInv /\ Q!CancelPreloading => PreloadInv' /\ Reserving /\ Waking
<1>. SUFFICES ASSUME PreloadInv, Q!CancelPreloading PROVE PreloadInv' /\ Reserving /\ Waking
  OBVIOUS
<1>1. /\ cancelledAll' = TRUE /\ preloadQueue' = {} /\ UNCHANGED <<running, maxSlots>>
      /\ queue' = [k \in Connections |-> [p \in 1 .. 4 |-> <<>>]]
      /\ priority' = [t \in Q!Tasks |-> IF t \in Q!Queued THEN 0 ELSE priority[t]]
  BY PriorityFacts DEF Q!CancelPreloading
<1>2. \A p \in 1 .. 4 : <<>> \in Seq(Q!Tasks) /\ Distinct(<<>>) /\ Elements(<<>>) = {}
  BY EmptySeq DEF Distinct, Elements
<1>3. \A k \in Connections : \A p \in 1 .. 4 : Q!ToSet(queue[k][p]) = Elements(queue[k][p])
  BY SameSets, PriorityFacts DEF PreloadInv, Q!TypeOK
<1>4. ASSUME NEW k \in Connections, NEW t \in running[k]
      PROVE  t \in Q!Tasks /\ priority'[t] = priority[t] /\ priority[t] \in 1 .. 4
  <2>1. t \in Q!Tasks
    BY <1>4 DEF PreloadInv, Q!TypeOK
  <2>2. Lined(Q!Now(k), priority) /\ Q!Now(k).r = running[k] /\ t \in Placed(Q!Now(k))
    BY <1>4 DEF PreloadInv, Q!Now, Placed
  <2>3. ASSUME NEW j \in Connections, NEW p \in 1 .. 4  PROVE t \notin Elements(queue[j][p])
    <3>1. Q!Now(j).q[p] = queue[j][p]
      BY DEF Q!Now
    <3>2. CASE j = k
      BY <1>4, <2>2, <3>1, <3>2 DEF Lined
    <3>3. CASE j # k
      <4>1. t \notin Placed(Q!Now(j))
        BY <2>2, <3>3 DEF PreloadInv
      <4>. QED
        BY <3>1, <4>1 DEF Placed
    <3>. QED
      BY <3>2, <3>3
  <2>4. t \notin Q!Queued
    BY <1>3, <2>3, PriorityFacts DEF Q!Queued, Q!QueuedOn
  <2>. QED
    BY <1>1, <1>4, <2>1, <2>2, <2>4 DEF Lined
<1>5. \A k \in Connections :
        /\ Q!Now(k)'.r = running[k] /\ Q!Now(k)'.q = [p \in 1 .. 4 |-> <<>>]
        /\ Q!Now(k)' \in QueueStates
  <2>1. running \in [Connections -> SUBSET Q!Tasks]
    BY DEF PreloadInv, Q!TypeOK
  <2>. QED
    BY <1>1, <1>2, <2>1 DEF Q!Now, QueueStates
<1>6. ASSUME NEW k \in Connections
      PROVE  Lined(Q!Now(k)', priority') /\ Placed(Q!Now(k)') \subseteq Placed(Q!Now(k))
  <2>1. \A p \in 1 .. 4 : Distinct(Q!Now(k)'.q[p]) /\ Elements(Q!Now(k)'.q[p]) = {}
    BY <1>2, <1>5
  <2>2. IsFiniteSet(running[k]) /\ Q!Now(k).r = running[k]
    BY DEF PreloadInv, Lined, Q!Now
  <2>3. Lined(Q!Now(k)', priority')
    BY <1>4, <1>5, <2>1, <2>2 DEF Lined
  <2>. QED
    BY <1>5, <2>1, <2>2, <2>3 DEF Placed
<1>7. \A i, j \in Connections : i # j => Placed(Q!Now(i)') \cap Placed(Q!Now(j)') = {}
  BY <1>6 DEF PreloadInv
<1>8. Q!TypeOK'
  BY <1>1, <1>2, PriorityFacts DEF PreloadInv, Q!TypeOK
<1>9. Q!KeysHaveTasks' /\ Reserving /\ Waking
  BY <1>1 DEF Q!KeysHaveTasks, Reserving, Waking
<1>. QED
  BY <1>6, <1>7, <1>8, <1>9 DEF PreloadInv

\* Nothing changes but the number of slots.
LEMMA SameQueues ==
  ASSUME PreloadInv, UNCHANGED <<queue, running, priority, cancelledAll, preloadQueue>>,
         maxSlots' \in SlotChoices
  PROVE  PreloadInv' /\ Reserving /\ Waking
<1>1. Q!TypeOK' /\ Q!KeysHaveTasks' /\ \A k \in Connections : Q!Now(k)' = Q!Now(k)
  BY DEF PreloadInv, Q!TypeOK, Q!KeysHaveTasks, Q!Now
<1>. QED
  BY <1>1 DEF PreloadInv, Reserving, Waking

\* Every step keeps the queues in order, leaves the reserved slots free and starts what
\* may run.
LEMMA PreloadStep == PreloadInv /\ [Q!Next]_qVars => PreloadInv' /\ Reserving /\ Waking
<1>. SUFFICES ASSUME PreloadInv, [Q!Next]_qVars PROVE PreloadInv' /\ Reserving /\ Waking
  OBVIOUS
<1>. USE DEF PreloadInv
<1>1. CASE UNCHANGED qVars
  <2>1. UNCHANGED <<queue, running, priority, cancelledAll, preloadQueue>> /\ maxSlots' \in SlotChoices
    BY <1>1 DEF qVars, Q!TypeOK
  <2>. QED
    BY <2>1, SameQueues
<1>2. CASE Q!UpdateConfig
  BY <1>2, SameQueues DEF Q!UpdateConfig
<1>3. CASE Q!CancelPreloading
  BY <1>3, CancelStep
<1>4. preloadQueue \subseteq Folders /\ Folders \subseteq Q!Tasks /\ Background \subseteq Q!Tasks
      /\ Folders \cap Background = {}
  BY ConstantsAssumption
  DEF ConstantsAssumption, Q!TasksAssumption, Q!TypeOK, Q!Tasks
<1>5. ASSUME NEW k \in Connections, NEW t \in Q!Tasks, Q!PreloadParentFolder(k, t)
      PROVE  PreloadInv' /\ Reserving /\ Waking
  <2>1. /\ t \in Folders /\ priority[t] = 0 /\ preloadQueue' = preloadQueue \cup {t}
        /\ Q!Enqueue(k, t, 1) /\ UNCHANGED <<cancelledAll, maxSlots>>
    BY <1>5 DEF Q!PreloadParentFolder, Q!Preloadable, Q!HIGH
  <2>. QED
    BY <1>4, <2>1, EnqueueStep
<1>6. ASSUME NEW k \in Connections, NEW t \in Q!Tasks, Q!PreloadFrequentFolder(k, t)
      PROVE  PreloadInv' /\ Reserving /\ Waking
  <2>1. /\ t \in Folders /\ priority[t] = 0 /\ preloadQueue' = preloadQueue \cup {t}
        /\ Q!Enqueue(k, t, 2) /\ UNCHANGED <<cancelledAll, maxSlots>>
    BY <1>6 DEF Q!PreloadFrequentFolder, Q!Preloadable, Q!MEDIUM
  <2>. QED
    BY <1>4, <2>1, EnqueueStep
<1>7. ASSUME NEW k \in Connections, NEW t \in Q!Tasks, NEW p \in Q!Priorities,
             Q!PreloadSubdirectory(k, t, p)
      PROVE  PreloadInv' /\ Reserving /\ Waking
  <2>1. /\ t \in Folders /\ priority[t] = 0 /\ preloadQueue' = preloadQueue \cup {t}
        /\ Q!Enqueue(k, t, p) /\ UNCHANGED <<cancelledAll, maxSlots>> /\ p \in 1 .. 4
    BY <1>7, PriorityFacts DEF Q!PreloadSubdirectory, Q!Preloadable, Q!ResetConnection
  <2>. QED
    BY <1>4, <2>1, EnqueueStep
<1>8. ASSUME NEW k \in Connections, NEW t \in Q!Tasks, NEW p \in Q!Priorities,
             Q!EnqueueBackground(k, t, p)
      PROVE  PreloadInv' /\ Reserving /\ Waking
  <2>1. /\ t \in Background /\ priority[t] = 0 /\ preloadQueue' = preloadQueue
        /\ Q!Enqueue(k, t, p) /\ UNCHANGED <<cancelledAll, maxSlots>> /\ p \in 1 .. 4
    BY <1>8, PriorityFacts DEF Q!EnqueueBackground
  <2>. QED
    BY <1>4, <2>1, EnqueueStep
<1>9. ASSUME NEW k \in Connections, NEW t \in Q!Tasks, Q!FinishSome(k, t)
      PROVE  PreloadInv' /\ Reserving /\ Waking
  <2>1. PICK subs \in SUBSET Folders : IsFiniteSet(subs) /\ Q!Finish(k, t, subs)
    BY <1>9, SameSets DEF Q!FinishSome
  <2>. QED
    BY <2>1, FinishStep
<1>. QED
  BY <1>1, <1>2, <1>3, <1>5, <1>6, <1>7, <1>8, <1>9 DEF Q!Next
------------------------------------------------------------------------------
(* The run *)

\* Every step of the run is a step of at most one component.
LEMMA OneComponent ==
  ASSUME [Next]_vars
  PROVE  [C!Next]_cVars /\ [G!Next]_gVars /\ [Q!Next]_qVars /\ component' = component
BY DEF Next, vars

\* ChannelSemaphore counts the slots that are held, queues those that wait and
\* leaves nobody waiting beside a free slot, for any number of callers, any ceiling
\* and any number of successes that raise it.
THEOREM Slots == Spec => []SlotsTrue
<1>1. Init => SemaphoreInv
  BY SemaphoreInit DEF Init
<1>2. SemaphoreInv /\ [Next]_vars => SemaphoreInv'
  BY SemaphoreStep, OneComponent
<1>3. SemaphoreInv => SlotsTrue
  BY DEF SemaphoreInv, SlotsTrue
<1>. QED
  BY <1>1, <1>2, <1>3, PTL DEF Spec

\* CommandGuard loses no slot of the live semaphore, and no activity outlives its
\* command, for any number of calls, semaphores and retries.
THEOREM Guard == Spec => []GuardTrue
<1>1. Init => GuardInv
  BY GuardInit DEF Init
<1>2. GuardInv /\ [Next]_vars => GuardInv'
  BY GuardStep, OneComponent
<1>3. GuardInv => GuardTrue
  BY GuardTrueFollows
<1>. QED
  BY <1>1, <1>2, <1>3, PTL DEF Spec

\* The variables of the semaphore, of the guard and of the preloading queues have
\* their types, and a key of FileTreeProvider stands for a task that is queued or
\* runs, for any number of folders, connections and slots.
THEOREM QueueTypes == Spec => []TypesOK
<1>. DEFINE Inv == SemaphoreInv /\ GuardInv /\ PreloadInv
<1>1. Init => Inv
  BY SemaphoreInit, GuardInit, PreloadInit DEF Init
<1>2. Inv /\ [Next]_vars => Inv'
  BY SemaphoreStep, GuardStep, PreloadStep, OneComponent
<1>3. Inv => TypesOK
  BY GuardTrueFollows DEF SemaphoreInv, PreloadInv, TypesOK
<1>. QED
  BY <1>1, <1>2, <1>3, PTL DEF Spec

\* PriorityQueueService starts no task that would take a slot reserved for more
\* urgent ones, and after every event leaves nothing queued that may run: for any
\* number of tasks, connections and slots, and any of the subdirectories, which one
\* step queues together, in any order.
THEOREM SlotsReserved == Spec => ReservedSlots
<1>1. Init => PreloadInv
  BY PreloadInit DEF Init
<1>2. PreloadInv /\ [Next]_vars => PreloadInv' /\ Reserving /\ Waking
  BY PreloadStep, OneComponent
<1>3. Reserving => [\A k \in Connections : \A t \in running'[k] \ running[k] :
        Q!Cardinality(running'[k]) + priority'[t] - 1 <= maxSlots + Q!Late]_Q!vars
  BY SameSets DEF Reserving
<1>4. Waking => [\A k \in Connections :
        queue'[k] # queue[k] \/ running'[k] # running[k] =>
            \A p \in Q!Priorities :
                queue'[k][p] # <<>> =>
                    ~Q!CanRunAtPriority(p, Q!Cardinality(running'[k]))]_Q!vars
  BY SameSets, PriorityFacts DEF Waking
<1>. QED
  BY <1>1, <1>2, <1>3, <1>4, PTL DEF Spec, ReservedSlots, Q!ReservedSlots, Q!NothingRunnableLeft
==============================================================================
