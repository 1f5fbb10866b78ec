------------------------ MODULE GlobalDispatcherProofs ------------------------
(***************************************************************************)
(* Proofs about GlobalDispatcher, for pools of any size, any number of     *)
(* callers, operations and priorities, and batches of any length.          *)
(***************************************************************************)
EXTENDS GlobalDispatcher, FiniteSetTheorems, FunctionTheorems,
        SequenceTheorems, TLAPS

\* The invariant that the steps keep: nothing but the books of the pool, and
\* that each operation is queued at one place, so that a batch makes the queues
\* longer, and a fetch shorter, by what the notifications count.
PoolInv == TypeOK /\ QueuedOnce /\ WakeupsCoverWork /\ PoolIsCounted

\* Threads, and sets of threads, counted.
LEMMA CountPool ==
    ASSUME NEW S \in SUBSET Pool
    PROVE  /\ IsFiniteSet(S)
           /\ Cardinality(S) \in Nat
           /\ Cardinality(S) = 0 <=> S = {}
           /\ \A t \in Pool :
                /\ t \notin S => Cardinality(S \cup {t}) = Cardinality(S) + 1
                /\ t \in S => Cardinality(S \ {t}) = Cardinality(S) - 1
           /\ \A T \in SUBSET Pool :
                S \cap T = {} => Cardinality(S \cup T) = Cardinality(S) + Cardinality(T)
<1>1. IsFiniteSet(S)
  BY DispatcherAssumption, FS_Subset
<1>2. Cardinality(S) \in Nat /\ (Cardinality(S) = 0 <=> S = {})
  BY <1>1, FS_CardinalityType, FS_EmptySet
<1>3. ASSUME NEW t \in Pool
      PROVE  /\ t \notin S => Cardinality(S \cup {t}) = Cardinality(S) + 1
             /\ t \in S => Cardinality(S \ {t}) = Cardinality(S) - 1
  BY <1>1, FS_AddElement, FS_RemoveElement
<1>4. ASSUME NEW T \in SUBSET Pool, S \cap T = {}
      PROVE  Cardinality(S \cup T) = Cardinality(S) + Cardinality(T)
  <2>1. IsFiniteSet(T) /\ Cardinality(T) \in Nat
    BY DispatcherAssumption, FS_Subset, FS_CardinalityType
  <2>2. Cardinality(S \cup T) = Cardinality(S) + Cardinality(T) - Cardinality(S \cap T)
    BY <1>1, <2>1, FS_Union
  <2>3. Cardinality(S \cap T) = 0
    BY <1>4, FS_EmptySet
  <2>4. QED
    BY <1>2, <2>1, <2>2, <2>3
<1>5. QED
  BY <1>1, <1>2, <1>3, <1>4

\* What a queue without repetition keeps when its first operation is taken.
LEMMA FirstTaken ==
    ASSUME NEW S, NEW s \in Seq(S), s # <<>>, IsInjective(s)
    PROVE  /\ Head(s) \in S /\ Tail(s) \in Seq(S)
           /\ ToSet(s) = {Head(s)} \cup ToSet(Tail(s))
           /\ IsInjective(Tail(s)) /\ Head(s) \notin ToSet(Tail(s))
<1> DEFINE u == Tail(s)
<1>1. /\ Head(s) \in S /\ u \in Seq(S)
      /\ Len(u) \in Nat /\ DOMAIN u = 1 .. Len(u) /\ DOMAIN s = 1 .. Len(u) + 1
      /\ Head(s) = s[1] /\ \A i \in 1 .. Len(u) : u[i] = s[i + 1]
  BY HeadTailProperties
<1> HIDE DEF u
<1>2. /\ 1 \in DOMAIN s
      /\ \A i \in DOMAIN u : i + 1 \in DOMAIN s /\ i + 1 # 1 /\ u[i] = s[i + 1]
      /\ \A i \in DOMAIN s : i = 1 \/ (i - 1 \in DOMAIN u /\ u[i - 1] = s[i])
  BY <1>1
<1>3. ToSet(s) = {s[1]} \cup ToSet(u)
  BY <1>2 DEF ToSet
<1>4. s[1] \notin ToSet(u)
  BY <1>2 DEF ToSet, IsInjective
<1>5. IsInjective(u)
  <2> SUFFICES ASSUME NEW i \in DOMAIN u, NEW j \in DOMAIN u, u[i] = u[j] PROVE i = j
    BY DEF IsInjective
  <2>1. i + 1 = j + 1
    BY <1>2 DEF IsInjective
  <2>2. QED
    BY <1>1, <2>1
<1>6. QED
  BY <1>1, <1>3, <1>4, <1>5 DEF u

\* A queue and a batch behind it that have no operation in common.
LEMMA BatchBehind ==
    ASSUME NEW S, NEW s \in Seq(S), NEW t \in Seq(S),
           IsInjective(s), IsInjective(t), ToSet(s) \cap ToSet(t) = {}
    PROVE  ToSet(s \o t) = ToSet(s) \cup ToSet(t) /\ IsInjective(s \o t)
<1> DEFINE u == s \o t
<1>1. /\ Len(s) \in Nat /\ Len(t) \in Nat
      /\ DOMAIN u = 1 .. Len(s) + Len(t) /\ DOMAIN s = 1 .. Len(s) /\ DOMAIN t = 1 .. Len(t)
      /\ \A i \in 1 .. Len(s) + Len(t) : u[i] = IF i <= Len(s) THEN s[i] ELSE t[i - Len(s)]
  BY ConcatProperties
<1> HIDE DEF u
<1>2. /\ \A i \in DOMAIN s : i \in DOMAIN u /\ u[i] = s[i]
      /\ \A i \in DOMAIN t : i + Len(s) \in DOMAIN u /\ u[i + Len(s)] = t[i]
      /\ \A i \in DOMAIN u : (i \in DOMAIN s /\ u[i] = s[i])
                             \/ (i - Len(s) \in DOMAIN t /\ u[i] = t[i - Len(s)])
  BY <1>1
<1>3. ToSet(u) = ToSet(s) \cup ToSet(t)
  BY <1>2 DEF ToSet
<1>4. IsInjective(u)
  <2> SUFFICES ASSUME NEW i \in DOMAIN u, NEW j \in DOMAIN u, u[i] = u[j] PROVE i = j
    BY DEF IsInjective
  <2>1. \A x \in DOMAIN s, y \in DOMAIN t : s[x] # t[y]
    BY DEF ToSet
  <2>2. CASE i \in DOMAIN s /\ u[i] = s[i]
    <3>1. j \in DOMAIN s /\ u[j] = s[j]
      BY <1>2, <2>1, <2>2
    <3>2. QED
      BY <2>2, <3>1 DEF IsInjective
  <2>3. CASE i - Len(s) \in DOMAIN t /\ u[i] = t[i - Len(s)]
    <3>1. j - Len(s) \in DOMAIN t /\ u[j] = t[j - Len(s)]
      BY <1>2, <2>1, <2>3
    <3>2. i - Len(s) = j - Len(s)
      BY <2>3, <3>1 DEF IsInjective
    <3>3. QED
      BY <1>1, <3>2
  <2>4. QED
    BY <1>2, <2>2, <2>3
<1>5. QED
  BY <1>3, <1>4 DEF u

\* A batch without repetition is as long as the set of its operations is large.
LEMMA LengthOfInjective ==
    ASSUME NEW S, NEW s \in Seq(S), IsInjective(s)
    PROVE  IsFiniteSet(ToSet(s)) /\ Cardinality(ToSet(s)) = Len(s)
<1>1. Len(s) \in Nat /\ DOMAIN s = 1 .. Len(s)
  OBVIOUS
<1>2. IsFiniteSet(1 .. Len(s)) /\ Cardinality(1 .. Len(s)) = Len(s)
  BY <1>1, FS_Interval
<1>3. s \in [1 .. Len(s) -> ToSet(s)]
  BY <1>1 DEF ToSet
<1>4. s \in Bijection(1 .. Len(s), ToSet(s))
  <2>1. \A x, y \in 1 .. Len(s) : s[x] = s[y] => x = y
    BY <1>1 DEF IsInjective
  <2>2. \A e \in ToSet(s) : \E x \in 1 .. Len(s) : s[x] = e
    BY <1>1 DEF ToSet
  <2>3. QED
    BY <1>3, <2>1, <2>2, Fun_IsBij
<1>5. QED
  BY <1>2, <1>4, FS_Bijection DEF ExistsBijection

\* The operations in the queues, counted.
LEMMA CountQueued ==
    ASSUME TypeOK
    PROVE  /\ Queued \subseteq Ops
           /\ IsFiniteSet(Queued)
           /\ QueueLength \in Nat
<1>1. ASSUME NEW p \in DOMAIN q PROVE ToSet(q[p]) \subseteq Ops
  <2>1. q[p] \in Seq(Ops)
    BY DEF TypeOK
  <2>2. QED
    BY <2>1 DEF ToSet
<1>2. Queued \subseteq Ops
  BY <1>1 DEF Queued
<1>3. IsFiniteSet(Queued)
  BY <1>2, DispatcherAssumption, FS_Subset
<1>4. QED
  BY <1>2, <1>3, FS_CardinalityType DEF QueueLength

\* The calls of notify_one to come of a function n, counted: one call less, or
\* as many more as a thread decides on.
CallsOf(n) ==
    {call \in (Pool \cup Callers) \X (1 .. MaxBatch) : call[2] <= n[call[1]]}

LEMMA CountCalls ==
    ASSUME NEW n \in [Pool \cup Callers -> 0 .. MaxBatch]
    PROVE  /\ IsFiniteSet(CallsOf(n))
           /\ Cardinality(CallsOf(n)) \in Nat
           /\ \A t \in Pool \cup Callers : n[t] > 0 =>
                 Cardinality(CallsOf([n EXCEPT ![t] = n[t] - 1]))
                   = Cardinality(CallsOf(n)) - 1
           /\ \A t \in Pool \cup Callers, m \in 0 .. MaxBatch : n[t] = 0 =>
                 Cardinality(CallsOf([n EXCEPT ![t] = m]))
                   = Cardinality(CallsOf(n)) + m
<1> USE DispatcherAssumption
<1>1. IsFiniteSet(CallsOf(n))
  <2>1. IsFiniteSet(Pool \cup Callers)
    BY FS_Union
  <2>2. IsFiniteSet(1 .. MaxBatch)
    BY FS_Interval
  <2>3. IsFiniteSet((Pool \cup Callers) \X (1 .. MaxBatch))
    BY <2>1, <2>2, FS_Product
  <2>4. CallsOf(n) \subseteq (Pool \cup Callers) \X (1 .. MaxBatch)
    BY DEF CallsOf
  <2>5. QED
    BY <2>3, <2>4, FS_Subset
<1>2. Cardinality(CallsOf(n)) \in Nat
  BY <1>1, FS_CardinalityType
<1>3. ASSUME NEW t \in Pool \cup Callers, n[t] > 0
      PROVE  Cardinality(CallsOf([n EXCEPT ![t] = n[t] - 1]))
               = Cardinality(CallsOf(n)) - 1
  <2> DEFINE k == [n EXCEPT ![t] = n[t] - 1]
             last == <<t, n[t]>>
  <2>1. last \in CallsOf(n)
    BY <1>3 DEF CallsOf
  <2>2. CallsOf(k) = CallsOf(n) \ {last}
    <3>1. ASSUME NEW call \in (Pool \cup Callers) \X (1 .. MaxBatch)
          PROVE  call[2] <= k[call[1]] <=> call[2] <= n[call[1]] /\ call # last
      <4>1. PICK s \in Pool \cup Callers, i \in 1 .. MaxBatch : call = <<s, i>>
        OBVIOUS
      <4>2. CASE s = t
        <5>1. k[t] = n[t] - 1 /\ n[t] \in Nat /\ i \in Nat
          OBVIOUS
        <5>2. i <= n[t] - 1 <=> i <= n[t] /\ i # n[t]
          BY <5>1
        <5>3. QED
          BY <4>1, <4>2, <5>1, <5>2
      <4>3. CASE s # t
        BY <4>1, <4>3
      <4>4. QED
        BY <4>2, <4>3
    <3>2. QED
      BY <3>1 DEF CallsOf
  <2>3. Cardinality(CallsOf(n) \ {last}) = Cardinality(CallsOf(n)) - 1
    BY <1>1, <2>1, FS_RemoveElement
  <2>4. QED
    BY <2>2, <2>3
<1>4. ASSUME NEW t \in Pool \cup Callers, NEW m \in 0 .. MaxBatch, n[t] = 0
      PROVE  Cardinality(CallsOf([n EXCEPT ![t] = m])) = Cardinality(CallsOf(n)) + m
  <2> DEFINE k == [n EXCEPT ![t] = m]
             added == {t} \X (1 .. m)
  <2>1. CallsOf(k) = CallsOf(n) \cup added
    <3>1. ASSUME NEW call \in (Pool \cup Callers) \X (1 .. MaxBatch)
          PROVE  call[2] <= k[call[1]] <=> call[2] <= n[call[1]] \/ call \in added
      <4>1. PICK s \in Pool \cup Callers, i \in 1 .. MaxBatch : call = <<s, i>>
        OBVIOUS
      <4>2. CASE s = t
        BY <1>4, <4>1, <4>2
      <4>3. CASE s # t
        BY <4>1, <4>3
      <4>4. QED
        BY <4>2, <4>3
    <3>2. added \subseteq (Pool \cup Callers) \X (1 .. MaxBatch)
      OBVIOUS
    <3>3. QED
      BY <3>1, <3>2 DEF CallsOf
  <2>2. CallsOf(n) \cap added = {}
    BY <1>4 DEF CallsOf
  <2>3. IsFiniteSet(added) /\ Cardinality(added) = m
    <3>1. IsFiniteSet({t}) /\ Cardinality({t}) = 1
      BY FS_Singleton
    <3>2. IsFiniteSet(1 .. m) /\ Cardinality(1 .. m) = IF 1 > m THEN 0 ELSE m - 1 + 1
      BY ONLY FS_Interval, m \in Int, 1 \in Int
    <3>3. Cardinality(1 .. m) = m
      BY <3>2
    <3>4. IsFiniteSet(added) /\ Cardinality(added) = 1 * Cardinality(1 .. m)
      BY ONLY <3>1, <3>2, FS_Product
    <3>5. QED
      BY <3>3, <3>4
  <2>4. Cardinality(CallsOf(n) \cup added)
          = Cardinality(CallsOf(n)) + m - Cardinality(CallsOf(n) \cap added)
    BY <1>1, <2>3, FS_Union
  <2>5. Cardinality(CallsOf(n) \cap added) = 0
    BY <2>2, FS_EmptySet
  <2>6. Cardinality(CallsOf(k)) = Cardinality(CallsOf(n)) + m - 0
    BY <2>1, <2>4, <2>5
  <2>7. QED
    BY <1>2, <2>6
<1>5. QED
  BY <1>1, <1>2, <1>3, <1>4
------------------------------------------------------------------------------
\* The sets of threads, all of which belong to the pool.
LEMMA PoolSets ==
    ASSUME TypeOK
    PROVE  /\ new \in SUBSET Pool /\ contending \in SUBSET Pool
           /\ asleep \in SUBSET Pool /\ woken \in SUBSET Pool
           /\ Busy \in SUBSET Pool /\ Created \in SUBSET Pool
           /\ (Created \ new) \in SUBSET Pool
BY DEF TypeOK, Busy, Created

\* A thread under the lock enters doRun at most once, and is counted there.
LEMMA EnterKeepsCount ==
    ASSUME TypeOK, PoolIsCounted, NEW t \in Pool, HasLock(t), EnterRun(t),
           new' = new \ {t}, Created' = Created
    PROVE  /\ executing' \in Nat /\ maximumExecuting' \in Nat
           /\ PoolIsCounted'
<1>1. /\ executing \in Nat /\ maximumExecuting \in Nat
      /\ Cardinality(Created) \in Nat
      /\ (Created \ new) \in SUBSET Pool
  BY PoolSets, CountPool DEF TypeOK
<1>2. CASE t \in new
  <2>1. /\ executing' = executing + 1
        /\ maximumExecuting' = CountThread(executing + 1)
    BY <1>2 DEF EnterRun
  <2>2. Created' \ new' = (Created \ new) \cup {t} /\ t \notin Created \ new
    BY <1>2 DEF Created
  <2>3. Cardinality(Created' \ new') = Cardinality(Created \ new) + 1
    BY <1>1, <2>2, CountPool, SMTT(60)
  <2>4. Cardinality(Created' \ new') <= Cardinality(Created)
    <3>1. IsFiniteSet(Created)
      BY PoolSets, CountPool
    <3>2. Created' \ new' \in SUBSET Created
      OBVIOUS
    <3>3. QED
      BY <3>1, <3>2, FS_Subset
  <2>5. QED
    BY <1>1, <2>1, <2>3, <2>4 DEF PoolIsCounted, CountThread
<1>3. CASE t \notin new
  <2>1. UNCHANGED <<executing, maximumExecuting>> /\ new' = new
    BY <1>3 DEF EnterRun
  <2>2. QED
    BY <1>1, <2>1 DEF PoolIsCounted
<1>4. QED
  BY <1>2, <1>3

\* An operation that has the highest priority is taken from the only queue it
\* is in.
LEMMA TakeFromQueue ==
    ASSUME TypeOK, QueuedOnce, NEW p \in DOMAIN q, q[p] # <<>>,
           q' = [q EXCEPT ![p] = Tail(@)]
    PROVE  /\ q' \in [0 .. Priorities - 1 -> Seq(Ops)]
           /\ QueuedOnce'
           /\ Head(q[p]) \in Queued
           /\ Queued' = Queued \ {Head(q[p])}
           /\ QueueLength' = QueueLength - 1
<1> DEFINE op == Head(q[p])
           rest == Tail(q[p])
<1>1. q \in [0 .. Priorities - 1 -> Seq(Ops)] /\ q[p] \in Seq(Ops) /\ DOMAIN q' = DOMAIN q
  BY DEF TypeOK
<1>2. IsInjective(q[p])
  BY DEF QueuedOnce
<1>3. /\ op \in Ops /\ rest \in Seq(Ops)
      /\ ToSet(q[p]) = {op} \cup ToSet(rest)
      /\ IsInjective(rest) /\ op \notin ToSet(rest)
  BY <1>1, <1>2, FirstTaken
<1> HIDE DEF op, rest
<1>4. q' = [q EXCEPT ![p] = rest]
  BY DEF rest
<1>5. q'[p] = rest /\ \A r \in DOMAIN q : r # p => q'[r] = q[r]
  BY <1>1, <1>4
<1>6. QueuedOnce'
  BY <1>1, <1>3, <1>5 DEF QueuedOnce
<1>7. \A r \in DOMAIN q : ToSet(q'[r]) = ToSet(q[r]) \ {op}
  BY <1>3, <1>5 DEF QueuedOnce
<1>8. Queued' = Queued \ {op} /\ op \in Queued
  BY <1>1, <1>3, <1>7 DEF Queued
<1>9. QueueLength' = QueueLength - 1
  BY <1>8, CountQueued, FS_RemoveElement DEF QueueLength
<1>10. QED
  BY <1>1, <1>3, <1>4, <1>6, <1>8, <1>9 DEF op

\* A batch of operations that are queued nowhere makes a queue, and all the
\* queues together, longer by its length.
LEMMA AppendToQueue ==
    ASSUME TypeOK, QueuedOnce, NEW p \in DOMAIN q, NEW batch \in Batches,
           q' = [q EXCEPT ![p] = @ \o batch]
    PROVE  /\ Len(batch) \in 1 .. MaxBatch
           /\ q' \in [0 .. Priorities - 1 -> Seq(Ops)]
           /\ QueuedOnce'
           /\ QueueLength' = QueueLength + Len(batch)
<1>1. /\ q \in [0 .. Priorities - 1 -> Seq(Ops)] /\ q[p] \in Seq(Ops)
      /\ DOMAIN q' = DOMAIN q
  BY DEF TypeOK
<1>2. batch \in Seq(Fresh) /\ Len(batch) \in 1 .. MaxBatch /\ IsInjective(batch)
  <2>1. PICK n \in 0 .. MaxBatch : batch \in [1 .. n -> Fresh]
    BY DEF Batches, SeqOf
  <2>2. batch \in Seq(Fresh) /\ Len(batch) = n
    BY <2>1, DispatcherAssumption, SeqDef
  <2>3. batch # <<>> /\ IsInjective(batch)
    BY DEF Batches
  <2>4. n # 0
    BY <2>2, <2>3
  <2>5. QED
    BY <2>2, <2>3, <2>4, DispatcherAssumption
<1>3. batch \in Seq(Ops) /\ ToSet(batch) \subseteq Fresh
  <2>1. Fresh \subseteq Ops
    BY DEF Fresh
  <2>2. QED
    BY <1>2, <2>1 DEF ToSet
<1>4. ToSet(batch) \cap Queued = {}
  BY <1>3 DEF Fresh
<1>5. \A r \in DOMAIN q : ToSet(q[r]) \cap ToSet(batch) = {}
  BY <1>4 DEF Queued
<1>6. q'[p] = q[p] \o batch /\ \A r \in DOMAIN q : r # p => q'[r] = q[r]
  BY <1>1
<1>7. /\ ToSet(q'[p]) = ToSet(q[p]) \cup ToSet(batch)
      /\ IsInjective(q'[p])
  BY <1>1, <1>2, <1>3, <1>5, <1>6, BatchBehind DEF QueuedOnce
<1>8. QueuedOnce'
  BY <1>1, <1>5, <1>6, <1>7 DEF QueuedOnce
<1>9. Queued' = Queued \cup ToSet(batch)
  BY <1>1, <1>6, <1>7 DEF Queued
<1>10. IsFiniteSet(ToSet(batch)) /\ Cardinality(ToSet(batch)) = Len(batch)
  BY <1>2, LengthOfInjective
<1>11. QueueLength' = QueueLength + Len(batch)
  <2>1. Cardinality(Queued \cup ToSet(batch))
          = Cardinality(Queued) + Len(batch) - Cardinality(Queued \cap ToSet(batch))
    BY <1>10, CountQueued, FS_Union
  <2>2. Cardinality(Queued \cap ToSet(batch)) = 0
    BY <1>4, FS_EmptySet
  <2>3. QED
    BY <1>2, <1>9, <2>1, <2>2, CountQueued DEF QueueLength
<1>12. q' \in [0 .. Priorities - 1 -> Seq(Ops)]
  BY <1>1, <1>3
<1>13. QED
  BY <1>2, <1>8, <1>11, <1>12
------------------------------------------------------------------------------
\* The numbers that the wake-ups are about.
LEMMA Numbers ==
    ASSUME TypeOK
    PROVE  /\ Pending = Cardinality(CallsOf(notifyOne)) /\ Pending \in Nat
           /\ QueueLength \in Nat
           /\ Cardinality(woken) \in Nat /\ Cardinality(asleep) \in Nat
           /\ waiting \in Nat /\ waiting = Cardinality(asleep) + Cardinality(woken)
<1>1. PendingCalls = CallsOf(notifyOne)
  BY DEF PendingCalls, CallsOf
<1>2. notifyOne \in [Pool \cup Callers -> 0 .. MaxBatch]
  BY DEF TypeOK
<1>3. Pending = Cardinality(CallsOf(notifyOne)) /\ Pending \in Nat
  BY <1>1, <1>2, CountCalls DEF Pending
<1>4. Cardinality(woken) \in Nat /\ Cardinality(asleep) \in Nat
  BY PoolSets, CountPool
<1>5. QED
  BY <1>3, <1>4, CountQueued DEF TypeOK

\* The choice of dispatchQueue() between notify_all and notify_one.
LEMMA DispatchKeeps ==
    ASSUME PoolInv, NEW t \in Callers \cup Pool, NEW batch \in Batches,
           NEW priority \in 0 .. Priorities, DispatchQueue(t, batch, priority)
    PROVE  PoolInv'
<1> USE DispatcherAssumption
<1>0. TypeOK /\ QueuedOnce /\ WakeupsCoverWork /\ PoolIsCounted
  BY DEF PoolInv
<1>1. Clamp(priority) \in DOMAIN q
  BY <1>0 DEF Clamp, TypeOK
<1>2. /\ Len(batch) \in 1 .. MaxBatch
      /\ q' \in [0 .. Priorities - 1 -> Seq(Ops)]
      /\ QueuedOnce'
      /\ QueueLength' = QueueLength + Len(batch)
  BY <1>0, <1>1, AppendToQueue DEF DispatchQueue
<1>3. UNCHANGED <<waiting, executing, maximumExecuting, threads, finished>>
  BY DEF DispatchQueue
<1>4. PoolIsCounted'
  BY <1>0, <1>3 DEF threads, PoolIsCounted, Created, Busy
<1>5. CASE WakeAll(Len(batch))
  <2>1. notifyAll' = notifyAll \cup {t} /\ UNCHANGED notifyOne
    BY <1>5 DEF DispatchQueue
  <2>2. TypeOK'
    BY <1>0, <1>2, <1>3, <2>1 DEF threads, TypeOK, Busy
  <2>3. WakeupsCoverWork'
    BY <2>1 DEF WakeupsCoverWork
  <2>4. QED
    BY <1>2, <1>4, <2>2, <2>3 DEF PoolInv
<1>6. CASE ~ WakeAll(Len(batch))
  <2>1. notifyOne' = [notifyOne EXCEPT ![t] = Len(batch)] /\ UNCHANGED notifyAll
    BY <1>6 DEF DispatchQueue, WakeEach
  <2>2. TypeOK'
    BY <1>0, <1>2, <1>3, <2>1 DEF threads, TypeOK, Busy
  <2>3. Pending' = Pending + Len(batch)
    <3>1. notifyOne[t] = 0 /\ t \in Pool \cup Callers
      BY DEF DispatchQueue, CanCall
    <3>2. Cardinality(CallsOf([notifyOne EXCEPT ![t] = Len(batch)]))
            = Cardinality(CallsOf(notifyOne)) + Len(batch)
      <4>1. notifyOne \in [Pool \cup Callers -> 0 .. MaxBatch]
        BY <1>0 DEF TypeOK
      <4>2. Len(batch) \in 0 .. MaxBatch
        BY <1>2
      <4>3. QED
        BY ONLY <3>1, <4>1, <4>2, CountCalls
    <3>3. PendingCalls' = CallsOf(notifyOne')
      BY DEF PendingCalls, CallsOf
    <3>4. QED
      BY <1>0, <2>1, <3>2, <3>3, Numbers DEF Pending
  <2>4. WakeupsCoverWork'
    <3>1. woken' = woken /\ waiting' = waiting
      BY <1>3 DEF threads
    <3>2. /\ Len(batch) \in Nat /\ Pending \in Nat /\ QueueLength \in Nat
          /\ Cardinality(woken) \in Nat /\ waiting \in Nat
      BY <1>0, <1>2, Numbers
    <3>3. QueueLength' = QueueLength + Len(batch)
      BY <1>2
    <3>4. /\ Cardinality(woken) + Pending >= QueueLength
               => Cardinality(woken) + Pending' >= QueueLength'
          /\ Cardinality(woken) + Pending >= waiting
               => Cardinality(woken) + Pending' >= waiting
      BY <2>3, <3>2, <3>3
    <3>5. QED
      BY <1>0, <2>1, <3>1, <3>4 DEF WakeupsCoverWork
  <2>5. QED
    BY <1>2, <1>4, <2>2, <2>4 DEF PoolInv
<1>7. QED
  BY <1>5, <1>6

\* The calls of the condition variable, made after the release of the lock.
LEMMA NotifyKeeps ==
    ASSUME PoolInv, NEW t \in Callers \cup Pool, Notify(t)
    PROVE  PoolInv'
<1> USE DispatcherAssumption
<1>0. TypeOK /\ QueuedOnce /\ WakeupsCoverWork /\ PoolIsCounted
  BY DEF PoolInv
<1>1. CASE NotifyOne(t)
  <2>1. /\ notifyOne[t] > 0 /\ notifyOne' = [notifyOne EXCEPT ![t] = notifyOne[t] - 1]
        /\ UNCHANGED <<q, waiting, executing, maximumExecuting, new, contending,
                       current, notifyAll, finished>>
    BY <1>1 DEF NotifyOne
  <2>2. Pending' = Pending - 1
    <3>1. Cardinality(CallsOf(notifyOne')) = Cardinality(CallsOf(notifyOne)) - 1
      BY <1>0, <2>1, CountCalls DEF TypeOK
    <3>2. PendingCalls' = CallsOf(notifyOne')
      BY DEF PendingCalls, CallsOf
    <3>3. QED
      BY <1>0, <3>1, <3>2, Numbers DEF Pending
  <2>3. QueuedOnce' /\ QueueLength' = QueueLength
    BY <1>0, <2>1 DEF QueuedOnce, QueueLength, Queued
  <2>4. notifyOne' \in [Pool \cup Callers -> 0 .. MaxBatch]
    BY <1>0, <2>1 DEF TypeOK
  <2>5. CASE asleep = {} /\ UNCHANGED <<asleep, woken>>
    <3>1. TypeOK' /\ PoolIsCounted'
      BY <1>0, <2>1, <2>4, <2>5 DEF TypeOK, PoolIsCounted, Created, Busy
    <3>2. waiting = Cardinality(woken)
      <4>1. Cardinality(asleep) = 0
        BY <2>5, FS_EmptySet
      <4>2. QED
        BY <1>0, <4>1, Numbers
    <3>3. WakeupsCoverWork'
      <4>1. waiting' = waiting /\ woken' = woken
        BY <2>1, <2>5
      <4>2. Pending' \in Nat
        BY <2>2, <2>4, CountCalls DEF Pending, PendingCalls, CallsOf
      <4>3. QED
        BY <1>0, <3>2, <4>1, <4>2, Numbers DEF WakeupsCoverWork
    <3>4. QED
      BY <2>3, <3>1, <3>3 DEF PoolInv
  <2>6. ASSUME NEW s \in asleep, asleep' = asleep \ {s}, woken' = woken \cup {s}
        PROVE  PoolInv'
    <3>1. s \in Pool /\ s \notin woken
      BY <1>0 DEF TypeOK
    <3>2. /\ Cardinality(woken') = Cardinality(woken) + 1
          /\ Cardinality(asleep') = Cardinality(asleep) - 1
      BY <1>0, <2>6, <3>1, PoolSets, CountPool
    <3>3. TypeOK'
      <4>1. waiting' = Cardinality(asleep') + Cardinality(woken')
        BY <1>0, <2>1, <3>2, Numbers
      <4>2. QED
        BY <1>0, <2>1, <2>4, <2>6, <4>1 DEF TypeOK, Busy
    <3>4. PoolIsCounted'
      <4>1. Created' = Created
        BY <2>1, <2>6 DEF Created, Busy
      <4>2. QED
        BY <1>0, <2>1, <4>1 DEF PoolIsCounted
    <3>5. WakeupsCoverWork'
      BY <1>0, <2>1, <2>2, <2>3, <3>2, Numbers DEF WakeupsCoverWork
    <3>6. QED
      BY <2>3, <3>3, <3>4, <3>5 DEF PoolInv
  <2>7. QED
    BY <1>1, <2>5, <2>6 DEF NotifyOne
<1>2. CASE NotifyAll(t)
  <2>1. /\ notifyAll' = notifyAll \ {t} /\ woken' = woken \cup asleep /\ asleep' = {}
        /\ UNCHANGED <<q, waiting, executing, maximumExecuting, new, contending,
                       current, notifyOne, finished>>
    BY <1>2 DEF NotifyAll
  <2>2. Cardinality(woken') = waiting /\ Cardinality(asleep') = 0
    <3>1. woken \cap asleep = {}
      BY <1>0 DEF TypeOK
    <3>2. Cardinality(woken \cup asleep) = Cardinality(woken) + Cardinality(asleep)
      BY <1>0, <3>1, PoolSets, CountPool
    <3>3. QED
      BY <1>0, <2>1, <3>2, Numbers, FS_EmptySet
  <2>3. TypeOK'
    <3>1. waiting' = Cardinality(asleep') + Cardinality(woken')
      BY <1>0, <2>1, <2>2, Numbers
    <3>2. QED
      BY <1>0, <2>1, <3>1 DEF TypeOK, Busy
  <2>4. PoolIsCounted'
    <3>1. Created' = Created
      BY <2>1 DEF Created, Busy
    <3>2. QED
      BY <1>0, <2>1, <3>1 DEF PoolIsCounted
  <2>5. WakeupsCoverWork'
    <3>1. waiting' = waiting /\ Pending' = Pending
      BY <2>1 DEF Pending, PendingCalls
    <3>2. QED
      BY <1>0, <2>2, <3>1, Numbers DEF WakeupsCoverWork
  <2>6. QueuedOnce'
    BY <1>0, <2>1 DEF QueuedOnce
  <2>7. QED
    BY <2>3, <2>4, <2>5, <2>6 DEF PoolInv
<1>3. QED
  BY <1>1, <1>2 DEF Notify

\* The threads that start() and ensure() add.
LEMMA StartKeeps ==
    ASSUME PoolInv, NEW started \in SUBSET (Pool \ Created), NEW n \in Nat,
           new' = new \cup started,
           n <= Cardinality(started), maximumExecuting' = maximumExecuting + n,
           UNCHANGED <<q, waiting, executing, contending, asleep, woken, current,
                       notifications, finished>>
    PROVE  PoolInv'
<1>0. TypeOK /\ QueuedOnce /\ WakeupsCoverWork /\ PoolIsCounted
  BY DEF PoolInv
<1>1. started \cap Created = {} /\ started \in SUBSET Pool
  BY DEF Created
<1>2. TypeOK'
  <2>1. maximumExecuting' \in Nat
    BY <1>0 DEF TypeOK
  <2>2. new' \cap (contending \cup asleep \cup woken \cup Busy) = {}
    BY <1>0, <1>1 DEF TypeOK, Created
  <2>3. QED
    BY <1>0, <1>1, <2>1, <2>2 DEF TypeOK, Busy, notifications
<1>3. QueuedOnce' /\ WakeupsCoverWork'
  BY <1>0 DEF QueuedOnce, WakeupsCoverWork, notifications, Pending, PendingCalls,
              QueueLength, Queued
<1>4. PoolIsCounted'
  <2>1. Created' = Created \cup started /\ Created' \ new' = Created \ new
    BY <1>0, <1>1 DEF Created, Busy, TypeOK
  <2>2. Cardinality(Created') = Cardinality(Created) + Cardinality(started)
    BY <1>0, <1>1, <2>1, PoolSets, CountPool
  <2>3. /\ Cardinality(Created) \in Nat /\ Cardinality(started) \in Nat
        /\ executing \in Nat /\ maximumExecuting \in Nat
    BY <1>0, <1>1, PoolSets, CountPool DEF TypeOK
  <2>4. maximumExecuting' <= Cardinality(Created')
    BY <1>0, <2>2, <2>3 DEF PoolIsCounted
  <2>5. executing' = Cardinality(Created' \ new')
    BY <1>0, <2>1 DEF PoolIsCounted
  <2>6. executing' <= maximumExecuting'
    BY <1>0, <2>3 DEF PoolIsCounted
  <2>7. QED
    BY <2>4, <2>5, <2>6 DEF PoolIsCounted
<1>5. QED
  BY <1>2, <1>3, <1>4 DEF PoolInv

\* A thread that got the lock and finds an operation.
LEMMA TakeKeeps ==
    ASSUME PoolInv, NEW t \in Pool, Take(t)
    PROVE  PoolInv'
<1> USE DispatcherAssumption
<1>0. TypeOK /\ QueuedOnce /\ WakeupsCoverWork /\ PoolIsCounted
  BY DEF PoolInv
<1>1. PICK p \in DOMAIN q :
        /\ q[p] # <<>>
        /\ current' = [current EXCEPT ![t] = Head(q[p])]
        /\ q' = [q EXCEPT ![p] = Tail(@)]
  BY DEF Take, TopPriority
<1>2. /\ HasLock(t) /\ waiting' = LeaveWait(t) /\ EnterRun(t)
      /\ new' = new \ {t} /\ contending' = contending \ {t} /\ woken' = woken \ {t}
      /\ UNCHANGED <<asleep, notifyOne, notifyAll, finished>>
  BY DEF Take, notifications
<1>3. /\ q' \in [0 .. Priorities - 1 -> Seq(Ops)]
      /\ QueuedOnce'
      /\ Head(q[p]) \in Ops
      /\ QueueLength' = QueueLength - 1
  BY <1>0, <1>1, TakeFromQueue, CountQueued
<1>4. current' \in [Pool -> Ops \cup {NoOp}] /\ Busy' = Busy \cup {t}
  BY <1>0, <1>1, <1>3 DEF TypeOK, Busy
<1>5. Created' = Created
  BY <1>2, <1>4 DEF Created, HasLock
<1>6. /\ executing' \in Nat /\ maximumExecuting' \in Nat
      /\ PoolIsCounted'
  BY <1>0, <1>2, <1>5, EnterKeepsCount
<1>7. /\ t \in woken => /\ Cardinality(woken') = Cardinality(woken) - 1
                        /\ waiting' = waiting - 1
      /\ t \notin woken => woken' = woken /\ waiting' = waiting
  BY <1>0, <1>2, PoolSets, CountPool DEF LeaveWait
<1>8. TypeOK'
  <2>1. waiting' = Cardinality(asleep') + Cardinality(woken')
    <3>1. asleep' = asleep /\ waiting = Cardinality(asleep) + Cardinality(woken)
      BY <1>0, <1>2, Numbers
    <3>2. CASE t \in woken
      BY <1>0, <1>7, <3>1, <3>2, Numbers
    <3>3. CASE t \notin woken
      BY <1>7, <3>1, <3>3
    <3>4. QED
      BY <3>2, <3>3
  <2>2. /\ new' \cap (contending' \cup asleep' \cup woken' \cup Busy') = {}
        /\ contending' \cap (asleep' \cup woken' \cup Busy') = {}
        /\ asleep' \cap (woken' \cup Busy') = {}
        /\ woken' \cap Busy' = {}
    BY <1>0, <1>2, <1>4 DEF TypeOK, HasLock
  <2>3. \A S \in {new', contending', asleep', woken'} : S \subseteq Pool
    BY <1>0, <1>2 DEF TypeOK
  <2>4. /\ notifyOne' \in [Pool \cup Callers -> 0 .. MaxBatch]
        /\ notifyAll' \subseteq Pool \cup Callers /\ finished' \subseteq Ops
    BY <1>0, <1>2 DEF TypeOK
  <2>5. QED
    BY <1>3, <1>4, <1>6, <2>1, <2>2, <2>3, <2>4 DEF TypeOK
<1>9. WakeupsCoverWork'
  <2>1. Pending' = Pending /\ notifyAll' = notifyAll
    BY <1>2 DEF Pending, PendingCalls
  <2>2. QED
    BY <1>0, <1>3, <1>7, <2>1, Numbers DEF WakeupsCoverWork
<1>10. QED
  BY <1>3, <1>6, <1>8, <1>9 DEF PoolInv

\* A thread that got the lock and finds nothing, even when it was woken for an
\* operation that another thread took before it.
LEMMA SleepKeeps ==
    ASSUME PoolInv, NEW t \in Pool, Sleep(t)
    PROVE  PoolInv'
<1> USE DispatcherAssumption
<1>0. TypeOK /\ QueuedOnce /\ WakeupsCoverWork /\ PoolIsCounted
  BY DEF PoolInv
<1>1. /\ HasLock(t) /\ Queued = {} /\ waiting' = LeaveWait(t) + 1 /\ EnterRun(t)
      /\ new' = new \ {t} /\ contending' = contending \ {t} /\ woken' = woken \ {t}
      /\ asleep' = asleep \cup {t}
      /\ UNCHANGED <<q, current, notifyOne, notifyAll, finished>>
  BY DEF Sleep, Refetch, notifications
<1>2. Busy' = Busy /\ Created' = Created
  BY <1>1 DEF Created, Busy, HasLock
<1>3. /\ executing' \in Nat /\ maximumExecuting' \in Nat
      /\ PoolIsCounted'
  BY <1>0, <1>1, <1>2, EnterKeepsCount
<1>4. t \notin asleep
  BY <1>0, <1>1 DEF TypeOK, HasLock
<1>5. /\ Cardinality(asleep') = Cardinality(asleep) + 1
      /\ t \in woken => /\ Cardinality(woken') = Cardinality(woken) - 1
                        /\ waiting' = waiting - 1 + 1
      /\ t \notin woken => woken' = woken /\ waiting' = waiting + 1
  BY <1>0, <1>1, <1>4, PoolSets, CountPool DEF LeaveWait
<1>6. TypeOK'
  <2>1. waiting' = Cardinality(asleep') + Cardinality(woken')
    BY <1>0, <1>5, Numbers
  <2>2. /\ new' \cap (contending' \cup asleep' \cup woken' \cup Busy') = {}
        /\ contending' \cap (asleep' \cup woken' \cup Busy') = {}
        /\ asleep' \cap (woken' \cup Busy') = {}
        /\ woken' \cap Busy' = {}
    BY <1>0, <1>1, <1>2 DEF TypeOK, HasLock
  <2>3. QED
    BY <1>0, <1>1, <1>3, <2>1, <2>2 DEF TypeOK
<1>7. WakeupsCoverWork'
  <2>1. QueueLength' = 0
    BY <1>1, FS_EmptySet DEF QueueLength, Queued
  <2>2. Cardinality(woken') \in Nat /\ Pending' \in Nat
    <3>1. woken' \in SUBSET Pool
      BY <1>6 DEF TypeOK
    <3>2. Pending' = Pending
      BY <1>1 DEF Pending, PendingCalls
    <3>3. QED
      BY <1>0, <3>1, <3>2, CountPool, Numbers
  <2>3. QED
    BY <2>1, <2>2 DEF WakeupsCoverWork
<1>8. QueuedOnce'
  BY <1>0, <1>1 DEF QueuedOnce
<1>9. QED
  BY <1>3, <1>6, <1>7, <1>8 DEF PoolInv

\* cv.wait returns without a notification.
LEMMA SpuriousWakeupKeeps ==
    ASSUME PoolInv, NEW t \in Pool, SpuriousWakeup(t)
    PROVE  PoolInv'
<1> USE DispatcherAssumption
<1>0. TypeOK /\ QueuedOnce /\ WakeupsCoverWork /\ PoolIsCounted
  BY DEF PoolInv
<1>1. /\ t \in asleep /\ asleep' = asleep \ {t} /\ woken' = woken \cup {t}
      /\ UNCHANGED <<q, waiting, executing, maximumExecuting, new, contending,
                     current, notifyOne, notifyAll, finished>>
  BY DEF SpuriousWakeup, notifications
<1>2. t \notin woken
  BY <1>0, <1>1 DEF TypeOK
<1>3. /\ Cardinality(woken') = Cardinality(woken) + 1
      /\ Cardinality(asleep') = Cardinality(asleep) - 1
  BY <1>0, <1>1, <1>2, PoolSets, CountPool
<1>4. TypeOK'
  <2>1. waiting' = Cardinality(asleep') + Cardinality(woken')
    BY <1>0, <1>1, <1>3, Numbers
  <2>2. QED
    BY <1>0, <1>1, <2>1 DEF TypeOK, Busy
<1>5. PoolIsCounted'
  <2>1. Created' = Created
    BY <1>1 DEF Created, Busy
  <2>2. QED
    BY <1>0, <1>1, <2>1 DEF PoolIsCounted
<1>6. QueuedOnce' /\ WakeupsCoverWork'
  <2>1. Pending' = Pending /\ QueueLength' = QueueLength
    BY <1>1 DEF Pending, PendingCalls, QueueLength, Queued
  <2>2. QED
    BY <1>0, <1>1, <1>3, <2>1, Numbers DEF QueuedOnce, WakeupsCoverWork
<1>7. QED
  BY <1>4, <1>5, <1>6 DEF PoolInv

\* An operation returns.
LEMMA CompleteKeeps ==
    ASSUME PoolInv, NEW t \in Pool, Complete(t)
    PROVE  PoolInv'
<1> USE DispatcherAssumption
<1>0. TypeOK /\ QueuedOnce /\ WakeupsCoverWork /\ PoolIsCounted
  BY DEF PoolInv
<1>1. /\ t \in Busy
      /\ finished' = finished \cup {current[t]}
      /\ current' = [current EXCEPT ![t] = NoOp]
      /\ contending' = contending \cup {t}
      /\ UNCHANGED <<q, waiting, executing, maximumExecuting, new, asleep, woken,
                     notifyOne, notifyAll>>
  BY DEF Complete, notifications
<1>2. Busy' = Busy \ {t} /\ Created' = Created /\ current[t] \in Ops
  BY <1>0, <1>1 DEF TypeOK, Busy, Created
<1>3. TypeOK'
  <2>1. /\ new' \cap (contending' \cup asleep' \cup woken' \cup Busy') = {}
        /\ contending' \cap (asleep' \cup woken' \cup Busy') = {}
        /\ asleep' \cap (woken' \cup Busy') = {}
        /\ woken' \cap Busy' = {}
    BY <1>0, <1>1, <1>2 DEF TypeOK
  <2>2. QED
    BY <1>0, <1>1, <1>2, <2>1 DEF TypeOK
<1>4. PoolIsCounted'
  BY <1>0, <1>1, <1>2 DEF PoolIsCounted
<1>5. QueuedOnce' /\ WakeupsCoverWork'
  BY <1>0, <1>1 DEF QueuedOnce, WakeupsCoverWork, Pending, PendingCalls,
                    QueueLength, Queued
<1>6. QED
  BY <1>3, <1>4, <1>5 DEF PoolInv
------------------------------------------------------------------------------
LEMMA PoolAtFirst == Init => PoolInv
<1> SUFFICES ASSUME Init PROVE PoolInv
  OBVIOUS
<1> USE DispatcherAssumption
<1>1. /\ Busy = {} /\ Created = {} /\ Queued = {}
      /\ Cardinality({}) = 0 /\ QueueLength = 0
  <2>1. ToSet(<<>>) = {}
    BY DEF ToSet
  <2>2. QED
    BY <2>1, FS_EmptySet, ZenonT(60) DEF Init, Busy, Created, Queued, QueueLength
<1>2. TypeOK
  BY <1>1 DEF Init, TypeOK
<1>3. QueuedOnce
  BY DEF Init, QueuedOnce, IsInjective, ToSet
<1>4. WakeupsCoverWork
  BY <1>1, <1>2, Numbers DEF WakeupsCoverWork
<1>5. PoolIsCounted
  BY <1>1 DEF Init, PoolIsCounted
<1>6. QED
  BY <1>2, <1>3, <1>4, <1>5 DEF PoolInv

\* Each step of the pool keeps its books.
LEMMA StepKeepsPool ==
    ASSUME PoolInv, [Next]_vars
    PROVE  PoolInv'
<1>0. TypeOK /\ PoolIsCounted
  BY DEF PoolInv
<1>1. ASSUME NEW t \in Callers \cup Pool, Call(t) PROVE PoolInv'
  <2>1. ASSUME NEW batch \in Batches, NEW priority \in 0 .. Priorities,
               DispatchQueue(t, batch, priority)
        PROVE  PoolInv'
    BY <2>1, DispatchKeeps
  <2>2. CASE Start(t)
    <3>1. PICK w \in Pool \ Created : new' = new \cup {w}
      BY <2>2 DEF Start
    <3>2. Cardinality({w}) = 1
      BY FS_Singleton
    <3>3. maximumExecuting' = maximumExecuting + 0
      BY <1>0, <2>2 DEF Start, TypeOK
    <3>4. QED
      BY <2>2, <3>1, <3>2, <3>3, StartKeeps DEF Start
  <2>3. ASSUME NEW total \in 1 .. Cardinality(Pool), Ensure(t, total)
        PROVE  PoolInv'
    <3>1. PICK started \in SUBSET (Pool \ Created) :
            Cardinality(started) = MissingThreads(total) /\ new' = new \cup started
      BY <2>3 DEF Ensure
    <3>2. MissingThreads(total) \in Nat
      BY <1>0, DispatcherAssumption, FS_CardinalityType DEF MissingThreads, TypeOK
    <3>3. QED
      BY <2>3, <3>1, <3>2, StartKeeps DEF Ensure
  <2>4. QED
    BY <1>1, <2>1, <2>2, <2>3 DEF Call
<1>2. ASSUME NEW t \in Callers \cup Pool, Notify(t) PROVE PoolInv'
  BY <1>2, NotifyKeeps
<1>3. ASSUME NEW t \in Pool, Run(t) PROVE PoolInv'
  BY <1>3, TakeKeeps, SleepKeeps, CompleteKeeps DEF Run
<1>4. ASSUME NEW t \in Pool, SpuriousWakeup(t) PROVE PoolInv'
  BY <1>4, SpuriousWakeupKeeps
<1>5. CASE UNCHANGED vars
  BY <1>5 DEF vars, PoolInv, TypeOK, QueuedOnce, WakeupsCoverWork, PoolIsCounted,
              Created, Busy, Pending, PendingCalls, QueueLength, Queued
<1>6. QED
  BY <1>1, <1>2, <1>3, <1>4, <1>5 DEF Next

\* The invariant of the pool holds in every state.
THEOREM PoolInvariance == SafeSpec => []PoolInv
<1>1. PoolInv /\ [Next]_vars => PoolInv'
  BY StepKeepsPool
<1>2. QED
  BY PoolAtFirst, <1>1, PTL DEF SafeSpec

\* The notifications that dispatchQueue() decides on under the lock and makes
\* after it always reach as far as the queued operations or as the waiting
\* threads, and the counts of the pool follow the threads that exist.
THEOREM PoolAlwaysKeepsUp == SafeSpec => []PoolKeepsUp
BY PoolInvariance, PTL DEF PoolInv, PoolKeepsUp

\* Once every notification is made and every woken thread has had the lock, no
\* thread sleeps next to an operation that waits.
NobodySleepsNextToWork ==
    (notifyAll = {} /\ woken = {} /\ \A t \in Pool \cup Callers : notifyOne[t] = 0)
        => (asleep = {} \/ Queued = {})

\* No wake-up is lost: a quiet pool with a sleeping thread has nothing to do.
THEOREM NoWakeupIsLost == SafeSpec => []NobodySleepsNextToWork
<1>1. PoolInv => NobodySleepsNextToWork
  <2> SUFFICES ASSUME PoolInv, notifyAll = {}, woken = {},
                      \A t \in Pool \cup Callers : notifyOne[t] = 0
               PROVE  asleep = {} \/ Queued = {}
    BY DEF NobodySleepsNextToWork
  <2>1. TypeOK /\ WakeupsCoverWork
    BY DEF PoolInv
  <2>2. PendingCalls = {}
    BY DEF PendingCalls
  <2>3. Pending = 0 /\ Cardinality(woken) = 0
    BY <2>2, FS_EmptySet DEF Pending
  <2>4. QueueLength = 0 \/ Cardinality(asleep) = 0
    BY <2>1, <2>3, Numbers DEF WakeupsCoverWork
  <2>5. QED
    BY <2>1, <2>4, CountQueued, PoolSets, CountPool, FS_EmptySet DEF QueueLength
<1>2. QED
  BY PoolInvariance, <1>1, PTL
==============================================================================
