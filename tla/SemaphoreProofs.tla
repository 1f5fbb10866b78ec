--------------------------- MODULE SemaphoreProofs ---------------------------
(***************************************************************************)
(* Proofs about Semaphore, for any finite set of threads, any initial      *)
(* value and any bound on the count.                                       *)
(***************************************************************************)
EXTENDS Semaphore, FiniteSetTheorems, TLAPS

\* The inductive invariant.  NoLostWakeup is not inductive: that a thread is
\* never left sleeping next to a permit follows only from counting, for every
\* permit a waiter could use, the wake-ups that are under way.
IInv == SemaphoreTypeOK /\ WaitingCounts /\ WakeupsCoverPermits

\* Adding a thread to, or taking one from, a set of threads, counted.
LEMMA CountThreads ==
    ASSUME NEW S \in SUBSET Threads
    PROVE  /\ Cardinality(S) \in Nat
           /\ Cardinality(S) = 0 <=> S = {}
           /\ \A t \in Threads :
                /\ t \notin S => Cardinality(S \cup {t}) = Cardinality(S) + 1
                /\ t \in S => /\ Cardinality(S \ {t}) = Cardinality(S) - 1
                              /\ Cardinality(S) > 0
<1>1. IsFiniteSet(S)
  BY SemaphoreAssumption, FS_Subset
<1>2. Cardinality(S) \in Nat /\ (Cardinality(S) = 0 <=> S = {})
  BY <1>1, FS_CardinalityType, FS_EmptySet
<1>3. ASSUME NEW t \in Threads
      PROVE  /\ t \notin S => Cardinality(S \cup {t}) = Cardinality(S) + 1
             /\ t \in S => Cardinality(S \ {t}) = Cardinality(S) - 1
  BY <1>1, FS_AddElement, FS_RemoveElement
<1>4. ASSUME NEW t \in Threads, t \in S PROVE Cardinality(S) > 0
  BY <1>2, <1>4
<1>5. QED
  BY <1>2, <1>3, <1>4

\* The three sets are counted by natural numbers in every state.
LEMMA Counted ==
    ASSUME SemaphoreTypeOK
    PROVE  /\ Cardinality(asleep) \in Nat
           /\ Cardinality(woken) \in Nat
           /\ Cardinality(notifying) \in Nat
<1>1. QED
  BY CountThreads DEF SemaphoreTypeOK

\* The counting argument holds in every reachable state.
THEOREM Invariance == SemaphoreSafeSpec => []IInv
<1>1. SemaphoreInit => IInv
  <2>1. Cardinality({}) = 0
    BY FS_EmptySet
  <2>2. QED
    BY <2>1, SemaphoreAssumption
    DEF SemaphoreInit, IInv, SemaphoreTypeOK, WaitingCounts, WakeupsCoverPermits
<1>2. IInv /\ [SemaphoreNext]_semaphoreVars => IInv'
  <2> SUFFICES ASSUME IInv, [SemaphoreNext]_semaphoreVars PROVE IInv'
    OBVIOUS
  <2> USE SemaphoreAssumption, Counted DEF IInv
  <2>1. ASSUME NEW t \in Threads, Signal(t) PROVE IInv'
    <3>1. SemaphoreTypeOK' /\ WaitingCounts'
      BY <2>1 DEF Signal, Outside, SemaphoreTypeOK, WaitingCounts
    <3>2. CASE NeedsNotify
      <4>1. Cardinality(notifying') = Cardinality(notifying) + 1
        BY <2>1, <3>2, CountThreads DEF Signal, Outside, SemaphoreTypeOK
      <4>2. QED
        BY <2>1, <3>1, <4>1 DEF Signal, SemaphoreTypeOK, WakeupsCoverPermits
    <3>3. CASE ~ NeedsNotify
      <4>1. waiting <= count
        BY <3>3 DEF NeedsNotify, SemaphoreTypeOK
      <4>2. Cardinality(woken) + Cardinality(notifying) >= waiting
        BY <4>1 DEF WakeupsCoverPermits, SemaphoreTypeOK
      <4>3. QED
        BY <2>1, <3>1, <3>3, <4>2 DEF Signal, WakeupsCoverPermits
    <3>4. QED
      BY <3>2, <3>3
  <2>2. ASSUME NEW t \in Threads, NotifyOne(t) PROVE IInv'
    <3>1. SemaphoreTypeOK'
      BY <2>2 DEF NotifyOne, SemaphoreTypeOK
    <3>2. /\ Cardinality(notifying') = Cardinality(notifying) - 1
          /\ Cardinality(notifying) > 0
      BY <2>2, CountThreads DEF NotifyOne, SemaphoreTypeOK
    <3>3. CASE asleep = {} /\ UNCHANGED <<asleep, woken>>
      <4>1. Cardinality(asleep) = 0
        BY <3>3, CountThreads DEF SemaphoreTypeOK
      <4>2. QED
        BY <2>2, <3>1, <3>2, <3>3, <4>1
        DEF NotifyOne, SemaphoreTypeOK, WaitingCounts, WakeupsCoverPermits
    <3>4. CASE \E s \in asleep : asleep' = asleep \ {s} /\ woken' = woken \cup {s}
      <4>1. PICK s \in asleep : asleep' = asleep \ {s} /\ woken' = woken \cup {s}
        BY <3>4
      <4>2. /\ Cardinality(asleep') = Cardinality(asleep) - 1
            /\ Cardinality(woken') = Cardinality(woken) + 1
        BY <4>1, CountThreads DEF SemaphoreTypeOK
      <4>3. QED
        BY <2>2, <3>1, <3>2, <4>2
        DEF NotifyOne, SemaphoreTypeOK, WaitingCounts, WakeupsCoverPermits
    <3>5. QED
      BY <2>2, <3>3, <3>4 DEF NotifyOne
  <2>3. ASSUME NEW t \in Threads, Acquire(t) PROVE IInv'
    BY <2>3 DEF Acquire, SemaphoreTypeOK, WaitingCounts, WakeupsCoverPermits
  <2>4. ASSUME NEW t \in Threads, Sleep(t) PROVE IInv'
    <3>1. Cardinality(asleep') = Cardinality(asleep) + 1
      BY <2>4, CountThreads DEF Sleep, Outside, SemaphoreTypeOK
    <3>2. QED
      BY <2>4, <3>1 DEF Sleep, Outside, SemaphoreTypeOK, WaitingCounts, WakeupsCoverPermits
  <2>5. ASSUME NEW t \in Threads, WakeAcquire(t) PROVE IInv'
    <3>1. /\ Cardinality(woken') = Cardinality(woken) - 1
          /\ Cardinality(woken) > 0
      BY <2>5, CountThreads DEF WakeAcquire, SemaphoreTypeOK
    <3>2. QED
      BY <2>5, <3>1
      DEF WakeAcquire, PermitAtHand, LeaveWait, SemaphoreTypeOK, WaitingCounts,
          WakeupsCoverPermits
  <2>6. ASSUME NEW t \in Threads, WakeSleep(t) PROVE IInv'
    <3>1. /\ Cardinality(woken') = Cardinality(woken) - 1
          /\ Cardinality(woken) > 0
          /\ Cardinality(asleep') = Cardinality(asleep) + 1
      BY <2>6, CountThreads DEF WakeSleep, SemaphoreTypeOK
    <3>2. count = 0 /\ SemaphoreTypeOK'
      BY <2>6 DEF WakeSleep, PermitAtHand, SemaphoreTypeOK
    <3>3. QED
      BY <2>6, <3>1, <3>2 DEF WakeSleep, SemaphoreTypeOK, WaitingCounts, WakeupsCoverPermits
  <2>7. ASSUME NEW t \in Threads, SpuriousWakeup(t) PROVE IInv'
    <3>1. /\ Cardinality(asleep') = Cardinality(asleep) - 1
          /\ Cardinality(woken') = Cardinality(woken) + 1
      BY <2>7, CountThreads DEF SpuriousWakeup, SemaphoreTypeOK
    <3>2. SemaphoreTypeOK'
      BY <2>7 DEF SpuriousWakeup, SemaphoreTypeOK
    <3>3. QED
      BY <2>7, <3>1, <3>2
      DEF SpuriousWakeup, SemaphoreTypeOK, WaitingCounts, WakeupsCoverPermits
  <2>8. CASE UNCHANGED semaphoreVars
    BY <2>8 DEF semaphoreVars, SemaphoreTypeOK, WaitingCounts, WakeupsCoverPermits
  <2>9. QED
    BY <2>1, <2>2, <2>3, <2>4, <2>5, <2>6, <2>7, <2>8 DEF SemaphoreNext, Wake
<1>3. QED
  BY <1>1, <1>2, PTL DEF SemaphoreSafeSpec

\* The fields keep their types, and no thread is in two places at once.
THEOREM TypeCorrect == SemaphoreSafeSpec => []SemaphoreTypeOK
<1>1. IInv => SemaphoreTypeOK
  BY DEF IInv
<1>2. QED
  BY <1>1, Invariance, PTL

\* No lost wake-up: a thread sleeps next to a permit only while a wake-up is
\* on its way, whatever overtakes it and however often it wakes spuriously.
THEOREM NeverLosesWakeup == SemaphoreSafeSpec => []NoLostWakeup
<1>1. IInv => NoLostWakeup
  <2> SUFFICES ASSUME IInv, asleep # {}, count > 0
               PROVE  woken # {} \/ notifying # {}
    BY DEF NoLostWakeup
  <2>1. Cardinality(asleep) > 0
    BY CountThreads DEF IInv, SemaphoreTypeOK
  <2>2. Cardinality(woken) + Cardinality(notifying) > 0
    BY <2>1, Counted DEF IInv, SemaphoreTypeOK, WaitingCounts, WakeupsCoverPermits
  <2>3. QED
    BY <2>2, CountThreads, Counted DEF IInv, SemaphoreTypeOK
<1>2. QED
  BY <1>1, Invariance, PTL

\* Every step of the implementation is a step of the counting semaphore or
\* leaves its state alone.
THEOREM Refinement == SemaphoreSafeSpec => CountingSemaphoreSafety
<1> USE DEF Abstract!absVars
<1>1. SemaphoreInit => Abstract!AbsInit
  BY DEF SemaphoreInit, Abstract!AbsInit
<1>2. SemaphoreTypeOK /\ [SemaphoreNext]_semaphoreVars => [Abstract!AbsNext]_(Abstract!absVars)
  <2> SUFFICES ASSUME SemaphoreTypeOK, [SemaphoreNext]_semaphoreVars
               PROVE  Abstract!AbsNext \/ UNCHANGED <<count, asleep \cup woken>>
    OBVIOUS
  <2> USE DEF SemaphoreTypeOK, Outside, Abstract!AbsNext
  <2>1. ASSUME NEW t \in Threads, Signal(t) PROVE Abstract!AbsNext
    BY <2>1 DEF Signal, Abstract!Up
  <2>2. ASSUME NEW t \in Threads, NotifyOne(t)
        PROVE  UNCHANGED <<count, asleep \cup woken>>
    BY <2>2 DEF NotifyOne
  <2>3. ASSUME NEW t \in Threads, Acquire(t) PROVE Abstract!AbsNext
    BY <2>3 DEF Acquire, Abstract!Down
  <2>4. ASSUME NEW t \in Threads, Sleep(t) PROVE Abstract!AbsNext
    BY <2>4 DEF Sleep, Abstract!Block
  <2>5. ASSUME NEW t \in Threads, WakeAcquire(t) PROVE Abstract!AbsNext
    BY <2>5 DEF WakeAcquire, PermitAtHand, Abstract!Unblock
  <2>6. ASSUME NEW t \in Threads, WakeSleep(t)
        PROVE  UNCHANGED <<count, asleep \cup woken>>
    BY <2>6 DEF WakeSleep
  <2>7. ASSUME NEW t \in Threads, SpuriousWakeup(t)
        PROVE  UNCHANGED <<count, asleep \cup woken>>
    BY <2>7 DEF SpuriousWakeup
  <2>8. CASE UNCHANGED semaphoreVars
    BY <2>8 DEF semaphoreVars
  <2>9. QED
    BY <2>1, <2>2, <2>3, <2>4, <2>5, <2>6, <2>7, <2>8 DEF SemaphoreNext, Wake
<1>3. QED
  BY <1>1, <1>2, TypeCorrect, PTL
  DEF SemaphoreSafeSpec, CountingSemaphoreSafety, Abstract!AbsSafeSpec
==============================================================================
