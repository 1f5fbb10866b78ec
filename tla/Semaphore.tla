------------------------------ MODULE Semaphore ------------------------------
(***************************************************************************)
(* bitpowder::lib::Semaphore (bitpowder/semaphore.h), the variant that is  *)
(* compiled: a counter and a count of waiters under a std::mutex, and a    *)
(* std::condition_variable.  signal() calls notify_one only if it has to,  *)
(* and after it released the mutex; wait() has to cope with spurious       *)
(* wake-ups and with callers that take a permit before the thread that was *)
(* notified for it gets the mutex.                                         *)
(*                                                                         *)
(* A step is what one thread does while it holds the mutex, or one call on *)
(* the condition variable.                                                 *)
(***************************************************************************)
EXTENDS Naturals, FiniteSets

CONSTANTS Threads,        \* the threads that share the semaphore
          InitialValue,   \* argument of the constructor
          MaxCount        \* bound on count, for the width of int

ASSUME SemaphoreAssumption ==
    /\ IsFiniteSet(Threads)
    /\ MaxCount \in Nat
    /\ InitialValue \in 0 .. MaxCount

VARIABLES
    count,       \* Semaphore::count
    waiting,     \* Semaphore::waiting
    asleep,      \* threads blocked in c.wait
    woken,       \* threads c.wait has released, on their way to the mutex
    notifying    \* threads in signal(), mutex released, before c.notify_one

semaphoreVars == <<count, waiting, asleep, woken, notifying>>

SemaphoreInit ==
    /\ count = InitialValue
    /\ waiting = 0
    /\ asleep = {}
    /\ woken = {}
    /\ notifying = {}

Outside(t) == t \notin asleep \cup woken \cup notifying

\* Mutant of NeedsNotify: off by one, skips the last waiter.
NeedsNotifyOffByOne == waiting > count + 1

\* The test of signal(), after its ++count: a permit nobody is woken for yet?
NeedsNotify == waiting >= count + 1

\* signal(), as far as the release of the mutex.
Signal(t) ==
    /\ Outside(t)
    /\ count < MaxCount
    /\ count' = count + 1
    /\ notifying' = IF NeedsNotify THEN notifying \cup {t} ELSE notifying
    /\ UNCHANGED <<waiting, asleep, woken>>

\* c.notify_one(): wakes one of the sleeping threads, if there is any.
NotifyOne(t) ==
    /\ t \in notifying
    /\ notifying' = notifying \ {t}
    /\ \/ asleep = {} /\ UNCHANGED <<asleep, woken>>
       \/ \E s \in asleep : asleep' = asleep \ {s} /\ woken' = woken \cup {s}
    /\ UNCHANGED <<count, waiting>>

\* wait() with a permit at hand.
Acquire(t) ==
    /\ Outside(t)
    /\ count > 0
    /\ count' = count - 1
    /\ UNCHANGED <<waiting, asleep, woken, notifying>>

\* wait() without one: waiting++ and c.wait, which releases the mutex.
Sleep(t) ==
    /\ Outside(t)
    /\ count = 0
    /\ waiting' = waiting + 1
    /\ asleep' = asleep \cup {t}
    /\ UNCHANGED <<count, woken, notifying>>

\* The loop test of wait(), evaluated anew after each return of c.wait.
PermitAtHand == count > 0

LeaveWait == waiting' = waiting - 1

\* Back from c.wait with the mutex: waiting--, the loop test, --count.
WakeAcquire(t) ==
    /\ t \in woken
    /\ PermitAtHand
    /\ LeaveWait
    /\ count' = count - 1
    /\ woken' = woken \ {t}
    /\ UNCHANGED <<asleep, notifying>>

\* Back from c.wait, but the permit is gone: waiting--, waiting++, c.wait.
WakeSleep(t) ==
    /\ t \in woken
    /\ ~ PermitAtHand
    /\ woken' = woken \ {t}
    /\ asleep' = asleep \cup {t}
    /\ UNCHANGED <<count, waiting, notifying>>

\* The C++ standard lets c.wait return without a notification.
SpuriousWakeup(t) ==
    /\ t \in asleep
    /\ asleep' = asleep \ {t}
    /\ woken' = woken \cup {t}
    /\ UNCHANGED <<count, waiting, notifying>>

Wake(t) == WakeAcquire(t) \/ WakeSleep(t)

SemaphoreNext == \E t \in Threads :
    \/ Signal(t) \/ NotifyOne(t)
    \/ Acquire(t) \/ Sleep(t) \/ Wake(t) \/ SpuriousWakeup(t)

\* A thread inside signal() or released from c.wait is run by the operating
\* system until it is through; calls and spurious wake-ups need never come.
SemaphoreFairness == \A t \in Threads : WF_semaphoreVars(NotifyOne(t)) /\ WF_semaphoreVars(Wake(t))

SemaphoreSafeSpec == SemaphoreInit /\ [][SemaphoreNext]_semaphoreVars

SemaphoreSpec == SemaphoreSafeSpec /\ SemaphoreFairness
------------------------------------------------------------------------------
\* The fields keep their types, and no thread is in two places.
SemaphoreTypeOK ==
    /\ count \in 0 .. MaxCount
    /\ waiting \in Nat
    /\ asleep \subseteq Threads
    /\ woken \subseteq Threads
    /\ notifying \subseteq Threads
    /\ asleep \cap woken = {}
    /\ notifying \cap (asleep \cup woken) = {}

\* Semaphore::waiting counts the threads inside c.wait and those that left it
\* but do not hold the mutex yet: signal() compares it with count.
WaitingCounts == waiting = Cardinality(asleep) + Cardinality(woken)

\* Each permit that a waiter could use has a wake-up under way for it: the test
\* "waiting >= count" of signal() never saves a notification that is needed.
WakeupsCoverPermits ==
    \/ Cardinality(woken) + Cardinality(notifying) >= count
    \/ Cardinality(woken) + Cardinality(notifying) >= waiting

\* No lost wake-up: a thread sleeps next to a permit only while a wake-up is
\* still on its way, in spite of overtaking callers and spurious wake-ups.
NoLostWakeup == (asleep # {} /\ count > 0) => (woken # {} \/ notifying # {})

\* The implementation, with its mutex and condition variable, is a counting
\* semaphore: blocked are the threads inside wait().
Abstract == INSTANCE CountingSemaphore
              WITH value <- count, blocked <- asleep \cup woken

CountingSemaphoreSafety == Abstract!AbsSafeSpec

\* With its liveness: permits are not left lying while threads are blocked.
IsCountingSemaphore == Abstract!AbsSpec
==============================================================================
