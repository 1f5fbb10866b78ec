--------------------------- MODULE GlobalDispatcher ---------------------------
(***************************************************************************)
(* bitpowder::lib::GlobalDispatcher (bitpowder/dispatch.cpp): the pool of  *)
(* threads on which every dispatch queue and every parallel() of the tools *)
(* runs.  Operations wait in one queue per priority; a thread of the pool  *)
(* takes the oldest operation of the highest priority, executes it outside *)
(* the lock, and blocks on a condition variable when there is none.        *)
(* dispatchQueue() appends a batch under the lock, decides there whether   *)
(* to notify all threads or as many as there are new operations, and       *)
(* notifies after it released the lock.                                    *)
(*                                                                         *)
(* A step is what one thread does while it holds the lock, one call on the *)
(* condition variable, or the end of one operation.                        *)
(***************************************************************************)
EXTENDS Integers, FiniteSets, SequencesExt

CONSTANTS Pool,           \* the threads the pool may come to have
          Callers,        \* threads outside the pool
          Ops,            \* the dispatch operations
          Priorities,     \* number of priorities, Dispatch::priorities
          MaxBatch,       \* bound on the operations handed over in one call
          NoOp            \* what a thread executes that executes nothing

ASSUME DispatcherAssumption ==
    /\ IsFiniteSet(Pool) /\ IsFiniteSet(Callers) /\ IsFiniteSet(Ops)
    /\ Pool \cap Callers = {}
    /\ Priorities \in Nat \ {0}
    /\ MaxBatch \in Nat \ {0}
    /\ NoOp \notin Ops

VARIABLES
    q,                  \* the queue of each priority
    waiting,            \* GlobalDispatcher::waiting
    executing,          \* DispatcherFor::executing, threads inside doRun
    maximumExecuting,   \* DispatcherFor::maximumExecuting
    new,                \* threads created, before they enter doRun
    contending,         \* threads on their way to the lock after an operation
    asleep,             \* threads blocked in cv.wait
    woken,              \* threads cv.wait has released, on their way to the lock
    current,            \* the operation each thread of the pool executes
    notifyOne,          \* calls of cv.notify_one each thread still has to make
    notifyAll,          \* threads that still have to call cv.notify_all
    finished            \* operations executed or aborted

vars == <<q, waiting, executing, maximumExecuting, new, contending, asleep,
          woken, current, notifyOne, notifyAll, finished>>

notifications == <<notifyOne, notifyAll>>
threads == <<new, contending, asleep, woken, current>>

Init ==
    /\ q = [p \in 0 .. Priorities - 1 |-> <<>>]
    /\ waiting = 0
    /\ executing = 0
    /\ maximumExecuting = 0
    /\ new = {} /\ contending = {} /\ asleep = {} /\ woken = {}
    /\ current = [t \in Pool |-> NoOp]
    /\ notifyOne = [t \in Pool \cup Callers |-> 0]
    /\ notifyAll = {}
    /\ finished = {}

Queued == UNION {ToSet(q[p]) : p \in DOMAIN q}
Running == {current[t] : t \in Pool} \ {NoOp}
Busy == {t \in Pool : current[t] # NoOp}
Created == new \cup contending \cup asleep \cup woken \cup Busy

\* A DispatchOperation is linked into a queue by its own next field: it is
\* dispatched by one caller at a time (here: once).
Fresh == Ops \ (Queued \cup Running \cup finished)

\* Callers run code of their own, threads of the pool the code of an operation.
CanCall(t) ==
    /\ t \in Callers \cup Busy
    /\ notifyOne[t] = 0
    /\ t \notin notifyAll
------------------------------------------------------------------------------
\* A priority out of range is taken for the highest.
Clamp(priority) == IF priority >= Priorities THEN Priorities - 1 ELSE priority

\* Fewer waiting threads than new operations: wake them all.
WakeAll(n) == waiting < n /\ waiting > 0

\* Mutant of WakeEach: one notification for the whole batch.
WakeEachOnce(n) == 1

\* Otherwise one notify_one for each new operation.
WakeEach(n) == n

\* dispatchQueue(batch, priority), as far as the release of the lock.
DispatchQueue(t, batch, priority) ==
    /\ CanCall(t)
    /\ q' = [q EXCEPT ![Clamp(priority)] = @ \o batch]
    /\ IF WakeAll(Len(batch))
       THEN notifyAll' = notifyAll \cup {t} /\ UNCHANGED notifyOne
       ELSE notifyOne' = [notifyOne EXCEPT ![t] = WakeEach(Len(batch))]
            /\ UNCHANGED notifyAll
    /\ UNCHANGED <<waiting, executing, maximumExecuting, threads, finished>>

\* One cv.notify_one of the loop at the end of dispatchQueue.
NotifyOne(t) ==
    /\ notifyOne[t] > 0
    /\ notifyOne' = [notifyOne EXCEPT ![t] = @ - 1]
    /\ \/ asleep = {} /\ UNCHANGED <<asleep, woken>>
       \/ \E s \in asleep : asleep' = asleep \ {s} /\ woken' = woken \cup {s}
    /\ UNCHANGED <<q, waiting, executing, maximumExecuting, new, contending,
                   current, notifyAll, finished>>

\* cv.notify_all at the end of dispatchQueue.
NotifyAll(t) ==
    /\ t \in notifyAll
    /\ notifyAll' = notifyAll \ {t}
    /\ woken' = woken \cup asleep
    /\ asleep' = {}
    /\ UNCHANGED <<q, waiting, executing, maximumExecuting, new, contending,
                   current, notifyOne, finished>>

\* How many threads ensure() has to start.
MissingThreads(total) ==
    IF maximumExecuting < total THEN total - maximumExecuting ELSE 0

\* ensure(total): starts the missing threads while it holds the lock.
Ensure(t, total) ==
    /\ CanCall(t)
    /\ \E started \in SUBSET (Pool \ Created) :
          /\ Cardinality(started) = MissingThreads(total)
          /\ new' = new \cup started
    /\ maximumExecuting' = maximumExecuting + MissingThreads(total)
    /\ UNCHANGED <<q, waiting, executing, contending, asleep, woken, current,
                   notifications, finished>>

\* start(): one more thread, which nobody counts before it enters doRun.
Start(t) ==
    /\ CanCall(t)
    /\ \E w \in Pool \ Created : new' = new \cup {w}
    /\ UNCHANGED <<q, waiting, executing, maximumExecuting, contending, asleep,
                   woken, current, notifications, finished>>
------------------------------------------------------------------------------
\* The fetch of DispatcherFor, from the first queue that is not empty.
TopPriority(p) ==
    /\ q[p] # <<>>
    /\ \A r \in DOMAIN q : q[r] # <<>> => r <= p

\* maximumExecuting when a thread enters doRun as the running-th: ensure() has
\* counted its threads already, start() has not.
CountThread(running) ==
    IF running > maximumExecuting THEN maximumExecuting + 1 ELSE maximumExecuting

\* Entry of a thread in doRun, or nothing if it has been there before.
EnterRun(t) ==
    IF t \in new
    THEN executing' = executing + 1 /\ maximumExecuting' = CountThread(executing + 1)
    ELSE UNCHANGED <<executing, maximumExecuting>>

\* waiting, once a thread released from cv.wait is back.
LeaveWait(t) == IF t \in woken THEN waiting - 1 ELSE waiting

HasLock(t) == t \in new \cup contending \cup woken

\* Mutant of Refetch: a woken thread does not look at the queues again.
RefetchNever(t) == t \notin woken

\* After cv.wait the loop calls fetch again.
Refetch(t) == TRUE

\* A thread that got the lock finds an operation and releases the lock.
Take(t) ==
    /\ HasLock(t) /\ Refetch(t)
    /\ \E p \in DOMAIN q :
          /\ TopPriority(p)
          /\ current' = [current EXCEPT ![t] = Head(q[p])]
          /\ q' = [q EXCEPT ![p] = Tail(@)]
    /\ waiting' = LeaveWait(t)
    /\ new' = new \ {t} /\ contending' = contending \ {t} /\ woken' = woken \ {t}
    /\ EnterRun(t)
    /\ UNCHANGED <<asleep, notifications, finished>>

\* A thread that got the lock finds nothing: ++waiting and cv.wait.
Sleep(t) ==
    /\ HasLock(t)
    /\ Refetch(t) => Queued = {}
    /\ asleep' = asleep \cup {t}
    /\ waiting' = LeaveWait(t) + 1
    /\ new' = new \ {t} /\ contending' = contending \ {t} /\ woken' = woken \ {t}
    /\ EnterRun(t)
    /\ UNCHANGED <<q, current, notifications, finished>>

\* cv.wait may return without a notification.
SpuriousWakeup(t) ==
    /\ t \in asleep
    /\ asleep' = asleep \ {t}
    /\ woken' = woken \cup {t}
    /\ UNCHANGED <<q, waiting, executing, maximumExecuting, new, contending,
                   current, notifications, finished>>

\* The operation returns, or throws and is told so by aborted(); either way
\* the thread lives on and takes the lock again.
Complete(t) ==
    /\ t \in Busy
    /\ notifyOne[t] = 0 /\ t \notin notifyAll
    /\ finished' = finished \cup {current[t]}
    /\ current' = [current EXCEPT ![t] = NoOp]
    /\ contending' = contending \cup {t}
    /\ UNCHANGED <<q, waiting, executing, maximumExecuting, new, asleep, woken,
                   notifications>>
------------------------------------------------------------------------------
\* Batches are built from operations that are not queued anywhere.
Batches == {batch \in SeqOf(Fresh, MaxBatch) :
                batch # <<>> /\ IsInjective(batch)}

Call(t) ==
    \/ \E batch \in Batches, priority \in 0 .. Priorities :
          DispatchQueue(t, batch, priority)
    \/ Start(t)
    \/ \E total \in 1 .. Cardinality(Pool) : Ensure(t, total)

Notify(t) == NotifyOne(t) \/ NotifyAll(t)

Run(t) == Take(t) \/ Sleep(t) \/ Complete(t)

Next ==
    \/ \E t \in Callers \cup Pool : Call(t) \/ Notify(t)
    \/ \E t \in Pool : Run(t) \/ SpuriousWakeup(t)

\* The operating system runs the threads, and operations terminate.  No caller
\* has to dispatch anything.
Fairness ==
    /\ \A t \in Callers \cup Pool : WF_vars(Notify(t))
    /\ \A t \in Pool : WF_vars(Run(t))

SafeSpec == Init /\ [][Next]_vars

Spec == SafeSpec /\ Fairness
------------------------------------------------------------------------------
\* The calls of cv.notify_one still to come, numbered for each thread.
PendingCalls ==
    {call \in (Pool \cup Callers) \X (1 .. MaxBatch) : call[2] <= notifyOne[call[1]]}

Pending == Cardinality(PendingCalls)

\* An operation is queued at one place only.
QueuedOnce ==
    /\ \A p \in DOMAIN q : IsInjective(q[p])
    /\ \A p, r \in DOMAIN q : p # r => ToSet(q[p]) \cap ToSet(q[r]) = {}

QueueLength == Cardinality(Queued)

\* The fields keep their types; a thread is in one place at a time.
TypeOK ==
    /\ q \in [0 .. Priorities - 1 -> Seq(Ops)]
    /\ waiting = Cardinality(asleep) + Cardinality(woken)
    /\ executing \in Nat /\ maximumExecuting \in Nat
    /\ \A S \in {new, contending, asleep, woken} : S \subseteq Pool
    /\ current \in [Pool -> Ops \cup {NoOp}]
    /\ new \cap (contending \cup asleep \cup woken \cup Busy) = {}
    /\ contending \cap (asleep \cup woken \cup Busy) = {}
    /\ asleep \cap (woken \cup Busy) = {}
    /\ woken \cap Busy = {}
    /\ notifyOne \in [Pool \cup Callers -> 0 .. MaxBatch]
    /\ notifyAll \subseteq Pool \cup Callers
    /\ finished \subseteq Ops

\* The wake-ups under way reach as far as the queued operations or as far as
\* the waiting threads.
WakeupsCoverWork ==
    \/ notifyAll # {}
    \/ Cardinality(woken) + Pending >= QueueLength
    \/ Cardinality(woken) + Pending >= waiting

\* executing counts the threads in doRun, and maximumExecuting is between those
\* and all that exist.
PoolIsCounted ==
    /\ executing = Cardinality(Created \ new)
    /\ executing <= maximumExecuting
    /\ maximumExecuting <= Cardinality(Created)

\* The pool keeps up with the operations: the choice between notify_all and
\* notify_one, made under the lock and carried out after it, never wakes too few
\* threads; and the counts that ensure() relies on catch up with the threads that
\* exist, however those it counts in advance and those that start() leaves to
\* count themselves come to enter doRun.
PoolKeepsUp == WakeupsCoverWork /\ PoolIsCounted

\* With a pool, each dispatched operation is executed in the end, whatever
\* other operations are dispatched and whoever is notified for them.
EveryOperationRuns ==
    \A op \in Ops : (op \in Queued /\ Created # {}) ~> (op \in finished)
==============================================================================
