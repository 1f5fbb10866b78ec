------------------------------- MODULE Parallel -------------------------------
(***************************************************************************)
(* bitpowder::lib::parallel(items) (bitpowder/dispatch.cpp): a Worker, a   *)
(* DispatchQueue on the stack of the caller, executes the items on the     *)
(* threads of the global dispatcher; the caller waits on a Semaphore until *)
(* it may return and so destroy the Worker.  The reference count covers    *)
(* each item and each runner, and the one who brings it to zero signals.   *)
(*                                                                         *)
(* The semaphore is used by its abstract specification, which Semaphore    *)
(* implements.                                                             *)
(***************************************************************************)
EXTENDS DispatchQueue

CONSTANTS Main,        \* the thread that calls parallel()
          AllItems     \* the argument: a sequence of items

\* Of all the uses of a DispatchQueue, a Worker has one client, is not paused, and does not
\* have an item twice.  (Not an assumption here: the queue is proved about for all its uses.)
OneCaller ==
    /\ Clients = {Main}
    /\ MaxPauses = 0
    /\ AllItems \in Seq(Items)
    /\ IsInjective(AllItems)

VARIABLES
    pc,          \* where the caller is
    refcount,    \* Worker::refcount
    linking,     \* threads in dispatchSelf() after ++refcount
    owing,       \* runners that finished an item, before --refcount
    leaving,     \* runners back from DispatchQueueFor::execute()
    signalling,  \* runners that brought refcount to zero, before sem.signal()
    value,       \* permits of Worker::sem
    blocked,     \* threads blocked in sem.wait()
    informing,   \* runners in sem.signal(), mutex released, before c.notify_one
    wokenEarly   \* history: the caller left sem.wait() before that notification

workerVars == <<pc, refcount, linking, owing, leaving, signalling>>
semVars == <<value, blocked, informing, wokenEarly>>
parallelVars == <<queueVars, workerVars, semVars>>

Sem == INSTANCE CountingSemaphore
         WITH Threads <- {Main}, InitialValue <- 0, MaxCount <- 2

ParallelInit ==
    /\ Init
    /\ pc = "count"
    /\ refcount = 0
    /\ linking = {} /\ owing = {} /\ leaving = {} /\ signalling = {}
    /\ Sem!AbsInit
    /\ informing = {} /\ wokenEarly = FALSE
------------------------------------------------------------------------------
\* Mutant of CountItems: the items are counted as one.
CountItemsAsOne == refcount' = refcount + 1

CountItems == refcount' = refcount + Len(AllItems)

\* Worker::dispatchQueue: refcount += count.
Count ==
    /\ pc = "count"
    /\ CountItems
    /\ pc' = "dispatch"
    /\ UNCHANGED <<queueVars, linking, owing, leaving, signalling, semVars>>

\* DispatchQueueFor::dispatchQueue, which returns at once for an empty queue.
Dispatch ==
    /\ pc = "dispatch"
    /\ IF AllItems = <<>> THEN UNCHANGED queueVars ELSE Submit(Main, AllItems)
    /\ pc' = "wait"
    /\ UNCHANGED <<refcount, linking, owing, leaving, signalling, semVars>>

\* Mutant of CountedRunner: runners are not counted.
CountedRunnerForgotten == refcount

CountedRunner == refcount + 1

\* Worker::dispatchSelf: ++refcount, before the runner can start.
CountRunner(t) ==
    /\ t \in handing \ linking
    /\ refcount' = CountedRunner
    /\ linking' = linking \cup {t}
    /\ UNCHANGED <<queueVars, pc, owing, leaving, signalling, semVars>>

\* DispatchQueueFor::dispatchSelf.
LinkRunner(t) ==
    /\ t \in linking
    /\ DispatchSelf(t)
    /\ linking' = linking \ {t}
    /\ UNCHANGED <<pc, refcount, owing, leaving, signalling, semVars>>
------------------------------------------------------------------------------
\* A thread of the pool takes the Worker up.
StartRunner(r) ==
    /\ r \notin leaving \cup signalling \cup informing
    /\ Pop(r)
    /\ UNCHANGED <<workerVars, semVars>>

\* DispatchQueueFor::execute() under the lock; its last step brings the runner
\* back to Worker::execute().
RunLocked(r) ==
    /\ r \notin owing
    /\ Begin(r) \/ Resume(r)
    /\ leaving' = IF r \in inside' THEN leaving ELSE leaving \cup {r}
    /\ UNCHANGED <<pc, refcount, linking, owing, signalling, semVars>>

\* item->execute(), which may throw, and then item->aborted().
RunItem(r) ==
    /\ r \notin owing
    /\ \E throws \in BOOLEAN : FinishItem(r, throws)
    /\ owing' = owing \cup {r}
    /\ UNCHANGED <<pc, refcount, linking, leaving, signalling, semVars>>

\* executeOn() and abortedOn(): --refcount for the item.
ReleaseItem(r) ==
    /\ r \in owing
    /\ refcount' = refcount - 1
    /\ owing' = owing \ {r}
    /\ UNCHANGED <<queueVars, pc, linking, leaving, signalling, semVars>>

\* Mutant of LastOne: the value before the decrement is tested.
LastOneOffByOne == refcount = 0

\* The test of Worker::execute(), --refcount == 0.
LastOne == refcount = 1

ReleaseRunner(r) ==
    /\ r \in leaving
    /\ refcount' = refcount - 1
    /\ leaving' = leaving \ {r}
    /\ signalling' = IF LastOne THEN signalling \cup {r} ELSE signalling
    /\ UNCHANGED <<queueVars, pc, linking, owing, semVars>>

\* sem.signal() as far as the release of the mutex: it still has to notify the
\* caller, if that one was waiting.
SignalCaller(r) ==
    /\ r \in signalling
    /\ Sem!Up
    /\ signalling' = signalling \ {r}
    /\ informing' = IF Main \in blocked THEN informing \cup {r} ELSE informing
    /\ UNCHANGED <<queueVars, pc, refcount, linking, owing, leaving, wokenEarly>>

\* c.notify_one(), the last that signal() does with the semaphore.
Notify(r) ==
    /\ r \in informing
    /\ informing' = informing \ {r}
    /\ UNCHANGED <<queueVars, workerVars, value, blocked, wokenEarly>>

\* Worker::wait(), and the end of parallel(), which destroys the Worker; a caller
\* that is blocked waits for the notification.
Wait ==
    /\ pc = "wait" /\ Main \notin handing
    /\ \/ Sem!Block(Main) /\ UNCHANGED pc
       \/ Sem!Down(Main) /\ pc' = "returned"
       \/ Sem!Unblock(Main) /\ informing = {} /\ pc' = "returned"
    /\ UNCHANGED <<queueVars, refcount, linking, owing, leaving, signalling>>
    /\ UNCHANGED <<informing, wokenEarly>>

\* c.wait() may return without a notification: the caller finds the permit before
\* the runner that left it has called c.notify_one().
WakeSpuriously ==
    /\ pc = "wait" /\ informing # {}
    /\ Sem!Unblock(Main)
    /\ pc' = "returned"
    /\ wokenEarly' = TRUE
    /\ UNCHANGED <<queueVars, refcount, linking, owing, leaving, signalling, informing>>
------------------------------------------------------------------------------
Caller == Count \/ Dispatch \/ Wait

Thread(t) == CountRunner(t) \/ LinkRunner(t)

Runner(r) == \/ StartRunner(r) \/ RunLocked(r) \/ RunItem(r) \/ ReleaseItem(r)
             \/ ReleaseRunner(r) \/ SignalCaller(r) \/ Notify(r)

ParallelNext == \/ Caller \/ WakeSpuriously
                \/ \E t \in Clients \cup Runners : Thread(t)
                \/ \E r \in Runners : Runner(r)

\* The caller and the threads of the pool are run by the operating system, and
\* items terminate; a spurious wake-up need never come.
ParallelFairness ==
    /\ WF_parallelVars(Caller)
    /\ \A t \in Clients \cup Runners : WF_parallelVars(Thread(t))
    /\ \A r \in Runners : WF_parallelVars(Runner(r))

ParallelSafeSpec == ParallelInit /\ [][ParallelNext]_parallelVars

ParallelSpec == ParallelSafeSpec /\ ParallelFairness
------------------------------------------------------------------------------
ParallelTypeOK ==
    /\ TypeOK
    /\ pc \in {"count", "dispatch", "wait", "returned"}
    /\ refcount \in Nat /\ value \in 0 .. 1
    /\ linking \subseteq handing
    /\ owing \subseteq inside
    /\ leaving \subseteq Runners \ (inside \cup popped)
    /\ signalling \subseteq Runners \ (inside \cup popped \cup leaving)
    /\ blocked \subseteq {Main}
    /\ informing \subseteq Runners \ (inside \cup popped \cup leaving \cup signalling)
    /\ wokenEarly \in BOOLEAN

\* Items that are not accounted for yet, runners on their way into the loop of
\* execute(), and runners in it or on their way out.
OpenItems == (IF pc = "count" THEN 0 ELSE Len(AllItems) - Len(finished))
             + Cardinality(owing)

RunnersComing == Cardinality(linking) + enqueued + Cardinality(popped)

RunnersThere == Cardinality(inside) + Cardinality(leaving)

\* The reference count is exact: one for each item that is not accounted for
\* yet and one for each runner from its dispatchSelf() to the end of execute(),
\* whatever the items and the runners do at the same time.
RefcountExact == refcount = OpenItems + RunnersComing + RunnersThere

\* When parallel() returns all items are done and no thread will touch the
\* Worker, which ceases to exist, again.  One touch is excepted: if the caller woke
\* without being notified, one runner may still have to call c.notify_one() on the
\* condition variable of the Worker (semaphore.h:49-51).
NobodyLeftBehind ==
    pc = "returned" =>
        /\ Len(finished) = Len(AllItems)
        /\ handing = {} /\ enqueued = 0 /\ popped = {} /\ inside = {}
        /\ leaving = {} /\ signalling = {}
        /\ IF wokenEarly THEN Cardinality(informing) <= 1 ELSE informing = {}

\* parallel() executes each item once and then returns.  Of an empty list, which the
\* instances leave out, only the safety is true: nobody ever signals (dispatch.cpp:290).
AbstractCall == INSTANCE AbstractParallel
              WITH Work <- ToSet(AllItems), done <- ToSet(finished),
                   returned <- pc = "returned"

ImplementsParallel == AbstractCall!AbsSpec
==============================================================================
