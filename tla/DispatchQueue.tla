----------------------------- MODULE DispatchQueue -----------------------------
(***************************************************************************)
(* bitpowder::lib::DispatchQueueFor (bitpowder/dispatch.h): a queue of     *)
(* items that are executed by at most maximumExecuting runners.  A runner  *)
(* is the queue itself, dispatched as an operation on a target dispatcher, *)
(* whose threads call execute().  As an operation can be linked into the   *)
(* target's queue only once, the flag dispatched says whether a runner is  *)
(* on its way; runners dispatch further runners while there is work.       *)
(*                                                                         *)
(* All instances in the tools have one priority (the constructor compiles  *)
(* for one only).  A step is what a thread does while it holds the spin    *)
(* lock, one call of the target dispatcher, or the execution of one item.  *)
(***************************************************************************)
EXTENDS Integers, FiniteSets, SequencesExt

CONSTANTS Runners,           \* threads of the target dispatcher
          Clients,           \* threads that dispatch items
          Items,
          MaximumExecuting,  \* DispatcherFor::maximumExecuting
          MaxPauses          \* bound on the calls of pause()

ASSUME DispatchQueueAssumption ==
    /\ IsFiniteSet(Runners) /\ IsFiniteSet(Clients) /\ IsFiniteSet(Items)
    /\ Runners \cap Clients = {}
    /\ MaximumExecuting \in Nat
    /\ MaxPauses \in Nat

VARIABLES
    q,            \* items not handed to a runner
    active,       \* DispatchQueueFor::active
    dispatched,   \* DispatchQueueFor::dispatched
    executing,    \* DispatcherFor::executing
    handing,      \* threads that released the lock and will call dispatchSelf
    enqueued,     \* how often the queue is linked into the target's queue
    popped,       \* runners taken from there, before they get the lock
    inside,       \* runners in the loop of execute()
    locking,      \* those of them that are on their way to the lock
    work,         \* the local queue e of each runner, the item in execution first
    submitted,    \* history: the items in the order in which they were queued
    finished,     \* history: the items in the order in which they were finished
    pauses        \* calls of pause() so far

queueVars == <<q, active, dispatched, executing, handing, enqueued, popped,
               inside, locking, work, submitted, finished, pauses>>

Init ==
    /\ q = <<>>
    /\ active = TRUE
    /\ dispatched = FALSE
    /\ executing = 0
    /\ handing = {} /\ enqueued = 0 /\ popped = {}
    /\ inside = {} /\ locking = {}
    /\ work = [r \in Runners |-> <<>>]
    /\ submitted = <<>> /\ finished = <<>>
    /\ pauses = 0

Fresh == Items \ ToSet(submitted)
------------------------------------------------------------------------------

\* Mutant of Enlist: the new items go first.
EnlistInFront(items) == items \o q

\* q[priority].splice(queue).
Enlist(items) == q \o items

\* Mutant of RoomForRunner: no runner for the first item.
RoomForRunnerIfQueued ==
    active /\ executing < MaximumExecuting /\ ~ dispatched /\ q # <<>>

\* May dispatchQueue send a runner?
RoomForRunner == active /\ executing < MaximumExecuting /\ ~ dispatched

\* dispatchQueue(items), as far as the release of the lock.
Submit(c, items) ==
    /\ c \notin handing
    /\ items # <<>>
    /\ q' = Enlist(items)
    /\ submitted' = submitted \o items
    /\ IF RoomForRunner
       THEN dispatched' = TRUE /\ handing' = handing \cup {c}
       ELSE UNCHANGED <<dispatched, handing>>
    /\ UNCHANGED <<active, executing, enqueued, popped, inside, locking, work,
                   finished, pauses>>

\* dispatchSelf(): the queue is linked into the queue of the target; a runner
\* that does so goes on to lock the queue again.
DispatchSelf(t) ==
    /\ t \in handing
    /\ handing' = handing \ {t}
    /\ enqueued' = enqueued + 1
    /\ locking' = locking \cup ({t} \cap inside)
    /\ UNCHANGED <<q, active, dispatched, executing, popped, inside, work,
                   submitted, finished, pauses>>

\* A thread of the target takes the queue from its own queue.
Pop(r) ==
    /\ r \in Runners \ (popped \cup inside)
    /\ enqueued > 0
    /\ enqueued' = enqueued - 1
    /\ popped' = popped \cup {r}
    /\ UNCHANGED <<q, active, dispatched, executing, handing, inside, locking,
                   work, submitted, finished, pauses>>
------------------------------------------------------------------------------
\* fetch(): the only runner there can be takes all items, others take one each.
TakeSize == IF MaximumExecuting = 1 THEN Len(q) ELSE 1

\* The items runner r goes on with: what it has left, else what it fetches.
NextWork(r) == IF active /\ work[r] = <<>>
               THEN SubSeq(q, 1, IF q = <<>> THEN 0 ELSE TakeSize) ELSE work[r]

\* The loop of execute() under the lock, for a runner when n are executing.
FetchOrLeave(r, n) ==
    /\ work' = [work EXCEPT ![r] = NextWork(r)]
    /\ q' = IF active /\ work[r] = <<>>
            THEN SubSeq(q, Len(NextWork(r)) + 1, Len(q)) ELSE q
    /\ locking' = locking \ {r}
    /\ IF NextWork(r) = <<>>
       THEN executing' = n - 1 /\ inside' = inside \ {r}
       ELSE executing' = n /\ inside' = inside \cup {r}

\* Mutant of MoreRunners: one runner more than there is room for.
MoreRunnersTooMany(n) == active /\ Len(q) >= 2 /\ n <= MaximumExecuting

\* Is there an item besides the one this runner takes, and room for a runner?
MoreRunners(n) == active /\ Len(q) >= 2 /\ n < MaximumExecuting

Entered == executing + 1

\* execute(), from its first lock to the release of the lock.  Without room for
\* the runner checkAssert throws, which ends in the abort() of the process.
Begin(r) ==
    /\ r \in popped
    /\ executing < MaximumExecuting
    /\ popped' = popped \ {r}
    /\ IF MoreRunners(Entered)
       THEN /\ dispatched' = TRUE
            /\ handing' = handing \cup {r}
            /\ inside' = inside \cup {r}
            /\ executing' = Entered
            /\ UNCHANGED <<q, work, locking>>
       ELSE /\ dispatched' = FALSE
            /\ FetchOrLeave(r, Entered)
            /\ UNCHANGED handing
    /\ UNCHANGED <<active, enqueued, submitted, finished, pauses>>

\* A runner that is back at the head of the loop gets the lock.
Resume(r) ==
    /\ r \in locking
    /\ FetchOrLeave(r, executing)
    /\ UNCHANGED <<active, dispatched, handing, enqueued, popped, submitted,
                   finished, pauses>>

Executes(r) == r \in inside \ (locking \cup handing)

\* Mutant of FinishItem: an item that throws takes the rest of the batch with it.
FinishItemDropsBatch(r, throws) ==
    /\ Executes(r)
    /\ finished' = Append(finished, Head(work[r]))
    /\ work' = [work EXCEPT ![r] = IF throws THEN <<>> ELSE Tail(@)]
    /\ locking' = IF throws \/ Len(work[r]) = 1 THEN locking \cup {r} ELSE locking
    /\ UNCHANGED <<q, active, dispatched, executing, handing, enqueued, popped,
                   inside, submitted, pauses>>

\* executeOn(op) returns, and the runner goes on with its local queue, or it
\* throws and abortedOn(op) is called, and the runner takes the lock first.
FinishItem(r, throws) ==
    /\ Executes(r)
    /\ finished' = Append(finished, Head(work[r]))
    /\ work' = [work EXCEPT ![r] = Tail(@)]
    /\ locking' = IF throws \/ Len(work[r]) = 1 THEN locking \cup {r} ELSE locking
    /\ UNCHANGED <<q, active, dispatched, executing, handing, enqueued, popped,
                   inside, submitted, pauses>>
------------------------------------------------------------------------------
\* pause(): runners finish the items they have and leave.
Pause ==
    /\ pauses < MaxPauses
    /\ pauses' = pauses + 1
    /\ active' = FALSE
    /\ UNCHANGED <<q, dispatched, executing, handing, enqueued, popped, inside,
                   locking, work, submitted, finished>>

\* start(), as far as the release of the lock.
Start(c) ==
    /\ c \notin handing
    /\ ~ active /\ ~ dispatched
    /\ active' = TRUE
    /\ dispatched' = TRUE
    /\ handing' = handing \cup {c}
    /\ UNCHANGED <<q, executing, enqueued, popped, inside, locking, work,
                   submitted, finished, pauses>>
------------------------------------------------------------------------------
Batches == {items \in SeqOf(Fresh, 2) : items # <<>> /\ IsInjective(items)}

Run(r) == Pop(r) \/ Begin(r) \/ Resume(r) \/ \E b \in BOOLEAN : FinishItem(r, b)

Next ==
    \/ \E c \in Clients : (\E items \in Batches : Submit(c, items)) \/ Start(c)
    \/ \E t \in Clients \cup Runners : DispatchSelf(t)
    \/ \E r \in Runners : Run(r)
    \/ Pause

\* Threads that began a call finish it, the target dispatcher executes what it
\* is given (GlobalDispatcher!EveryOperationRuns), and items terminate.
Fairness ==
    /\ \A t \in Clients \cup Runners : WF_queueVars(DispatchSelf(t))
    /\ \A r \in Runners : WF_queueVars(Run(r))

SafeSpec == Init /\ [][Next]_queueVars

Spec == SafeSpec /\ Fairness
------------------------------------------------------------------------------
FlagsOK ==
    /\ active \in BOOLEAN /\ dispatched \in BOOLEAN
    /\ executing \in Nat /\ enqueued \in Nat /\ pauses \in 0 .. MaxPauses

QueuesOK ==
    /\ q \in Seq(Items) /\ work \in [Runners -> Seq(Items)]
    /\ submitted \in Seq(Items) /\ finished \in Seq(Items)

ThreadsOK ==
    /\ handing \subseteq Clients \cup Runners
    /\ popped \subseteq Runners /\ inside \subseteq Runners
    /\ locking \subseteq inside
    /\ handing \cap Runners \subseteq inside \ locking
    /\ popped \cap inside = {}

\* The fields keep their types, and no thread is in two places.
TypeOK == FlagsOK /\ QueuesOK /\ ThreadsOK

\* At most one runner is on its way, and dispatched says whether there is one:
\* the queue is never linked twice into the queue of its target, which its one
\* next field could not represent.
OnTheirWay == Cardinality(handing) + enqueued + Cardinality(popped)

OneRunnerOnItsWay == OnTheirWay = IF dispatched THEN 1 ELSE 0

\* As long as nobody paused the queue, a runner that is about to start finds room:
\* checkAssert(executing < maximumExecuting) in execute(), whose failure aborts
\* the process.  (start() makes no such test: after a pause the assertion can
\* fail.)
RunnersBounded == pauses = 0 /\ popped # {} => executing < MaximumExecuting

\* No item is left behind: while items are queued there is a runner that will
\* look at the queue once more.
NoItemStranded == (q # <<>> /\ active /\ MaximumExecuting > 0) =>
                      (dispatched \/ inside # {})

\* Items are handed to runners in the order in which they were queued, and none is
\* lost or executed twice: what was handed over is finished or in the hands of one
\* runner.  A runner that is alone finishes them in that order, too.
Handed == SubSeq(submitted, 1, Len(submitted) - Len(q))

InHand == UNION {ToSet(work[r]) : r \in Runners}

HandedOnce ==
    /\ ToSet(Handed) = ToSet(finished) \cup InHand
    /\ ToSet(finished) \cap InHand = {} /\ IsInjective(finished)
    /\ \A r \in Runners : IsInjective(work[r])
    /\ \A r, s \in Runners : r # s => ToSet(work[r]) \cap ToSet(work[s]) = {}

InOrder ==
    /\ submitted = Handed \o q
    /\ HandedOnce
    /\ MaximumExecuting = 1 =>
          \E rest \in {<<>>} \cup {work[r] : r \in Runners} : Handed = finished \o rest

\* Each item is executed in the end, also one that is queued while the last
\* runner is about to leave, unless the queue is paused.
EveryItemRuns ==
    \A i \in Items : (i \in ToSet(submitted)) ~> (i \in ToSet(finished) \/ pauses > 0)
==============================================================================
