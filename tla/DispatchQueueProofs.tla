------------------------- MODULE DispatchQueueProofs -------------------------
(***************************************************************************)
(* Proofs about DispatchQueue, for any numbers of threads, items and       *)
(* runners, and about its use in Parallel: the reference count is exact,   *)
(* parallel() returns after the last item and when nobody uses the Worker  *)
(* any more, and so it implements AbstractParallel.                        *)
(***************************************************************************)
EXTENDS Parallel, FiniteSetTheorems, FunctionTheorems,
        SequenceTheorems, TLAPS

\* The steps of the queue with batches of any length; Batches of the model has
\* those of at most two items, parallel() queues all of its items at once.
AnyBatch == {items \in Seq(Fresh) : items # <<>> /\ IsInjective(items)}

AnyNext ==
    \/ \E c \in Clients : (\E items \in AnyBatch : Submit(c, items)) \/ Start(c)
    \/ \E t \in Clients \cup Runners : DispatchSelf(t)
    \/ \E r \in Runners : Run(r)
    \/ Pause

LEMMA NextIsAny == Next => AnyNext
<1>1. ASSUME NEW items \in Batches PROVE items \in AnyBatch
  <2>1. PICK n \in 0 .. 2 : items \in [1 .. n -> Fresh]
    BY DEF Batches, SeqOf
  <2>2. items \in Seq(Fresh)
    BY <2>1, SeqDef
  <2>3. QED
    BY <2>2 DEF Batches, AnyBatch
<1>2. QED
  BY <1>1 DEF Next, AnyNext

\* executing counts the runners in the loop, and a runner that is neither on
\* its way to the lock nor dispatching another runner has an item in hand.
RunnersCounted ==
    /\ executing = Cardinality(inside)
    /\ executing <= MaximumExecuting
    /\ \A r \in Runners : Executes(r) => work[r] # <<>>

IInv == TypeOK /\ RunnersCounted /\ OneRunnerOnItsWay /\ NoItemStranded

\* Adding a thread to, or taking one from, a set of threads, counted.
LEMMA CountThreads ==
    ASSUME NEW S \in SUBSET (Clients \cup Runners)
    PROVE  /\ Cardinality(S) \in Nat
           /\ Cardinality(S) = 0 <=> S = {}
           /\ \A t \in Clients \cup Runners :
                /\ t \notin S => Cardinality(S \cup {t}) = Cardinality(S) + 1
                /\ t \in S => /\ Cardinality(S \ {t}) = Cardinality(S) - 1
                              /\ Cardinality(S) > 0
<1>0. IsFiniteSet(Clients \cup Runners)
  BY DispatchQueueAssumption, FS_Union
<1>1. IsFiniteSet(S)
  BY <1>0, FS_Subset
<1>2. Cardinality(S) \in Nat /\ (Cardinality(S) = 0 <=> S = {})
  BY <1>1, FS_CardinalityType, FS_EmptySet
<1>3. ASSUME NEW t \in Clients \cup Runners
      PROVE  /\ t \notin S => Cardinality(S \cup {t}) = Cardinality(S) + 1
             /\ t \in S => Cardinality(S \ {t}) = Cardinality(S) - 1
  BY <1>1, FS_AddElement, FS_RemoveElement
<1>4. ASSUME NEW t \in Clients \cup Runners, t \in S PROVE Cardinality(S) > 0
  BY <1>2, <1>4
<1>5. QED
  BY <1>2, <1>3, <1>4

\* What a runner fetches are items; it fetches nothing only from an empty or a
\* paused queue; and what it leaves behind are items.
LEMMA FetchedItems ==
    ASSUME TypeOK, MaximumExecuting > 0, NEW r \in Runners
    PROVE  /\ NextWork(r) \in Seq(Items)
           /\ NextWork(r) = <<>> => (active => q = <<>>)
           /\ SubSeq(q, Len(NextWork(r)) + 1, Len(q)) \in Seq(Items)
<1> USE DispatchQueueAssumption DEF TypeOK, FlagsOK, QueuesOK, ThreadsOK
<1>1. q # <<>> => /\ TakeSize \in 1 .. Len(q)
                  /\ SubSeq(q, 1, TakeSize) \in Seq(Items)
                  /\ Len(SubSeq(q, 1, TakeSize)) = TakeSize
  BY SubSeqProperties, EmptySeq DEF TakeSize
<1>2. SubSeq(q, 1, 0) = <<>>
  BY SubSeqProperties
<1>3. NextWork(r) \in Seq(Items) /\ (NextWork(r) = <<>> => (active => q = <<>>))
  BY <1>1, <1>2, EmptySeq DEF NextWork
<1>4. QED
  BY <1>3, SubSeqProperties

\* A runner under the lock keeps the books when it fetches or leaves; n counts
\* it among the runners inside.
LEMMA FetchOrLeaveKeeps ==
    ASSUME TypeOK, MaximumExecuting > 0, NEW r \in Runners, NEW n \in Nat,
           FetchOrLeave(r, n), r \notin handing,
           n = Cardinality(inside \cup {r})
    PROVE  /\ q' \in Seq(Items) /\ work' \in [Runners -> Seq(Items)]
           /\ inside' \subseteq Runners /\ inside \ {r} \subseteq inside'
           /\ inside' \subseteq inside \cup {r}
           /\ locking' = locking \ {r} /\ locking' \subseteq inside'
           /\ executing' \in Nat /\ executing' = Cardinality(inside')
           /\ executing' <= n
           /\ r \in inside' => work'[r] # <<>>
           /\ \A s \in Runners \ {r} : work'[s] = work[s]
           /\ (q' # <<>> /\ active) => r \in inside'
<1> DEFINE got == NextWork(r)
<1>1. /\ got \in Seq(Items)
      /\ got = <<>> => (active => q = <<>>)
      /\ SubSeq(q, Len(got) + 1, Len(q)) \in Seq(Items)
  BY FetchedItems
<1>2. q' \in Seq(Items) /\ work' \in [Runners -> Seq(Items)]
  BY <1>1 DEF FetchOrLeave, TypeOK, FlagsOK, QueuesOK, ThreadsOK
<1>3. work'[r] = got /\ \A s \in Runners \ {r} : work'[s] = work[s]
  BY DEF FetchOrLeave, TypeOK, FlagsOK, QueuesOK, ThreadsOK
<1>4. Cardinality(inside \cup {r}) > 0
  BY CountThreads DEF TypeOK, FlagsOK, QueuesOK, ThreadsOK
<1>5. CASE got = <<>>
  <2>1. executing' = n - 1 /\ inside' = inside \ {r}
    BY <1>5 DEF FetchOrLeave
  <2>2. inside' = (inside \cup {r}) \ {r}
    BY <2>1
  <2>3. Cardinality(inside') = n - 1
    BY <2>2, CountThreads DEF TypeOK, FlagsOK, QueuesOK, ThreadsOK
  <2>4. active => q' = <<>>
    <3>1. SUFFICES ASSUME active PROVE q' = <<>>
      OBVIOUS
    <3>2. q = <<>>
      BY <1>1, <1>5, <3>1
    <3>3. q' = SubSeq(q, 1, Len(q)) \/ q' = q
      BY <1>5 DEF FetchOrLeave
    <3>4. QED
      BY <3>2, <3>3, SubSeqFull DEF TypeOK, FlagsOK, QueuesOK, ThreadsOK
  <2>5. QED
    BY <1>2, <1>3, <1>4, <2>1, <2>3, <2>4 DEF FetchOrLeave, TypeOK, FlagsOK, QueuesOK, ThreadsOK
<1>6. CASE got # <<>>
  <2>1. executing' = n /\ inside' = inside \cup {r}
    BY <1>6 DEF FetchOrLeave
  <2>2. QED
    BY <1>2, <1>3, <1>6, <2>1 DEF FetchOrLeave, TypeOK, FlagsOK, QueuesOK, ThreadsOK
<1>7. QED
  BY <1>5, <1>6

\* Each step of the queue keeps the books.
LEMMA StepKeepsBooks ==
    ASSUME IInv, [AnyNext]_queueVars
    PROVE  IInv'
<1> USE DispatchQueueAssumption
<1>0. /\ TypeOK /\ RunnersCounted /\ OneRunnerOnItsWay /\ NoItemStranded
      /\ FlagsOK /\ QueuesOK /\ ThreadsOK
      /\ handing \in SUBSET (Clients \cup Runners)
      /\ popped \in SUBSET (Clients \cup Runners)
      /\ inside \in SUBSET (Clients \cup Runners)
      /\ Cardinality(handing) \in Nat /\ Cardinality(popped) \in Nat
      /\ Cardinality(inside) \in Nat
  BY CountThreads DEF IInv, TypeOK, ThreadsOK
<1>1. ASSUME NEW c \in Clients, NEW items \in AnyBatch, Submit(c, items)
      PROVE  IInv'
  <2>1. items \in Seq(Items)
    <3>1. \A n \in Nat : [1 .. n -> Fresh] \subseteq [1 .. n -> Items]
      BY DEF Fresh
    <3>2. QED
      BY <3>1, SeqDef DEF AnyBatch
  <2>2. FlagsOK'
    BY <1>0, <1>1 DEF Submit, FlagsOK
  <2>3. QueuesOK'
    BY <1>0, <1>1, <2>1 DEF Submit, Enlist, QueuesOK
  <2>4. ThreadsOK'
    BY <1>0, <1>1 DEF Submit, ThreadsOK
  <2>5. OneRunnerOnItsWay'
    <3>1. CASE RoomForRunner
      <4>1. dispatched' /\ ~ dispatched
        BY <1>1, <3>1 DEF Submit, RoomForRunner
      <4>2. Cardinality(handing') = Cardinality(handing) + 1
        BY <1>0, <1>1, <3>1, CountThreads DEF Submit
      <4>3. enqueued' = enqueued /\ popped' = popped /\ enqueued \in Nat
        BY <1>0, <1>1 DEF Submit, FlagsOK
      <4>4. OnTheirWay = 0
        BY <1>0, <4>1 DEF OneRunnerOnItsWay
      <4>5. OnTheirWay' = 1
        BY <1>0, <4>2, <4>3, <4>4 DEF OnTheirWay
      <4>6. QED
        BY <4>1, <4>5 DEF OneRunnerOnItsWay
    <3>2. CASE ~ RoomForRunner
      BY <1>0, <1>1, <3>2 DEF Submit, OneRunnerOnItsWay, OnTheirWay
    <3>3. QED
      BY <3>1, <3>2
  <2>6. RunnersCounted'
    BY <1>0, <1>1 DEF Submit, RunnersCounted, Executes
  <2>7. NoItemStranded'
    <3>1. inside = {} => executing = 0
      BY <1>0, CountThreads DEF RunnersCounted
    <3>2. CASE RoomForRunner
      BY <1>1, <3>2 DEF Submit, NoItemStranded
    <3>3. CASE ~ RoomForRunner
      <4>1. active => (dispatched \/ executing >= MaximumExecuting)
        BY <1>0, <3>3 DEF RoomForRunner, FlagsOK
      <4>2. (active /\ MaximumExecuting > 0) => (dispatched \/ inside # {})
        BY <3>1, <4>1
      <4>3. QED
        BY <1>1, <3>3, <4>2 DEF Submit, NoItemStranded
    <3>4. QED
      BY <3>2, <3>3
  <2>8. QED
    BY <2>2, <2>3, <2>4, <2>5, <2>6, <2>7 DEF IInv, TypeOK
<1>2. ASSUME NEW t \in Clients \cup Runners, DispatchSelf(t) PROVE IInv'
  <2>1. FlagsOK' /\ QueuesOK'
    BY <1>0, <1>2 DEF DispatchSelf, FlagsOK, QueuesOK
  <2>2. ThreadsOK'
    BY <1>0, <1>2 DEF DispatchSelf, ThreadsOK
  <2>3. OneRunnerOnItsWay'
    <3>1. Cardinality(handing \ {t}) = Cardinality(handing) - 1
      BY <1>0, <1>2, CountThreads DEF DispatchSelf
    <3>2. QED
      BY <1>0, <1>2, <3>1 DEF DispatchSelf, OneRunnerOnItsWay, OnTheirWay, FlagsOK
  <2>4. RunnersCounted'
    BY <1>0, <1>2 DEF DispatchSelf, RunnersCounted, Executes
  <2>5. NoItemStranded'
    BY <1>0, <1>2 DEF DispatchSelf, NoItemStranded
  <2>6. QED
    BY <2>1, <2>2, <2>3, <2>4, <2>5 DEF IInv, TypeOK
<1>3. ASSUME NEW r \in Runners, Pop(r) PROVE IInv'
  <2>1. FlagsOK' /\ QueuesOK'
    BY <1>0, <1>3 DEF Pop, FlagsOK, QueuesOK
  <2>2. ThreadsOK'
    BY <1>0, <1>3 DEF Pop, ThreadsOK
  <2>3. OneRunnerOnItsWay'
    <3>1. Cardinality(popped \cup {r}) = Cardinality(popped) + 1
      BY <1>0, <1>3, CountThreads DEF Pop
    <3>2. QED
      BY <1>0, <1>3, <3>1 DEF Pop, OneRunnerOnItsWay, OnTheirWay, FlagsOK
  <2>4. RunnersCounted'
    BY <1>0, <1>3 DEF Pop, RunnersCounted, Executes
  <2>5. NoItemStranded'
    BY <1>0, <1>3 DEF Pop, NoItemStranded
  <2>6. QED
    BY <2>1, <2>2, <2>3, <2>4, <2>5 DEF IInv, TypeOK
<1>4. ASSUME NEW r \in Runners, Begin(r) PROVE IInv'
  <2>0. /\ r \in popped /\ r \notin inside /\ r \notin handing /\ r \notin locking
        /\ MaximumExecuting > 0 /\ Entered \in Nat
        /\ Entered = Cardinality(inside \cup {r}) /\ Entered <= MaximumExecuting
        /\ Cardinality(popped \ {r}) = Cardinality(popped) - 1
        /\ Cardinality(popped) > 0
        /\ Cardinality(handing \cup {r}) = Cardinality(handing) + 1
    <3>1. r \in popped /\ executing < MaximumExecuting
      BY <1>4 DEF Begin
    <3>2. r \notin inside /\ r \notin handing /\ r \notin locking
      BY <1>0, <3>1 DEF ThreadsOK
    <3>3. MaximumExecuting > 0
      BY <1>0, <3>1 DEF FlagsOK
    <3>4. QED
      BY <1>0, <3>1, <3>2, <3>3, CountThreads DEF Entered, RunnersCounted, FlagsOK
  <2>1. CASE MoreRunners(Entered)
    <3>1. FlagsOK' /\ QueuesOK'
      BY <1>0, <1>4, <2>0, <2>1 DEF Begin, FlagsOK, QueuesOK
    <3>2. ThreadsOK'
      BY <1>0, <1>4, <2>0, <2>1 DEF Begin, ThreadsOK
    <3>3. OneRunnerOnItsWay'
      <4>1. /\ dispatched' /\ handing' = handing \cup {r} /\ popped' = popped \ {r}
            /\ enqueued' = enqueued /\ enqueued \in Nat
        BY <1>0, <1>4, <2>1 DEF Begin, FlagsOK
      <4>2. dispatched
        BY <1>0, <2>0, <4>1 DEF OneRunnerOnItsWay, OnTheirWay
      <4>3. OnTheirWay' = OnTheirWay
        BY <1>0, <2>0, <4>1 DEF OnTheirWay
      <4>4. QED
        BY <1>0, <4>1, <4>2, <4>3 DEF OneRunnerOnItsWay
    <3>4. RunnersCounted'
      BY <1>0, <1>4, <2>0, <2>1 DEF Begin, RunnersCounted, Executes
    <3>5. NoItemStranded'
      BY <1>0, <1>4, <2>0, <2>1 DEF Begin, NoItemStranded
    <3>6. QED
      BY <3>1, <3>2, <3>3, <3>4, <3>5 DEF IInv, TypeOK
  <2>2. CASE ~ MoreRunners(Entered)
    <3>0. FetchOrLeave(r, Entered) /\ dispatched' = FALSE /\ popped' = popped \ {r}
          /\ UNCHANGED <<active, handing, enqueued, submitted, finished, pauses>>
      BY <1>4, <2>2 DEF Begin
    <3>f. /\ q' \in Seq(Items) /\ work' \in [Runners -> Seq(Items)]
          /\ inside' \subseteq Runners /\ inside \ {r} \subseteq inside'
          /\ inside' \subseteq inside \cup {r}
          /\ locking' = locking \ {r} /\ locking' \subseteq inside'
          /\ executing' \in Nat /\ executing' = Cardinality(inside')
          /\ executing' <= MaximumExecuting
          /\ r \in inside' => work'[r] # <<>>
          /\ \A s \in Runners \ {r} : work'[s] = work[s]
          /\ (q' # <<>> /\ active) => r \in inside'
      BY <1>0, <2>0, <3>0, FetchOrLeaveKeeps DEF FlagsOK
    <3>1. FlagsOK' /\ QueuesOK'
      BY <1>0, <3>0, <3>f DEF FlagsOK, QueuesOK
    <3>2. ThreadsOK'
      BY <1>0, <2>0, <3>0, <3>f DEF ThreadsOK
    <3>3. OneRunnerOnItsWay'
      BY <1>0, <2>0, <3>0 DEF OneRunnerOnItsWay, OnTheirWay, FlagsOK
    <3>4. RunnersCounted'
      BY <1>0, <2>0, <3>0, <3>f DEF RunnersCounted, Executes, ThreadsOK
    <3>5. NoItemStranded'
      BY <1>0, <3>0, <3>f DEF NoItemStranded
    <3>6. QED
      BY <3>1, <3>2, <3>3, <3>4, <3>5 DEF IInv, TypeOK
  <2>3. QED
    BY <2>1, <2>2
<1>5. ASSUME NEW r \in Runners, Resume(r) PROVE IInv'
  <2>0. /\ FetchOrLeave(r, executing) /\ r \in locking /\ r \in inside
        /\ r \notin handing
        /\ UNCHANGED <<active, dispatched, handing, enqueued, popped, submitted,
                       finished, pauses>>
    BY <1>0, <1>5 DEF Resume, ThreadsOK
  <2>1. CASE MaximumExecuting > 0
    <3>1. inside \cup {r} = inside /\ executing \in Nat
      BY <1>0, <2>0 DEF FlagsOK
    <3>f. /\ q' \in Seq(Items) /\ work' \in [Runners -> Seq(Items)]
          /\ inside' \subseteq Runners /\ inside \ {r} \subseteq inside'
          /\ inside' \subseteq inside \cup {r}
          /\ locking' = locking \ {r} /\ locking' \subseteq inside'
          /\ executing' \in Nat /\ executing' = Cardinality(inside')
          /\ executing' <= MaximumExecuting
          /\ r \in inside' => work'[r] # <<>>
          /\ \A s \in Runners \ {r} : work'[s] = work[s]
          /\ (q' # <<>> /\ active) => r \in inside'
      BY <1>0, <2>0, <2>1, <3>1, FetchOrLeaveKeeps DEF RunnersCounted
    <3>2. FlagsOK' /\ QueuesOK'
      BY <1>0, <2>0, <3>f DEF FlagsOK, QueuesOK
    <3>3. ThreadsOK'
      BY <1>0, <2>0, <3>f DEF ThreadsOK
    <3>4. OneRunnerOnItsWay'
      BY <1>0, <2>0 DEF OneRunnerOnItsWay, OnTheirWay
    <3>5. RunnersCounted'
      BY <1>0, <2>0, <3>f DEF RunnersCounted, Executes, ThreadsOK
    <3>6. NoItemStranded'
      BY <1>0, <2>0, <3>f DEF NoItemStranded
    <3>7. QED
      BY <3>2, <3>3, <3>4, <3>5, <3>6 DEF IInv, TypeOK
  <2>2. CASE MaximumExecuting = 0
    <3>1. Cardinality(inside) = 0
      BY <1>0, <2>2 DEF RunnersCounted, FlagsOK
    <3>2. inside = {}
      BY <1>0, <3>1, CountThreads
    <3>3. QED
      BY <2>0, <3>2
  <2>3. QED
    BY <2>1, <2>2
<1>6. ASSUME NEW r \in Runners, NEW b \in BOOLEAN, FinishItem(r, b)
      PROVE  IInv'
  <2>1. work[r] # <<>> /\ Executes(r)
    BY <1>0, <1>6 DEF FinishItem, RunnersCounted
  <2>2. FlagsOK'
    BY <1>0, <1>6 DEF FinishItem, FlagsOK
  <2>3. QueuesOK'
    BY <1>0, <1>6, <2>1 DEF FinishItem, QueuesOK
  <2>4. ThreadsOK'
    BY <1>0, <1>6, <2>1 DEF FinishItem, ThreadsOK, Executes
  <2>5. OneRunnerOnItsWay' /\ NoItemStranded'
    BY <1>0, <1>6 DEF FinishItem, OneRunnerOnItsWay, OnTheirWay, NoItemStranded
  <2>6. RunnersCounted'
    <3>1. ASSUME Len(work[r]) # 1 PROVE Tail(work[r]) # <<>>
      <4>1. work[r] \in Seq(Items)
        BY <1>0 DEF QueuesOK
      <4>2. Len(work[r]) # 0 /\ Len(Tail(work[r])) = Len(work[r]) - 1
        BY <2>1, <4>1
      <4>3. Len(<<>>) = 0
        OBVIOUS
      <4>4. Len(work[r]) \in Nat
        BY <4>1
      <4>5. Len(Tail(work[r])) # Len(<<>>)
        BY <3>1, <4>2, <4>3, <4>4
      <4>6. QED
        BY <4>5
    <3>2. QED
      BY <1>0, <1>6, <2>1, <3>1 DEF FinishItem, RunnersCounted, Executes, QueuesOK
  <2>7. QED
    BY <2>2, <2>3, <2>4, <2>5, <2>6 DEF IInv, TypeOK
<1>7. ASSUME Pause PROVE IInv'
  <2>1. FlagsOK'
    <3>1. active' \in BOOLEAN /\ dispatched' \in BOOLEAN
      BY <1>0, <1>7 DEF Pause, FlagsOK
    <3>2. executing' \in Nat /\ enqueued' \in Nat /\ pauses' \in 0 .. MaxPauses
      BY <1>0, <1>7 DEF Pause, FlagsOK
    <3>3. QED
      BY <3>1, <3>2 DEF FlagsOK
  <2>2. QueuesOK' /\ ThreadsOK'
    BY <1>0, <1>7 DEF Pause, QueuesOK, ThreadsOK
  <2>3. RunnersCounted' /\ OneRunnerOnItsWay' /\ NoItemStranded'
    BY <1>0, <1>7
    DEF Pause, RunnersCounted, Executes, OneRunnerOnItsWay, OnTheirWay,
        NoItemStranded
  <2>4. QED
    BY <2>1, <2>2, <2>3 DEF IInv, TypeOK
<1>8. ASSUME NEW c \in Clients, Start(c) PROVE IInv'
  <2>1. FlagsOK' /\ QueuesOK'
    BY <1>0, <1>8 DEF Start, FlagsOK, QueuesOK
  <2>2. ThreadsOK'
    BY <1>0, <1>8 DEF Start, ThreadsOK
  <2>3. OneRunnerOnItsWay'
    <3>1. Cardinality(handing \cup {c}) = Cardinality(handing) + 1
      BY <1>0, <1>8, CountThreads DEF Start
    <3>2. QED
      BY <1>0, <1>8, <3>1 DEF Start, OneRunnerOnItsWay, OnTheirWay, FlagsOK
  <2>4. RunnersCounted' /\ NoItemStranded'
    BY <1>0, <1>8 DEF Start, RunnersCounted, Executes, NoItemStranded
  <2>5. QED
    BY <2>1, <2>2, <2>3, <2>4 DEF IInv, TypeOK
<1>9. CASE UNCHANGED queueVars
  <2>1. FlagsOK' /\ QueuesOK' /\ ThreadsOK'
    BY <1>0, <1>9 DEF queueVars, FlagsOK, QueuesOK, ThreadsOK
  <2>2. RunnersCounted' /\ OneRunnerOnItsWay' /\ NoItemStranded'
    BY <1>0, <1>9
    DEF queueVars, RunnersCounted, Executes, OneRunnerOnItsWay, OnTheirWay,
        NoItemStranded
  <2>3. QED
    BY <2>1, <2>2 DEF IInv, TypeOK
<1>10. QED
  BY <1>1, <1>2, <1>3, <1>4, <1>5, <1>6, <1>7, <1>8, <1>9 DEF AnyNext, Run

\* At first no runner is there and nothing is queued.
LEMMA BooksAtFirst == Init => IInv
<1> SUFFICES ASSUME Init PROVE IInv
  OBVIOUS
<1>1. Cardinality({}) = 0
  BY FS_EmptySet
<1>2. FlagsOK
  <2>1. active \in BOOLEAN /\ dispatched \in BOOLEAN
    BY DEF Init
  <2>2. executing \in Nat /\ enqueued \in Nat /\ pauses \in 0 .. MaxPauses
    BY DispatchQueueAssumption DEF Init
  <2>3. QED
    BY <2>1, <2>2 DEF FlagsOK
<1>3. QueuesOK
  BY EmptySeq DEF Init, QueuesOK
<1>4. ThreadsOK
  BY DEF Init, ThreadsOK
<1>5. RunnersCounted
  BY <1>1, DispatchQueueAssumption DEF Init, RunnersCounted, Executes
<1>6. OneRunnerOnItsWay
  BY <1>1 DEF Init, OneRunnerOnItsWay, OnTheirWay
<1>7. NoItemStranded
  BY DEF Init, NoItemStranded
<1>8. QED
  BY <1>2, <1>3, <1>4, <1>5, <1>6, <1>7 DEF IInv, TypeOK

\* The books of the queue are right in every reachable state.
THEOREM Invariance == SafeSpec => []IInv
<1>1. IInv /\ [Next]_queueVars => IInv'
  BY StepKeepsBooks, NextIsAny
<1>2. QED
  BY BooksAtFirst, <1>1, PTL DEF SafeSpec

\* The fields keep their types, for any numbers of threads and items.
THEOREM TypeCorrect == SafeSpec => []TypeOK
BY Invariance, PTL DEF IInv

\* The queue is never linked twice into the queue of its target.
THEOREM LinkedOnce == SafeSpec => []OneRunnerOnItsWay
BY Invariance, PTL DEF IInv

\* An item that is queued while the last runner leaves is not left behind, with
\* pause() and start() called at any time.
THEOREM NothingStranded == SafeSpec => []NoItemStranded
BY Invariance, PTL DEF IInv

\* As long as nothing pauses the queue, a runner is on its way only while there
\* is room for it.
RoomIsKept ==
    pauses = 0 => /\ active
                  /\ executing <= MaximumExecuting
                  /\ dispatched => executing < MaximumExecuting

\* Before the first pause the assertion at the head of execute() never fails.
THEOREM NeverTooManyRunners == SafeSpec => []RunnersBounded
<1>1. Init => RoomIsKept
  BY DispatchQueueAssumption DEF Init, RoomIsKept
<1>2. IInv /\ RoomIsKept /\ [Next]_queueVars => RoomIsKept'
  <2> SUFFICES ASSUME IInv, RoomIsKept, [AnyNext]_queueVars PROVE RoomIsKept'
    BY NextIsAny
  <2> USE DispatchQueueAssumption
  <2>0. TypeOK /\ FlagsOK /\ ThreadsOK /\ OneRunnerOnItsWay
    BY DEF IInv, TypeOK
  <2>1. ASSUME NEW c \in Clients, NEW items \in AnyBatch, Submit(c, items)
        PROVE  RoomIsKept'
    <3>1. CASE RoomForRunner
      BY <2>1, <3>1 DEF Submit, RoomForRunner, RoomIsKept
    <3>2. CASE ~ RoomForRunner
      BY <2>1, <3>2 DEF Submit, RoomIsKept
    <3>3. QED
      BY <3>1, <3>2
  <2>2. ASSUME NEW t \in Clients \cup Runners, DispatchSelf(t) PROVE RoomIsKept'
    BY <2>2 DEF DispatchSelf, RoomIsKept
  <2>3. ASSUME NEW r \in Runners, Pop(r) PROVE RoomIsKept'
    BY <2>3 DEF Pop, RoomIsKept
  <2>4. ASSUME NEW r \in Runners, Begin(r) PROVE RoomIsKept'
    <3>1. Entered \in Nat /\ Entered <= MaximumExecuting
      BY <2>0, <2>4 DEF Begin, Entered, FlagsOK
    <3>2. CASE MoreRunners(Entered)
      BY <2>4, <3>1, <3>2 DEF Begin, MoreRunners, RoomIsKept
    <3>3. CASE ~ MoreRunners(Entered)
      <4>1. /\ executing' \in {Entered, Entered - 1} /\ ~ dispatched'
            /\ pauses' = pauses /\ active' = active
        BY <2>4, <3>3 DEF Begin, FetchOrLeave
      <4>2. QED
        BY <3>1, <4>1 DEF RoomIsKept
    <3>4. QED
      BY <3>2, <3>3
  <2>5. ASSUME NEW r \in Runners, Resume(r) PROVE RoomIsKept'
    <3>1. /\ executing' \in {executing, executing - 1}
          /\ dispatched' = dispatched /\ pauses' = pauses /\ active' = active
      BY <2>5 DEF Resume, FetchOrLeave
    <3>2. QED
      BY <2>0, <3>1 DEF RoomIsKept, FlagsOK
  <2>6. ASSUME NEW r \in Runners, NEW b \in BOOLEAN, FinishItem(r, b)
        PROVE  RoomIsKept'
    BY <2>6 DEF FinishItem, RoomIsKept
  <2>7. ASSUME Pause PROVE RoomIsKept'
    BY <2>0, <2>7 DEF Pause, RoomIsKept, FlagsOK
  <2>8. ASSUME NEW c \in Clients, Start(c) PROVE RoomIsKept'
    BY <2>8 DEF Start, RoomIsKept
  <2>9. CASE UNCHANGED queueVars
    BY <2>9 DEF queueVars, RoomIsKept
  <2>10. QED
    BY <2>1, <2>2, <2>3, <2>4, <2>5, <2>6, <2>7, <2>8, <2>9 DEF AnyNext, Run
<1>3. IInv /\ RoomIsKept => RunnersBounded
  <2> SUFFICES ASSUME IInv, RoomIsKept, pauses = 0, popped # {} PROVE executing < MaximumExecuting
    BY DEF RunnersBounded
  <2>1. Cardinality(popped) > 0 /\ Cardinality(handing) \in Nat /\ enqueued \in Nat
    BY CountThreads DEF IInv, TypeOK, ThreadsOK, FlagsOK
  <2>2. Cardinality(popped) \in Nat
    BY CountThreads DEF IInv, TypeOK, ThreadsOK
  <2>3. OnTheirWay # 0
    BY <2>1, <2>2 DEF OnTheirWay
  <2>4. dispatched
    BY <2>3 DEF IInv, OneRunnerOnItsWay
  <2>5. QED
    BY <2>4 DEF RoomIsKept
<1>4. QED
  BY Invariance, <1>1, <1>2, <1>3, PTL DEF SafeSpec
------------------------------------------------------------------------------
\* What stands in two sequences, one behind the other.
LEMMA Concatenated ==
    ASSUME NEW S, NEW s \in Seq(S), NEW t \in Seq(S)
    PROVE  /\ ToSet(s \o t) = ToSet(s) \cup ToSet(t)
           /\ IsInjective(s \o t) <=> /\ IsInjective(s) /\ IsInjective(t)
                                      /\ ToSet(s) \cap ToSet(t) = {}
<1> DEFINE u == s \o t
<1>1. /\ u \in Seq(S) /\ Len(u) = Len(s) + Len(t)
      /\ Len(s) \in Nat /\ Len(t) \in Nat
      /\ DOMAIN u = 1 .. Len(s) + Len(t) /\ DOMAIN s = 1 .. Len(s) /\ DOMAIN t = 1 .. Len(t)
      /\ \A i \in 1 .. Len(s) + Len(t) : u[i] = IF i <= Len(s) THEN s[i] ELSE t[i - Len(s)]
  BY ConcatProperties
<1>2. /\ \A i \in DOMAIN s : i \in DOMAIN u /\ u[i] = s[i]
      /\ \A i \in DOMAIN t : i + Len(s) \in DOMAIN u /\ u[i + Len(s)] = t[i]
      /\ \A i \in DOMAIN u : (i \in DOMAIN s /\ u[i] = s[i])
                             \/ (i - Len(s) \in DOMAIN t /\ u[i] = t[i - Len(s)])
  BY <1>1
<1> HIDE DEF u
<1>3. ToSet(u) = ToSet(s) \cup ToSet(t)
  BY <1>2 DEF ToSet
<1>4. ASSUME IsInjective(u)
      PROVE  IsInjective(s) /\ IsInjective(t) /\ ToSet(s) \cap ToSet(t) = {}
  <2>1. IsInjective(s)
    BY <1>2, <1>4 DEF IsInjective
  <2>2. IsInjective(t)
    BY <1>1, <1>2, <1>4 DEF IsInjective
  <2>3. ASSUME NEW i \in DOMAIN s, NEW j \in DOMAIN t, s[i] = t[j] PROVE FALSE
    <3>1. i = j + Len(s)
      BY <1>2, <1>4, <2>3 DEF IsInjective
    <3>2. QED
      BY <1>1, <3>1
  <2>4. QED
    BY <2>1, <2>2, <2>3 DEF ToSet
<1>5. ASSUME IsInjective(s), IsInjective(t), ToSet(s) \cap ToSet(t) = {}
      PROVE  IsInjective(u)
  <2> SUFFICES ASSUME NEW i \in DOMAIN u, NEW j \in DOMAIN u, u[i] = u[j] PROVE i = j
    BY DEF IsInjective
  <2>0. \A x \in DOMAIN s, y \in DOMAIN t : s[x] # t[y]
    BY <1>5 DEF ToSet
  <2>1. CASE i \in DOMAIN s /\ u[i] = s[i]
    <3>1. j \in DOMAIN s /\ u[j] = s[j]
      BY <1>2, <2>0, <2>1
    <3>2. QED
      BY <1>5, <2>1, <3>1 DEF IsInjective
  <2>2. CASE i - Len(s) \in DOMAIN t /\ u[i] = t[i - Len(s)]
    <3>1. j - Len(s) \in DOMAIN t /\ u[j] = t[j - Len(s)]
      BY <1>2, <2>0, <2>2
    <3>2. i - Len(s) = j - Len(s)
      BY <1>5, <2>2, <3>1 DEF IsInjective
    <3>3. QED
      BY <1>1, <3>2
  <2>3. QED
    BY <1>2, <2>1, <2>2
<1>6. QED
  BY <1>3, <1>4, <1>5 DEF u

\* A sequence without repetition is as long as the set of its elements is large.
LEMMA LengthOfInjective ==
    ASSUME NEW S, NEW s \in Seq(S), IsInjective(s)
    PROVE  IsFiniteSet(ToSet(s)) /\ Cardinality(ToSet(s)) = Len(s)
<1>1. Len(s) \in Nat /\ DOMAIN s = 1 .. Len(s)
  OBVIOUS
<1>2. IsFiniteSet(1 .. Len(s)) /\ Cardinality(1 .. Len(s)) = Len(s)
  BY <1>1, FS_Interval
<1>3. s \in [1 .. Len(s) -> ToSet(s)]
  BY <1>1 DEF ToSet
<1>4. s \in Bijection(1 .. Len(s), ToSet(s))
  <2>1. \A x, y \in 1 .. Len(s) : s[x] = s[y] => x = y
    BY <1>1 DEF IsInjective
  <2>2. \A e \in ToSet(s) : \E x \in 1 .. Len(s) : s[x] = e
    BY <1>1 DEF ToSet
  <2>3. QED
    BY <1>3, <2>1, <2>2, Fun_IsBij
<1>5. QED
  BY <1>2, <1>4, FS_Bijection DEF ExistsBijection

\* The first element of a sequence, and the others.
LEMMA FirstAndRest ==
    ASSUME NEW S, NEW s \in Seq(S), s # <<>>
    PROVE  /\ Head(s) \in S /\ Tail(s) \in Seq(S)
           /\ s = <<Head(s)>> \o Tail(s)
           /\ ToSet(<<Head(s)>>) = {Head(s)} /\ IsInjective(<<Head(s)>>)
<1>1. Head(s) \in S /\ Tail(s) \in Seq(S)
  BY HeadTailProperties
<1>2. s = <<Head(s)>> \o Tail(s)
  OBVIOUS
<1>3. ToSet(<<Head(s)>>) = {Head(s)} /\ IsInjective(<<Head(s)>>)
  BY DEF ToSet, IsInjective
<1>4. QED
  BY <1>1, <1>2, <1>3

\* What stands before the queued items.
LEMMA BeforeTheQueue ==
    ASSUME NEW S, NEW h \in Seq(S), NEW t \in Seq(S)
    PROVE  SubSeq(h \o t, 1, Len(h \o t) - Len(t)) = h
<1>1. Len(h \o t) - Len(t) = Len(h) /\ h \o t \in Seq(S)
  OBVIOUS
<1>2. SubSeq(h \o t, 1, Len(h)) = h
  OBVIOUS
<1>3. QED
  BY <1>1, <1>2
------------------------------------------------------------------------------
\* HandedOnce for the items h handed over, of which those in f are finished and
\* those in w are in the hands of runners.
Divided(h, f, w) ==
    /\ ToSet(h) = ToSet(f) \cup UNION {ToSet(w[r]) : r \in Runners}
    /\ IsInjective(f)
    /\ \A r \in Runners : IsInjective(w[r]) /\ ToSet(w[r]) \cap ToSet(f) = {}
    /\ \A r, s \in Runners : r # s => ToSet(w[r]) \cap ToSet(w[s]) = {}

LEMMA HandedOnceIsDivided == HandedOnce <=> Divided(Handed, finished, work)
<1>1. ToSet(finished) \cap InHand = {}
        <=> \A r \in Runners : ToSet(work[r]) \cap ToSet(finished) = {}
  BY DEF InHand
<1>2. QED
  BY <1>1 DEF HandedOnce, Divided, InHand

\* A runner without items takes some that were not handed over yet.
LEMMA FetchDivides ==
    ASSUME NEW h \in Seq(Items), NEW f \in Seq(Items),
           NEW w \in [Runners -> Seq(Items)], Divided(h, f, w),
           NEW r \in Runners, w[r] = <<>>,
           NEW got \in Seq(Items), IsInjective(got), ToSet(got) \cap ToSet(h) = {}
    PROVE  Divided(h \o got, f, [w EXCEPT ![r] = got])
<1> DEFINE v == [w EXCEPT ![r] = got]
<1>1. v[r] = got /\ (\A s \in Runners \ {r} : v[s] = w[s])
  OBVIOUS
<1>2. ToSet(h \o got) = ToSet(h) \cup ToSet(got)
  BY Concatenated
<1>3. ToSet(w[r]) = {}
  BY DEF ToSet
<1>4. \A s \in Runners : ToSet(w[s]) \subseteq ToSet(h)
  BY DEF Divided
<1>5. ToSet(f) \subseteq ToSet(h)
  BY DEF Divided
<1> HIDE DEF v
<1>6. ASSUME NEW i
      PROVE  (\E s \in Runners : i \in ToSet(v[s]))
               <=> i \in ToSet(got) \/ \E s \in Runners : i \in ToSet(w[s])
  BY <1>1, <1>3
<1>7. \A s \in Runners : IsInjective(v[s]) /\ ToSet(v[s]) \cap ToSet(f) = {}
  BY <1>1, <1>5 DEF Divided
<1>8. \A s, t \in Runners : s # t => ToSet(v[s]) \cap ToSet(v[t]) = {}
  BY <1>1, <1>4 DEF Divided
<1>9. ToSet(h \o got) = ToSet(f) \cup UNION {ToSet(v[s]) : s \in Runners}
  <2> SUFFICES ASSUME NEW i
               PROVE  i \in ToSet(h \o got)
                        <=> i \in ToSet(f) \/ \E s \in Runners : i \in ToSet(v[s])
    OBVIOUS
  <2>1. i \in ToSet(h) <=> i \in ToSet(f) \/ \E s \in Runners : i \in ToSet(w[s])
    BY DEF Divided
  <2>2. QED
    BY <1>2, <1>6, <2>1
<1>10. QED
  BY <1>7, <1>8, <1>9 DEF Divided, v

\* A runner finishes the first of its items.
LEMMA FinishDivides ==
    ASSUME NEW h \in Seq(Items), NEW f \in Seq(Items),
           NEW w \in [Runners -> Seq(Items)], Divided(h, f, w),
           NEW r \in Runners, w[r] # <<>>
    PROVE  Divided(h, Append(f, Head(w[r])), [w EXCEPT ![r] = Tail(w[r])])
<1> DEFINE i == Head(w[r])
           one == <<i>>
           rest == Tail(w[r])
           v == [w EXCEPT ![r] = rest]
<1>1. v[r] = rest /\ (\A s \in Runners \ {r} : v[s] = w[s])
  OBVIOUS
<1>2. /\ i \in Items /\ rest \in Seq(Items) /\ w[r] = one \o rest
      /\ ToSet(one) = {i} /\ IsInjective(one)
  BY FirstAndRest
<1>3. Append(f, i) = f \o one /\ one \in Seq(Items)
  BY <1>2
<1> HIDE DEF v, one, rest, i
<1>4. /\ ToSet(Append(f, i)) = ToSet(f) \cup {i}
      /\ IsInjective(Append(f, i)) <=> IsInjective(f) /\ i \notin ToSet(f)
  BY <1>2, <1>3, Concatenated
<1>5. /\ ToSet(w[r]) = {i} \cup ToSet(rest)
      /\ IsInjective(w[r]) => IsInjective(rest) /\ i \notin ToSet(rest)
  BY <1>2, <1>3, Concatenated
<1>6. ASSUME NEW j
      PROVE  (\E s \in Runners : j \in ToSet(w[s]))
               <=> j = i \/ \E s \in Runners : j \in ToSet(v[s])
  BY <1>1, <1>5
<1>7. IsInjective(Append(f, i))
  BY <1>4, <1>5 DEF Divided
<1>8. ASSUME NEW s \in Runners
      PROVE  IsInjective(v[s]) /\ ToSet(v[s]) \cap ToSet(Append(f, i)) = {}
  BY <1>1, <1>4, <1>5 DEF Divided
<1>9. \A s, t \in Runners : s # t => ToSet(v[s]) \cap ToSet(v[t]) = {}
  BY <1>1, <1>5 DEF Divided
<1>10. ToSet(h) = ToSet(Append(f, i)) \cup UNION {ToSet(v[s]) : s \in Runners}
  <2> SUFFICES ASSUME NEW j
               PROVE  j \in ToSet(h) <=> \/ j \in ToSet(Append(f, i))
                                        \/ \E s \in Runners : j \in ToSet(v[s])
    OBVIOUS
  <2>1. j \in ToSet(h) <=> j \in ToSet(f) \/ \E s \in Runners : j \in ToSet(w[s])
    BY DEF Divided
  <2>2. QED
    BY <1>4, <1>6, <2>1
<1>11. QED
  BY <1>7, <1>8, <1>9, <1>10 DEF Divided, v, rest, i

\* Where the items are: a runner outside the loop has none, and a runner that is
\* the only one has all items that were handed over and are not finished.
OrderInv ==
    /\ submitted = Handed \o q
    /\ IsInjective(submitted)
    /\ Divided(Handed, finished, work)
    /\ \A r \in Runners \ inside : work[r] = <<>>
    /\ MaximumExecuting = 1 =>
          IF inside = {} THEN Handed = finished
          ELSE \A r \in inside : Handed = finished \o work[r]

\* A runner under the lock that fetches the first items of the queue, or goes on
\* with what it has, or leaves, keeps the order.
LEMMA FetchKeepsOrder ==
    ASSUME IInv, OrderInv, MaximumExecuting > 0, NEW r \in Runners, NEW n,
           FetchOrLeave(r, n), UNCHANGED <<submitted, finished>>,
           MaximumExecuting = 1 => inside \subseteq {r}
    PROVE  OrderInv'
<1>0. /\ q \in Seq(Items) /\ work \in [Runners -> Seq(Items)]
      /\ submitted \in Seq(Items) /\ finished \in Seq(Items)
      /\ r \in Runners /\ TypeOK
  BY DEF IInv, TypeOK, QueuesOK
<1>1. Handed \in Seq(Items)
  BY <1>0, SubSeqProperties DEF Handed
<1> DEFINE got == NextWork(r)
<1>2. got \in Seq(Items)
  BY <1>0, FetchedItems
<1>3. \A s \in Runners \ inside' : work'[s] = <<>>
  <2>1. work' = [work EXCEPT ![r] = got]
    BY DEF FetchOrLeave
  <2>2. got = <<>> => inside' = inside \ {r}
    BY DEF FetchOrLeave
  <2>3. got # <<>> => inside' = inside \cup {r}
    BY DEF FetchOrLeave
  <2>4. QED
    BY <1>0, <2>1, <2>2, <2>3 DEF OrderInv
<1>4. CASE active /\ work[r] = <<>>
  <2>1. /\ q' = SubSeq(q, Len(got) + 1, Len(q)) /\ q' \in Seq(Items)
        /\ work' = [work EXCEPT ![r] = got] /\ q = got \o q'
    <3>1. q' = SubSeq(q, Len(got) + 1, Len(q)) /\ work' = [work EXCEPT ![r] = got]
      BY <1>4 DEF FetchOrLeave
    <3>2. q' \in Seq(Items)
      BY <1>0, <3>1, FetchedItems
    <3>3. PICK k \in 0 .. Len(q) : got = SubSeq(q, 1, k)
      <4>1. q # <<>> => TakeSize \in 0 .. Len(q)
        BY <1>0, EmptySeq DEF TakeSize
      <4>2. QED
        BY <1>0, <1>4, <4>1 DEF NextWork
    <3>4. Len(got) = k
      BY <1>0, <3>3
    <3>5. q = SubSeq(q, 1, k) \o SubSeq(q, k + 1, Len(q))
      <4>1. Len(q) \in Nat /\ 1 \in 1 .. Len(q) + 1 /\ k \in 1 - 1 .. Len(q)
        BY <1>0
      <4>2. Len(q) \in k .. Len(q)
        BY <4>1
      <4>3. SubSeq(q, 1, k) \o SubSeq(q, k + 1, Len(q)) = SubSeq(q, 1, Len(q))
        BY ONLY <1>0, <4>1, <4>2, ConcatAdjacentSubSeq
      <4>4. QED
        BY <1>0, <4>3, SubSeqFull
    <3>6. QED
      BY <3>1, <3>2, <3>3, <3>4, <3>5
  <2> HIDE DEF got
  <2>2. submitted' = (Handed \o got) \o q' /\ Handed \o got \in Seq(Items)
    <3>1. submitted' = Handed \o (got \o q')
      BY <2>1 DEF OrderInv
    <3>2. Handed \o (got \o q') = (Handed \o got) \o q'
      <4>1. Handed \in Seq(Items) /\ got \in Seq(Items) /\ q' \in Seq(Items)
        BY <1>1, <1>2, <2>1
      <4>2. QED
        BY ONLY <4>1, ConcatAssociative
    <3>3. QED
      BY <1>1, <1>2, <3>1, <3>2
  <2>3. Handed' = Handed \o got
    BY <2>1, <2>2, BeforeTheQueue DEF Handed
  <2>4. IsInjective(got) /\ ToSet(got) \cap ToSet(Handed) = {}
    <3>1. IsInjective(Handed \o got)
      <4> DEFINE h == Handed \o got
      <4>1. h \in Seq(Items) /\ q' \in Seq(Items) /\ IsInjective(h \o q')
        BY <2>1, <2>2 DEF OrderInv
      <4> HIDE DEF h
      <4>2. IsInjective(h)
        BY ONLY <4>1, Concatenated
      <4>3. QED
        BY <4>2 DEF h
    <3>2. QED
      BY <1>1, <1>2, <3>1, Concatenated
  <2>5. Divided(Handed', finished', work')
    BY <1>0, <1>1, <1>2, <1>4, <2>1, <2>3, <2>4, FetchDivides DEF OrderInv
  <2>6. ASSUME MaximumExecuting = 1
        PROVE  IF inside' = {} THEN Handed' = finished'
               ELSE \A s \in inside' : Handed' = finished' \o work'[s]
    <3>1. Handed = finished
      <4>1. inside # {} => Handed = finished \o <<>>
        BY <1>4, <2>6 DEF OrderInv
      <4>2. QED
        BY <1>0, <2>6, <4>1 DEF OrderInv
    <3>2. inside' \subseteq {r} /\ work'[r] = got
      BY <1>0, <2>1, <2>6 DEF FetchOrLeave
    <3>3. inside' = {} => got = <<>>
      BY DEF FetchOrLeave, got
    <3>4. finished \o <<>> = finished
      BY <1>0, ConcatEmptySeq
    <3>5. QED
      BY <2>3, <3>1, <3>2, <3>3, <3>4
  <2>7. QED
    BY <1>3, <2>2, <2>3, <2>5, <2>6 DEF OrderInv
<1>5. CASE ~ (active /\ work[r] = <<>>)
  <2>1. got = work[r] /\ q' = q /\ work' = work
    BY <1>0, <1>5 DEF FetchOrLeave, NextWork
  <2>2. Handed' = Handed
    BY <2>1 DEF Handed
  <2>3. ASSUME MaximumExecuting = 1
        PROVE  IF inside' = {} THEN Handed' = finished'
               ELSE \A s \in inside' : Handed' = finished' \o work'[s]
    <3>1. work[r] # <<>> => inside' = inside \cup {r}
      BY <2>1 DEF FetchOrLeave
    <3>2. work[r] = <<>> => inside' = inside \ {r}
      BY <2>1 DEF FetchOrLeave
    <3>3. r \notin inside => work[r] = <<>>
      BY DEF OrderInv
    <3>4. r \in inside => Handed = finished \o work[r]
      BY <2>3 DEF OrderInv
    <3>5. finished \o <<>> = finished
      BY <1>0
    <3>6. QED
      BY <2>1, <2>2, <2>3, <3>1, <3>2, <3>3, <3>4, <3>5 DEF OrderInv
  <2>4. QED
    BY <1>3, <2>1, <2>2, <2>3 DEF OrderInv
<1>6. QED
  BY <1>4, <1>5

\* Each step of the queue keeps the order.
LEMMA StepKeepsOrder ==
    ASSUME IInv, OrderInv, [AnyNext]_queueVars
    PROVE  OrderInv'
<1> USE DispatchQueueAssumption
<1>0. /\ q \in Seq(Items) /\ work \in [Runners -> Seq(Items)]
      /\ submitted \in Seq(Items) /\ finished \in Seq(Items)
      /\ inside \in SUBSET (Clients \cup Runners)
      /\ Cardinality(inside) \in Nat
      /\ executing = Cardinality(inside) /\ executing <= MaximumExecuting
      /\ inside \subseteq Runners /\ popped \subseteq Runners
      /\ locking \subseteq inside
  BY CountThreads DEF IInv, TypeOK, QueuesOK, ThreadsOK, RunnersCounted
<1>1. Handed \in Seq(Items)
  BY <1>0, SubSeqProperties DEF Handed
<1>2. ASSUME NEW c \in Clients, NEW items \in AnyBatch, Submit(c, items)
      PROVE  OrderInv'
  <2>1. items \in Seq(Items) /\ IsInjective(items)
    <3>1. \A n \in Nat : [1 .. n -> Fresh] \subseteq [1 .. n -> Items]
      BY DEF Fresh
    <3>2. QED
      BY <3>1, SeqDef DEF AnyBatch
  <2>2. ToSet(items) \cap ToSet(submitted) = {}
    <3>1. \A i \in DOMAIN items : items[i] \in Fresh
      BY DEF AnyBatch
    <3>2. ToSet(items) \subseteq Fresh
      BY <3>1 DEF ToSet
    <3>3. QED
      BY <3>2 DEF Fresh
  <2>3. IsInjective(submitted')
    <3>1. submitted' = submitted \o items /\ IsInjective(submitted)
      BY <1>2 DEF Submit, OrderInv
    <3>2. QED
      BY <1>0, <2>1, <2>2, <3>1, Concatenated
  <2>4. q' = q \o items /\ q' \in Seq(Items)
    BY <1>0, <1>2, <2>1 DEF Submit, Enlist
  <2>5. submitted' = Handed \o q'
    <3>1. submitted' = (Handed \o q) \o items
      BY <1>2 DEF Submit, OrderInv
    <3>2. (Handed \o q) \o items = Handed \o (q \o items)
      BY <1>0, <1>1, <2>1, SMTT(60)
    <3>3. QED
      BY <2>4, <3>1, <3>2
  <2>6. Handed' = Handed
    BY <1>1, <2>4, <2>5, BeforeTheQueue DEF Handed
  <2>7. QED
    BY <1>2, <2>3, <2>5, <2>6 DEF Submit, OrderInv
<1>3. ASSUME NEW r \in Runners, Begin(r) PROVE OrderInv'
  <2>1. MaximumExecuting > 0 /\ (MaximumExecuting = 1 => inside = {})
    <3>1. executing < MaximumExecuting
      BY <1>3 DEF Begin
    <3>2. MaximumExecuting = 1 => Cardinality(inside) = 0
      BY <1>0, <3>1
    <3>3. QED
      BY <1>0, <3>1, <3>2, CountThreads
  <2>2. CASE MoreRunners(Entered)
    <3>1. MaximumExecuting # 1
      BY <1>0, <2>2 DEF MoreRunners, Entered
    <3>2. /\ UNCHANGED <<q, work, submitted, finished>>
          /\ inside' = inside \cup {r}
      BY <1>3, <2>2 DEF Begin
    <3>3. QED
      BY <3>1, <3>2 DEF OrderInv, Handed, Divided
  <2>3. CASE ~ MoreRunners(Entered)
    BY <1>3, <2>1, <2>3, FetchKeepsOrder DEF Begin
  <2>4. QED
    BY <2>2, <2>3
<1>4. ASSUME NEW r \in Runners, Resume(r) PROVE OrderInv'
  <2>1. r \in inside
    BY <1>0, <1>4 DEF Resume
  <2>2. Cardinality(inside \ {r}) = Cardinality(inside) - 1 /\ Cardinality(inside) > 0
    BY <1>0, <2>1, CountThreads
  <2>3. MaximumExecuting > 0
    BY <1>0, <2>2
  <2>4. ASSUME MaximumExecuting = 1 PROVE inside \subseteq {r}
    <3>1. Cardinality(inside \ {r}) = 0
      BY <1>0, <2>2, <2>4
    <3>2. inside \ {r} = {}
      BY <1>0, <3>1, CountThreads
    <3>3. QED
      BY <3>2
  <2>5. QED
    BY <1>4, <2>3, <2>4, FetchKeepsOrder DEF Resume
<1>5. ASSUME NEW r \in Runners, NEW b \in BOOLEAN, FinishItem(r, b) PROVE OrderInv'
  <2>1. /\ r \in inside /\ work[r] # <<>>
        /\ finished' = Append(finished, Head(work[r]))
        /\ work' = [work EXCEPT ![r] = Tail(work[r])]
        /\ UNCHANGED <<q, submitted, inside>>
    BY <1>5 DEF FinishItem, Executes, IInv, RunnersCounted
  <2>2. Handed' = Handed
    BY <2>1 DEF Handed
  <2>3. Divided(Handed', finished', work')
    BY <1>0, <1>1, <2>1, <2>2, FinishDivides DEF OrderInv
  <2>4. \A s \in Runners \ inside' : work'[s] = <<>>
    BY <1>0, <2>1 DEF OrderInv
  <2>5. ASSUME MaximumExecuting = 1, NEW s \in inside'
        PROVE  Handed' = finished' \o work'[s]
    <3>1. Cardinality(inside \ {r}) = 0
      <4>1. /\ Cardinality(inside \ {r}) = Cardinality(inside) - 1
            /\ Cardinality(inside) > 0
        BY <1>0, <2>1, CountThreads
      <4>2. QED
        BY <1>0, <2>5, <4>1
    <3>2. s = r
      <4>1. inside \ {r} = {}
        BY <1>0, <3>1, CountThreads
      <4>2. QED
        BY <2>1, <2>5, <4>1
    <3>3. work'[s] = Tail(work[r])
      BY <1>0, <2>1, <3>2
    <3>4. Handed = finished \o work[r]
      BY <2>1, <2>5 DEF OrderInv
    <3>5. work[r] = <<Head(work[r])>> \o Tail(work[r]) /\ work[r] \in Seq(Items)
      BY <1>0, <2>1, FirstAndRest
    <3>6. Append(finished, Head(work[r])) \o Tail(work[r]) = finished \o work[r]
      BY <1>0, <2>1, <3>5
    <3>7. QED
      BY <2>1, <2>2, <3>3, <3>4, <3>6
  <2>6. QED
    BY <2>1, <2>2, <2>3, <2>4, <2>5 DEF OrderInv
<1>6. ASSUME UNCHANGED <<q, work, submitted, finished, inside>> PROVE OrderInv'
  BY <1>6 DEF OrderInv, Handed, Divided
<1>7. ASSUME NEW t \in Clients \cup Runners, DispatchSelf(t) PROVE OrderInv'
  BY <1>6, <1>7 DEF DispatchSelf
<1>8. ASSUME NEW r \in Runners, Pop(r) PROVE OrderInv'
  BY <1>6, <1>8 DEF Pop
<1>9. ASSUME Pause PROVE OrderInv'
  BY <1>6, <1>9 DEF Pause
<1>10. ASSUME NEW c \in Clients, Start(c) PROVE OrderInv'
  BY <1>6, <1>10 DEF Start
<1>11. CASE UNCHANGED queueVars
  BY <1>6, <1>11 DEF queueVars
<1>12. QED
  BY <1>2, <1>3, <1>4, <1>5, <1>7, <1>8, <1>9, <1>10, <1>11 DEF AnyNext, Run

\* Before anything is submitted nothing is in the queue or in a hand.
LEMMA OrderAtFirst == Init => OrderInv
<1> SUFFICES ASSUME Init PROVE OrderInv
  OBVIOUS
<1>1. /\ q = <<>> /\ submitted = <<>> /\ finished = <<>> /\ inside = {}
      /\ \A r \in Runners : work[r] = <<>>
  BY DEF Init
<1>2. Handed = <<>>
  BY <1>1 DEF Handed
<1>3. ToSet(<<>>) = {} /\ IsInjective(<<>>)
  BY DEF ToSet, IsInjective
<1>4. Divided(Handed, finished, work)
  BY <1>1, <1>2, <1>3 DEF Divided
<1>5. submitted = Handed \o q
  BY <1>1, <1>2
<1>6. QED
  BY <1>1, <1>2, <1>3, <1>4, <1>5 DEF OrderInv

\* Items are handed to runners in the order in which they were queued, each to
\* one runner and once; a runner that is alone also finishes them in that order.
THEOREM KeepsOrder == SafeSpec => []InOrder
<1>1. IInv /\ OrderInv /\ [Next]_queueVars => OrderInv'
  BY StepKeepsOrder, NextIsAny
<1>2. IInv /\ OrderInv => InOrder
  <2> SUFFICES ASSUME IInv, OrderInv PROVE InOrder
    OBVIOUS
  <2>0. finished \in Seq(Items) /\ inside \subseteq Runners
    BY DEF IInv, TypeOK, QueuesOK, ThreadsOK
  <2>1. ASSUME MaximumExecuting = 1
        PROVE  \E rest \in {<<>>} \cup {work[r] : r \in Runners} :
                  Handed = finished \o rest
    <3>1. CASE inside = {}
      <4>1. Handed = finished /\ finished \o <<>> = finished
        BY <2>0, <2>1, <3>1, ConcatEmptySeq DEF OrderInv
      <4>2. QED
        BY <4>1
    <3>2. CASE inside # {}
      <4>1. PICK r \in inside : r \in Runners
        BY <2>0, <3>2
      <4>2. Handed = finished \o work[r]
        BY <2>1, <3>2, <4>1 DEF OrderInv
      <4>3. QED
        BY <4>1, <4>2
    <3>3. QED
      BY <3>1, <3>2
  <2>2. HandedOnce
    BY HandedOnceIsDivided DEF OrderInv
  <2>3. QED
    BY <2>1, <2>2 DEF InOrder, OrderInv
<1>3. QED
  BY Invariance, OrderAtFirst, <1>1, <1>2, PTL DEF SafeSpec
------------------------------------------------------------------------------
(* parallel() *)

\* The variables of the Worker and the semaphore keep their types, and a thread
\* of the pool is in one place.
WorkerTypes ==
    /\ pc \in {"count", "dispatch", "wait", "returned"}
    /\ refcount \in Nat /\ value \in Nat
    /\ linking \subseteq handing
    /\ owing \subseteq inside
    /\ leaving \subseteq Runners \ (inside \cup popped)
    /\ signalling \subseteq Runners
    /\ blocked \subseteq {Main}
    /\ informing \subseteq Runners
    /\ wokenEarly \in BOOLEAN

\* Nothing happens in the pool before the caller has dispatched the items.
NotStarted ==
    pc \in {"count", "dispatch"} =>
        /\ submitted = <<>> /\ q = <<>> /\ finished = <<>>
        /\ handing = {} /\ enqueued = 0 /\ popped = {} /\ inside = {}
        /\ leaving = {}

AllSubmitted == pc \in {"wait", "returned"} => submitted = AllItems

\* As long as the caller has not linked the first runner there is no other.
CallerFirst ==
    Main \in handing =>
        pc = "wait" /\ inside = {} /\ finished = <<>> /\ AllItems # <<>>

\* There is one signal, after the count has come down to zero for good: it is on
\* its way, or a permit, or parallel() used it to return.
OneSignal ==
    /\ signalling # {} \/ value > 0 \/ pc = "returned" =>
           refcount = 0 /\ pc \in {"wait", "returned"}
    /\ value <= 1
    /\ \A r, s \in signalling : r = s
    /\ signalling # {} => value = 0 /\ pc # "returned"
    /\ value > 0 => pc # "returned"

\* There is one notification, after the permit and only for a blocked caller: a
\* caller that has left while it is under way did not wait for it.
OneNotice ==
    /\ \A r, s \in informing : r = s
    /\ informing # {} => /\ refcount = 0 /\ signalling = {}
                        /\ \/ pc = "wait" /\ Main \in blocked
                           \/ pc = "returned" /\ wokenEarly

WorkerInv ==
    /\ IInv /\ OrderInv
    /\ WorkerTypes /\ NotStarted /\ AllSubmitted /\ CallerFirst
    /\ RefcountExact /\ OneSignal /\ OneNotice

\* The sets of threads are finite and can be counted.
LEMMA WorkerCounts ==
    ASSUME TypeOK, WorkerTypes
    PROVE  /\ Cardinality(owing) \in Nat /\ Cardinality(linking) \in Nat
           /\ Cardinality(popped) \in Nat /\ Cardinality(inside) \in Nat
           /\ Cardinality(leaving) \in Nat /\ Cardinality(handing) \in Nat
           /\ enqueued \in Nat
           /\ owing \in SUBSET (Clients \cup Runners)
           /\ linking \in SUBSET (Clients \cup Runners)
           /\ popped \in SUBSET (Clients \cup Runners)
           /\ inside \in SUBSET (Clients \cup Runners)
           /\ leaving \in SUBSET (Clients \cup Runners)
           /\ handing \in SUBSET (Clients \cup Runners)
<1>1. /\ owing \in SUBSET (Clients \cup Runners)
      /\ linking \in SUBSET (Clients \cup Runners)
      /\ popped \in SUBSET (Clients \cup Runners)
      /\ inside \in SUBSET (Clients \cup Runners)
      /\ leaving \in SUBSET (Clients \cup Runners)
      /\ handing \in SUBSET (Clients \cup Runners)
      /\ enqueued \in Nat
  BY DEF TypeOK, FlagsOK, ThreadsOK, WorkerTypes
<1>2. QED
  BY <1>1, CountThreads

\* The terms of the reference count are numbers.
LEMMA TermsOK ==
    ASSUME TypeOK, WorkerTypes
    PROVE  RunnersComing \in Nat /\ RunnersThere \in Nat
BY WorkerCounts DEF RunnersComing, RunnersThere

\* No more items are finished than there are, and if as many are finished, all.
LEMMA FinishedFits ==
    ASSUME IInv, OrderInv, submitted = AllItems
    PROVE  /\ Len(finished) \in Nat /\ Len(AllItems) \in Nat
           /\ Len(finished) <= Len(AllItems)
           /\ ToSet(finished) \subseteq ToSet(AllItems)
           /\ Len(finished) = Len(AllItems) => ToSet(finished) = ToSet(AllItems)
<1>1. /\ submitted \in Seq(Items) /\ finished \in Seq(Items) /\ q \in Seq(Items)
      /\ Handed \in Seq(Items)
  <2>1. submitted \in Seq(Items) /\ finished \in Seq(Items) /\ q \in Seq(Items)
    BY DEF IInv, TypeOK, QueuesOK
  <2>2. QED
    BY <2>1, SubSeqProperties DEF Handed
<1>2. ToSet(Handed) \subseteq ToSet(submitted)
  <2>1. ToSet(Handed \o q) = ToSet(Handed) \cup ToSet(q)
    BY <1>1, Concatenated
  <2>2. QED
    BY <2>1 DEF OrderInv
<1>3. ToSet(finished) \subseteq ToSet(AllItems) /\ IsInjective(finished)
  BY <1>2 DEF OrderInv, Divided
<1>4. /\ IsFiniteSet(ToSet(AllItems)) /\ Cardinality(ToSet(AllItems)) = Len(AllItems)
      /\ IsFiniteSet(ToSet(finished)) /\ Cardinality(ToSet(finished)) = Len(finished)
  BY <1>1, <1>3, LengthOfInjective DEF OrderInv
<1>5. QED
  BY <1>1, <1>3, <1>4, FS_Subset

\* Who is about to finish an item has one that is not finished.
LEMMA HeadIsUnfinished ==
    ASSUME IInv, OrderInv, NEW r \in Runners, work[r] # <<>>
    PROVE  /\ Head(work[r]) \in ToSet(submitted) \ ToSet(finished)
           /\ ToSet(Append(finished, Head(work[r])))
                = ToSet(finished) \cup {Head(work[r])}
<1>1. /\ submitted \in Seq(Items) /\ finished \in Seq(Items) /\ q \in Seq(Items)
      /\ Handed \in Seq(Items) /\ work[r] \in Seq(Items)
  <2>1. /\ submitted \in Seq(Items) /\ finished \in Seq(Items) /\ q \in Seq(Items)
        /\ work[r] \in Seq(Items)
    BY DEF IInv, TypeOK, QueuesOK
  <2>2. QED
    BY <2>1, SubSeqProperties DEF Handed
<1>2. ToSet(Handed) \subseteq ToSet(submitted)
  <2>1. ToSet(Handed \o q) = ToSet(Handed) \cup ToSet(q)
    BY <1>1, Concatenated
  <2>2. QED
    BY <2>1 DEF OrderInv
<1> DEFINE one == <<Head(work[r])>>
<1>3. /\ one \in Seq(Items) /\ Tail(work[r]) \in Seq(Items)
      /\ work[r] = one \o Tail(work[r]) /\ ToSet(one) = {Head(work[r])}
      /\ Append(finished, Head(work[r])) = finished \o one
  BY <1>1, FirstAndRest
<1> HIDE DEF one
<1>4. Head(work[r]) \in ToSet(work[r])
  <2>1. ToSet(one \o Tail(work[r])) = ToSet(one) \cup ToSet(Tail(work[r]))
    BY <1>3, Concatenated
  <2>2. QED
    BY <1>3, <2>1
<1>5. ToSet(finished \o one) = ToSet(finished) \cup ToSet(one)
  BY <1>1, <1>3, Concatenated
<1>6. QED
  BY <1>2, <1>3, <1>4, <1>5 DEF OrderInv, Divided

\* When the count is zero, after the items were counted, everything is over.
LEMMA NothingIsCounted ==
    ASSUME OneCaller, WorkerInv, pc \in {"wait", "returned"}, refcount = 0
    PROVE  /\ Len(finished) = Len(AllItems)
           /\ handing = {} /\ enqueued = 0 /\ popped = {} /\ inside = {}
           /\ linking = {} /\ owing = {} /\ leaving = {}
<1>1. submitted = AllItems /\ TypeOK
  BY DEF WorkerInv, AllSubmitted, IInv
<1>2. /\ Len(finished) \in Nat /\ Len(AllItems) \in Nat
      /\ Len(finished) <= Len(AllItems)
  BY <1>1, FinishedFits DEF WorkerInv
<1>3. /\ Cardinality(owing) \in Nat /\ Cardinality(linking) \in Nat
      /\ Cardinality(popped) \in Nat /\ Cardinality(inside) \in Nat
      /\ Cardinality(leaving) \in Nat /\ enqueued \in Nat
  BY <1>1, WorkerCounts DEF WorkerInv
<1>4. OpenItems = 0 /\ RunnersComing = 0 /\ RunnersThere = 0
  <2>1. RunnersComing \in Nat /\ RunnersThere \in Nat
    BY <1>1, TermsOK DEF WorkerInv
  <2>2. OpenItems \in Nat
    BY <1>2, <1>3 DEF OpenItems
  <2>3. 0 = OpenItems + RunnersComing + RunnersThere
    BY DEF WorkerInv, RefcountExact
  <2>4. QED
    BY ONLY <2>1, <2>2, <2>3
<1>5. /\ Len(AllItems) = Len(finished) /\ enqueued = 0
      /\ Cardinality(owing) = 0 /\ Cardinality(linking) = 0
      /\ Cardinality(popped) = 0 /\ Cardinality(inside) = 0
      /\ Cardinality(leaving) = 0
  <2>1. Len(AllItems) = Len(finished) /\ Cardinality(owing) = 0
    BY <1>2, <1>3, <1>4 DEF OpenItems
  <2>2. enqueued = 0 /\ Cardinality(linking) = 0 /\ Cardinality(popped) = 0
    BY <1>3, <1>4 DEF RunnersComing
  <2>3. Cardinality(inside) = 0 /\ Cardinality(leaving) = 0
    BY <1>3, <1>4 DEF RunnersThere
  <2>4. QED
    BY <2>1, <2>2, <2>3
<1>6. owing = {} /\ linking = {} /\ popped = {} /\ inside = {} /\ leaving = {}
  BY <1>1, <1>5, WorkerCounts, CountThreads DEF WorkerInv
<1>7. handing = {}
  <2>1. handing \subseteq {Main}
    BY <1>1, <1>6 DEF OneCaller, TypeOK, ThreadsOK
  <2>2. Main \in handing => Len(finished) = 0 /\ AllItems # <<>>
    BY DEF WorkerInv, CallerFirst
  <2>3. AllItems # <<>> => Len(AllItems) # 0
    BY DEF OneCaller
  <2>4. QED
    BY <1>5, <2>1, <2>2, <2>3
<1>8. QED
  BY <1>5, <1>6, <1>7

\* A runner is not on its way together with the caller.
LEMMA CallerAlone == ASSUME OneCaller, IInv, Main \in handing
                     PROVE  popped = {} /\ enqueued = 0 /\ handing = {Main}
<1>1. /\ handing \in SUBSET (Clients \cup Runners)
      /\ popped \in SUBSET (Clients \cup Runners) /\ enqueued \in Nat
      /\ Main \in Clients
  BY DEF OneCaller, IInv, TypeOK, ThreadsOK, FlagsOK
<1>2. /\ Cardinality(handing) \in Nat /\ Cardinality(handing) > 0
      /\ Cardinality(handing \ {Main}) = Cardinality(handing) - 1
      /\ Cardinality(popped) \in Nat
      /\ Cardinality(popped) = 0 => popped = {}
  BY <1>1, CountThreads
<1>3. Cardinality(handing) + enqueued + Cardinality(popped) <= 1
  BY DEF IInv, OneRunnerOnItsWay, OnTheirWay
<1>4. Cardinality(handing \ {Main}) = 0 /\ Cardinality(popped) = 0 /\ enqueued = 0
  BY <1>1, <1>2, <1>3
<1>5. handing \ {Main} = {}
  BY <1>1, <1>4, CountThreads
<1>6. QED
  BY <1>2, <1>4, <1>5

\* The steps of the Worker that concern the queue are steps of the queue.
LEMMA WorkerUsesQueue ==
    ASSUME OneCaller, WorkerInv, [ParallelNext]_parallelVars
    PROVE  [AnyNext]_queueVars
<1>1. ASSUME Dispatch PROVE [AnyNext]_queueVars
  <2>1. CASE AllItems = <<>>
    BY <1>1, <2>1 DEF Dispatch
  <2>2. CASE AllItems # <<>>
    <3>1. submitted = <<>>
      BY <1>1 DEF Dispatch, WorkerInv, NotStarted
    <3>2. Fresh = Items
      BY <3>1 DEF Fresh, ToSet
    <3>3. AllItems \in AnyBatch
      BY <2>2, <3>2 DEF OneCaller, AnyBatch
    <3>4. Submit(Main, AllItems) /\ Main \in Clients
      BY <1>1, <2>2 DEF OneCaller, Dispatch
    <3>5. QED
      BY <3>3, <3>4 DEF AnyNext
  <2>3. QED
    BY <2>1, <2>2
<1>2. ASSUME Count \/ Wait \/ WakeSpuriously PROVE UNCHANGED queueVars
  BY <1>2 DEF Count, Wait, WakeSpuriously
<1>3. ASSUME NEW t \in Clients \cup Runners, Thread(t) PROVE [AnyNext]_queueVars
  BY <1>3 DEF Thread, CountRunner, LinkRunner, AnyNext
<1>4. ASSUME NEW r \in Runners, Runner(r) PROVE [AnyNext]_queueVars
  <2>1. CASE StartRunner(r)
    BY <2>1 DEF StartRunner, AnyNext, Run
  <2>2. CASE RunLocked(r)
    BY <2>2 DEF RunLocked, AnyNext, Run
  <2>3. CASE RunItem(r)
    BY <2>3 DEF RunItem, AnyNext, Run
  <2>4. CASE ReleaseItem(r) \/ ReleaseRunner(r) \/ SignalCaller(r) \/ Notify(r)
    BY <2>4 DEF ReleaseItem, ReleaseRunner, SignalCaller, Notify
  <2>5. QED
    BY <1>4, <2>1, <2>2, <2>3, <2>4 DEF Runner
<1>5. CASE UNCHANGED parallelVars
  BY <1>5 DEF parallelVars
<1>6. QED
  BY <1>1, <1>2, <1>3, <1>4, <1>5 DEF ParallelNext, Caller
------------------------------------------------------------------------------
\* What the invariant says of the Worker, besides the queue.
WorkerPart == /\ WorkerTypes /\ NotStarted /\ AllSubmitted /\ CallerFirst
              /\ RefcountExact /\ OneSignal /\ OneNotice

\* The caller counts the items, queues them and waits.
LEMMA CallerKeeps ==
    ASSUME OneCaller, WorkerInv, IInv', Caller \/ WakeSpuriously
    PROVE  WorkerPart'
<1> USE DEF OneCaller
<1>0. /\ IInv /\ WorkerPart /\ TypeOK /\ Len(AllItems) \in Nat /\ Main \in Clients
      /\ Main \notin Runners
  BY DispatchQueueAssumption DEF WorkerInv, WorkerPart, IInv
<1>1. CASE Count
  <2>1. /\ pc = "count" /\ pc' = "dispatch" /\ refcount' = refcount + Len(AllItems)
        /\ UNCHANGED <<queueVars, linking, owing, leaving, signalling, semVars>>
    BY <1>1 DEF Count, CountItems
  <2>2. /\ finished = <<>> /\ Len(finished) = 0 /\ value <= 1
        /\ signalling = {} /\ ~ (value > 0)
    BY <1>0, <2>1 DEF WorkerPart, NotStarted, OneSignal
  <2>3. WorkerTypes'
    BY <1>0, <2>1 DEF WorkerPart, WorkerTypes, queueVars, semVars
  <2>4. NotStarted' /\ AllSubmitted' /\ CallerFirst'
    BY <1>0, <2>1 DEF WorkerPart, NotStarted, AllSubmitted, CallerFirst, queueVars
  <2>5. RefcountExact'
    <3>1. /\ refcount = OpenItems + RunnersComing + RunnersThere
          /\ RunnersComing \in Nat /\ RunnersThere \in Nat
      BY <1>0, TermsOK DEF WorkerPart, RefcountExact
    <3>2. RunnersComing' = RunnersComing /\ RunnersThere' = RunnersThere
      BY <2>1 DEF RunnersComing, RunnersThere, queueVars
    <3>3. OpenItems' = OpenItems + Len(AllItems) /\ OpenItems \in Nat
      <4>1. Cardinality(owing) \in Nat
        BY <1>0, WorkerCounts DEF WorkerPart
      <4>2. finished' = finished
        BY <2>1 DEF queueVars
      <4>3. QED
        BY <1>0, <2>1, <2>2, <4>1, <4>2 DEF OpenItems
    <3>4. QED
      BY <1>0, <2>1, <3>1, <3>2, <3>3 DEF RefcountExact
  <2>6. OneSignal' /\ OneNotice'
    <3>1. informing = {}
      BY <1>0, <2>1 DEF WorkerPart, OneNotice
    <3>2. QED
      BY <2>1, <2>2, <3>1 DEF OneSignal, OneNotice, semVars
  <2>7. QED
    BY <2>3, <2>4, <2>5, <2>6 DEF WorkerPart
<1>2. CASE Dispatch
  <2>1. /\ pc = "dispatch" /\ pc' = "wait"
        /\ UNCHANGED <<refcount, linking, owing, leaving, signalling, semVars>>
    BY <1>2 DEF Dispatch
  <2>2. /\ submitted = <<>> /\ finished = <<>> /\ handing = {} /\ inside = {}
        /\ signalling = {} /\ ~ (value > 0) /\ value <= 1
    BY <1>0, <2>1 DEF WorkerPart, NotStarted, OneSignal
  <2>3. /\ submitted' = AllItems /\ handing' \subseteq {Main}
        /\ Main \in handing' => AllItems # <<>>
        /\ UNCHANGED <<finished, enqueued, popped, inside>>
    <3>1. CASE AllItems = <<>>
      BY <1>2, <2>2, <3>1 DEF Dispatch, queueVars
    <3>2. CASE AllItems # <<>>
      <4>1. <<>> \o AllItems = AllItems
        OBVIOUS
      <4>2. QED
        BY <1>2, <2>2, <3>2, <4>1 DEF Dispatch, Submit
    <3>3. QED
      BY <3>1, <3>2
  <2>4. WorkerTypes'
    <3>1. linking = {} /\ owing = {}
      BY <1>0, <2>2 DEF WorkerPart, WorkerTypes
    <3>2. QED
      BY <1>0, <2>1, <2>3, <3>1 DEF WorkerPart, WorkerTypes, semVars
  <2>5. NotStarted' /\ AllSubmitted'
    BY <2>1, <2>3 DEF NotStarted, AllSubmitted
  <2>6. CallerFirst'
    BY <2>1, <2>2, <2>3 DEF CallerFirst
  <2>7. RefcountExact'
    BY <1>0, <2>1, <2>3
    DEF WorkerPart, RefcountExact, OpenItems, RunnersComing, RunnersThere
  <2>8. OneSignal' /\ OneNotice'
    <3>1. informing = {}
      BY <1>0, <2>1 DEF WorkerPart, OneNotice
    <3>2. QED
      BY <2>1, <2>2, <3>1 DEF OneSignal, OneNotice, semVars
  <2>9. QED
    BY <2>4, <2>5, <2>6, <2>7, <2>8 DEF WorkerPart
<1>3. CASE Wait \/ WakeSpuriously
  <2>1. /\ pc = "wait"
        /\ UNCHANGED <<queueVars, refcount, linking, owing, leaving, signalling, informing>>
        /\ \/ pc' = pc /\ value' = value
           \/ pc' = "returned" /\ value > 0 /\ value' = value - 1
        /\ blocked' \subseteq blocked \cup {Main}
        /\ wokenEarly' \in {wokenEarly, TRUE}
    BY <1>3 DEF Wait, WakeSpuriously, Sem!Block, Sem!Down, Sem!Unblock
  <2>h. pc' # pc => Main \notin handing
    BY <1>0, <2>1, NothingIsCounted DEF WorkerPart, OneSignal
  <2>2. WorkerTypes'
    <3>1. wokenEarly' \in BOOLEAN
      BY <1>0, <2>1 DEF WorkerPart, WorkerTypes
    <3>2. /\ pc' \in {"wait", "returned"} /\ value' \in Nat
          /\ blocked' \subseteq {Main}
      BY <1>0, <2>1 DEF WorkerPart, WorkerTypes
    <3>3. QED
      BY <1>0, <2>1, <3>1, <3>2 DEF WorkerPart, WorkerTypes, queueVars
  <2>3. NotStarted' /\ AllSubmitted'
    BY <1>0, <2>1 DEF WorkerPart, NotStarted, AllSubmitted, queueVars
  <2>4. CallerFirst'
    BY <1>0, <2>1, <2>h DEF WorkerPart, CallerFirst, queueVars
  <2>5. RefcountExact'
    BY <1>0, <2>1
    DEF WorkerPart, RefcountExact, OpenItems, RunnersComing, RunnersThere, queueVars
  <2>6. OneSignal'
    BY <1>0, <2>1 DEF WorkerPart, OneSignal, WorkerTypes
  <2>7. OneNotice'
    <3>1. CASE informing = {}
      BY <2>1, <3>1 DEF OneNotice
    <3>2. CASE informing # {}
      <4>1. Main \in blocked
        BY <1>0, <2>1, <3>2 DEF WorkerPart, OneNotice
      <4>2. pc' = "returned" /\ wokenEarly'
        BY <1>3, <3>2, <4>1 DEF Wait, WakeSpuriously, Sem!Block, Sem!Down
      <4>3. QED
        BY <1>0, <2>1, <4>2 DEF WorkerPart, OneNotice
    <3>3. QED
      BY <3>1, <3>2
  <2>8. QED
    BY <2>2, <2>3, <2>4, <2>5, <2>6, <2>7 DEF WorkerPart
<1>4. QED
  BY <1>1, <1>2, <1>3 DEF Caller

\* A thread counts and links a runner.
LEMMA ThreadKeeps ==
    ASSUME OneCaller, WorkerInv, IInv', NEW t \in Clients \cup Runners, Thread(t)
    PROVE  WorkerPart'
<1> USE DEF OneCaller
<1>0. IInv /\ WorkerPart /\ TypeOK
  BY DEF WorkerInv, WorkerPart, IInv
<1>c. /\ Cardinality(owing) \in Nat /\ Cardinality(linking) \in Nat
      /\ enqueued \in Nat /\ Cardinality(popped) \in Nat
      /\ Cardinality(inside) \in Nat /\ Cardinality(leaving) \in Nat
  BY <1>0, WorkerCounts DEF WorkerPart
<1>d. linking \in SUBSET (Clients \cup Runners)
  BY <1>0, WorkerCounts DEF WorkerPart
<1>s. pc \in {"wait", "returned"}
  <2>1. handing # {}
    BY <1>0 DEF Thread, CountRunner, LinkRunner, DispatchSelf
  <2>2. QED
    BY <1>0, <2>1 DEF WorkerPart, WorkerTypes, NotStarted
<1>z. refcount # 0 /\ signalling = {} /\ informing = {} /\ ~ (value > 0) /\ pc # "returned"
  <2>1. handing # {}
    BY <1>0 DEF Thread, CountRunner, LinkRunner, DispatchSelf
  <2>2. refcount # 0
    BY <1>s, <2>1, NothingIsCounted
  <2>3. QED
    BY <1>0, <2>2 DEF WorkerPart, OneSignal, OneNotice
<1>n. Len(finished) \in Nat /\ Len(AllItems) \in Nat
  BY <1>0, <1>s, FinishedFits DEF WorkerInv, AllSubmitted
<1>b. /\ refcount = OpenItems + RunnersComing + RunnersThere
      /\ OpenItems \in Int /\ RunnersComing \in Nat /\ RunnersThere \in Nat
  <2>1. OpenItems \in Int
    BY <1>c, <1>n, <1>s DEF OpenItems
  <2>2. QED
    BY <1>0, <2>1, TermsOK DEF WorkerPart, RefcountExact
<1>1. CASE CountRunner(t)
  <2>1. /\ t \in handing \ linking /\ refcount' = refcount + 1
        /\ linking' = linking \cup {t}
        /\ UNCHANGED <<queueVars, pc, owing, leaving, signalling, semVars>>
    BY <1>1 DEF CountRunner, CountedRunner
  <2>2. WorkerTypes'
    BY <1>0, <2>1 DEF WorkerPart, WorkerTypes, queueVars, semVars
  <2>3. NotStarted' /\ AllSubmitted' /\ CallerFirst'
    BY <1>0, <2>1 DEF WorkerPart, NotStarted, AllSubmitted, CallerFirst, queueVars
  <2>4. Cardinality(linking') = Cardinality(linking) + 1
    BY <1>c, <1>d, <2>1, CountThreads
  <2>5. RefcountExact'
    <3>1. OpenItems' = OpenItems
      BY <2>1 DEF OpenItems, queueVars, workerVars
    <3>2. RunnersComing' = RunnersComing + 1
      BY <1>c, <1>n, <1>s, <2>1, <2>4 DEF RunnersComing, queueVars, workerVars
    <3>3. RunnersThere' = RunnersThere
      BY <2>1 DEF RunnersThere, queueVars, workerVars
    <3>4. QED
      BY <1>b, <2>1, <3>1, <3>2, <3>3 DEF RefcountExact, workerVars
  <2>6. OneSignal' /\ OneNotice'
    BY <1>0, <1>z, <2>1 DEF WorkerPart, OneSignal, OneNotice, semVars
  <2>7. QED
    BY <2>2, <2>3, <2>5, <2>6 DEF WorkerPart
<1>2. CASE LinkRunner(t)
  <2>1. /\ t \in linking /\ linking' = linking \ {t}
        /\ handing' = handing \ {t} /\ enqueued' = enqueued + 1
        /\ UNCHANGED <<q, popped, inside, submitted, finished>>
        /\ UNCHANGED <<pc, refcount, owing, leaving, signalling, semVars>>
    BY <1>2 DEF LinkRunner, DispatchSelf
  <2>2. WorkerTypes'
    BY <1>0, <2>1 DEF WorkerPart, WorkerTypes, semVars
  <2>3. NotStarted' /\ AllSubmitted' /\ CallerFirst'
    BY <1>0, <1>s, <2>1 DEF WorkerPart, NotStarted, AllSubmitted, CallerFirst
  <2>4. Cardinality(linking') = Cardinality(linking) - 1
    BY <1>c, <1>d, <2>1, CountThreads
  <2>5. RefcountExact'
    <3>1. OpenItems' = OpenItems
      BY <2>1 DEF OpenItems, queueVars, workerVars
    <3>2. RunnersComing' = RunnersComing
      BY <1>c, <1>n, <1>s, <2>1, <2>4 DEF RunnersComing, queueVars, workerVars
    <3>3. RunnersThere' = RunnersThere
      BY <2>1 DEF RunnersThere, queueVars, workerVars
    <3>4. QED
      BY <1>b, <2>1, <3>1, <3>2, <3>3 DEF RefcountExact, workerVars
  <2>6. OneSignal' /\ OneNotice'
    BY <1>0, <1>z, <2>1 DEF WorkerPart, OneSignal, OneNotice, semVars
  <2>7. QED
    BY <2>2, <2>3, <2>5, <2>6 DEF WorkerPart
<1>3. QED
  BY <1>1, <1>2 DEF Thread

\* A thread of the pool takes the Worker up, runs items and lets go of it.
LEMMA RunnerKeeps ==
    ASSUME OneCaller, WorkerInv, IInv', OrderInv', NEW r \in Runners, Runner(r)
    PROVE  WorkerPart'
<1> USE DEF OneCaller
<1>0. IInv /\ WorkerPart /\ TypeOK
  BY DEF WorkerInv, WorkerPart, IInv
<1>c. /\ Cardinality(owing) \in Nat /\ Cardinality(linking) \in Nat
      /\ enqueued \in Nat /\ Cardinality(popped) \in Nat
      /\ Cardinality(inside) \in Nat /\ Cardinality(leaving) \in Nat
  BY <1>0, WorkerCounts DEF WorkerPart
<1>d. /\ popped \in SUBSET (Clients \cup Runners)
      /\ inside \in SUBSET (Clients \cup Runners)
      /\ leaving \in SUBSET (Clients \cup Runners)
      /\ owing \in SUBSET (Clients \cup Runners)
      /\ r \in Clients \cup Runners /\ r # Main
  BY <1>0, WorkerCounts, DispatchQueueAssumption DEF WorkerPart
<1>a. \/ r \in signalling \cup informing
      \/ r \in inside \/ r \in popped \/ r \in leaving \/ enqueued # 0
  BY <1>0
  DEF Runner, StartRunner, RunLocked, RunItem, ReleaseItem, ReleaseRunner, SignalCaller, Notify,
      Pop, Begin, Resume, FinishItem, Executes, TypeOK, ThreadsOK, WorkerPart, WorkerTypes
<1>s. pc \in {"wait", "returned"}
  BY <1>0, <1>a DEF WorkerPart, WorkerTypes, NotStarted, OneSignal, OneNotice
<1>n. Len(finished) \in Nat /\ Len(AllItems) \in Nat
  BY <1>0, <1>s, FinishedFits DEF WorkerInv, AllSubmitted
<1>b. /\ refcount = OpenItems + RunnersComing + RunnersThere
      /\ OpenItems \in Int /\ RunnersComing \in Nat /\ RunnersThere \in Nat
  <2>1. OpenItems \in Int
    BY <1>c, <1>n, <1>s DEF OpenItems
  <2>2. QED
    BY <1>0, <2>1, TermsOK DEF WorkerPart, RefcountExact
<1>z. r \notin signalling \cup informing =>
        refcount # 0 /\ signalling = {} /\ informing = {} /\ ~ (value > 0) /\ pc # "returned"
  <2>1. r \notin signalling \cup informing => refcount # 0
    BY <1>s, <1>a, NothingIsCounted
  <2>2. QED
    BY <1>0, <2>1 DEF WorkerPart, OneSignal, OneNotice
<1>m. Main \in handing => popped = {} /\ enqueued = 0 /\ inside = {}
  BY <1>0, CallerAlone DEF WorkerPart, CallerFirst
<1>1. CASE StartRunner(r)
  <2>1. /\ r \notin leaving \cup signalling /\ r \notin popped \cup inside
        /\ enqueued > 0 /\ enqueued' = enqueued - 1 /\ popped' = popped \cup {r}
        /\ UNCHANGED <<q, handing, inside, submitted, finished>>
        /\ UNCHANGED <<workerVars, semVars>>
    BY <1>1 DEF StartRunner, Pop
  <2>2. WorkerTypes'
    BY <1>0, <2>1 DEF WorkerPart, WorkerTypes, workerVars, semVars
  <2>3. NotStarted' /\ AllSubmitted' /\ CallerFirst'
    BY <1>0, <1>s, <2>1 DEF WorkerPart, NotStarted, AllSubmitted, CallerFirst, workerVars
  <2>4. Cardinality(popped') = Cardinality(popped) + 1
    BY <1>c, <1>d, <2>1, CountThreads
  <2>5. RefcountExact'
    <3>1. OpenItems' = OpenItems
      BY <2>1 DEF OpenItems, queueVars, workerVars
    <3>2. RunnersComing' = RunnersComing
      BY <1>c, <1>n, <1>s, <2>1, <2>4 DEF RunnersComing, queueVars, workerVars
    <3>3. RunnersThere' = RunnersThere
      BY <2>1 DEF RunnersThere, queueVars, workerVars
    <3>4. QED
      BY <1>b, <2>1, <3>1, <3>2, <3>3 DEF RefcountExact, workerVars
  <2>6. OneSignal' /\ OneNotice'
    BY <1>0, <1>z, <2>1 DEF WorkerPart, OneSignal, OneNotice, workerVars, semVars
  <2>7. QED
    BY <2>2, <2>3, <2>5, <2>6 DEF WorkerPart
<1>2. CASE RunLocked(r)
  <2>0. r \in popped \cup locking /\ r \notin owing /\ r \notin leaving
        /\ Main \notin handing
    BY <1>0, <1>2, <1>m
    DEF RunLocked, Begin, Resume, WorkerPart, WorkerTypes, TypeOK, ThreadsOK
  <2>1. /\ UNCHANGED <<pc, refcount, linking, owing, signalling, semVars>>
        /\ UNCHANGED <<enqueued, submitted, finished>>
        /\ handing \subseteq handing' /\ handing' \subseteq handing \cup {r}
        /\ popped' = popped \ {r}
        /\ inside' = inside \cup {r} \/ inside' = inside \ {r}
        /\ leaving' = IF r \in inside' THEN leaving ELSE leaving \cup {r}
    <3>1. /\ UNCHANGED <<pc, refcount, linking, owing, signalling, semVars>>
          /\ leaving' = IF r \in inside' THEN leaving ELSE leaving \cup {r}
      BY <1>2 DEF RunLocked
    <3>2. CASE Begin(r)
      BY <3>1, <3>2 DEF Begin, FetchOrLeave
    <3>3. CASE Resume(r)
      <4>1. r \notin popped
        BY <1>0, <3>3 DEF Resume, TypeOK, ThreadsOK
      <4>2. QED
        BY <3>1, <3>3, <4>1 DEF Resume, FetchOrLeave
    <3>4. QED
      BY <1>2, <3>2, <3>3 DEF RunLocked
  <2>2. WorkerTypes'
    BY <1>0, <2>0, <2>1 DEF WorkerPart, WorkerTypes, semVars
  <2>3. NotStarted' /\ AllSubmitted' /\ CallerFirst'
    BY <1>0, <1>d, <1>s, <2>0, <2>1 DEF WorkerPart, NotStarted, AllSubmitted, CallerFirst
  <2>4. LET p == Cardinality(popped)
            i == Cardinality(inside)
            v == Cardinality(leaving)
        IN  \/ p' = p /\ i' = i /\ v' = v
            \/ p' = p - 1 /\ i' = i + 1 /\ v' = v
            \/ p' = p - 1 /\ i' = i /\ v' = v + 1
            \/ p' = p /\ i' = i - 1 /\ v' = v + 1
    <3>1. CASE r \in popped /\ r \notin inside
      <4>1. Cardinality(popped') = Cardinality(popped) - 1
        BY <1>d, <2>1, <3>1, CountThreads
      <4>2. CASE inside' = inside \cup {r}
        BY <1>d, <2>1, <3>1, <4>1, <4>2, CountThreads
      <4>3. CASE inside' = inside \ {r}
        <5>1. inside' = inside
          BY <3>1, <4>3
        <5>2. Cardinality(leaving') = Cardinality(leaving) + 1
          BY <1>d, <2>0, <2>1, <4>3, CountThreads
        <5>3. QED
          BY <4>1, <5>1, <5>2
      <4>4. QED
        BY <2>1, <4>2, <4>3
    <3>2. CASE r \notin popped /\ r \in inside
      <4>1. popped' = popped
        BY <2>1, <3>2
      <4>2. CASE inside' = inside \cup {r}
        <5>1. inside' = inside /\ leaving' = leaving
          BY <2>1, <3>2, <4>2
        <5>2. QED
          BY <4>1, <5>1
      <4>3. CASE inside' = inside \ {r}
        <5>1. Cardinality(inside') = Cardinality(inside) - 1
          BY <1>d, <3>2, <4>3, CountThreads
        <5>2. Cardinality(leaving') = Cardinality(leaving) + 1
          BY <1>d, <2>0, <2>1, <4>3, CountThreads
        <5>3. QED
          BY <4>1, <5>1, <5>2
      <4>4. QED
        BY <2>1, <4>2, <4>3
    <3>3. QED
      BY <1>0, <2>0, <3>1, <3>2 DEF TypeOK, ThreadsOK
  <2>5. RefcountExact'
    <3>1. OpenItems' = OpenItems
      BY <2>1 DEF OpenItems
    <3>2. \/ RunnersComing' = RunnersComing /\ RunnersThere' = RunnersThere
          \/ RunnersComing' = RunnersComing - 1 /\ RunnersThere' = RunnersThere + 1
      <4> DEFINE l == Cardinality(linking)
                 p == Cardinality(popped)
                 i == Cardinality(inside)
                 v == Cardinality(leaving)
      <4>1. l \in Nat /\ p \in Nat /\ i \in Nat /\ v \in Nat /\ enqueued \in Nat
        BY <1>c
      <4>2. RunnersComing = l + enqueued + p /\ RunnersThere = i + v
        BY DEF RunnersComing, RunnersThere
      <4>3. RunnersComing' = l + enqueued + p' /\ RunnersThere' = i' + v'
        BY <2>1 DEF RunnersComing, RunnersThere
      <4> HIDE DEF l, p, i, v
      <4>4. CASE p' = p /\ i' = i /\ v' = v
        BY ONLY <4>1, <4>2, <4>3, <4>4
      <4>5. CASE p' = p - 1 /\ i' = i + 1 /\ v' = v
        BY ONLY <4>1, <4>2, <4>3, <4>5
      <4>6. CASE p' = p - 1 /\ i' = i /\ v' = v + 1
        BY ONLY <4>1, <4>2, <4>3, <4>6
      <4>7. CASE p' = p /\ i' = i - 1 /\ v' = v + 1
        BY ONLY <4>1, <4>2, <4>3, <4>7
      <4>8. QED
        BY <2>4, <4>4, <4>5, <4>6, <4>7 DEF l, p, i, v
    <3>3. QED
      BY <1>b, <2>1, <3>1, <3>2 DEF RefcountExact
  <2>6. OneSignal' /\ OneNotice'
    <3>1. r \notin signalling \cup informing
      <4>1. r \in signalling \cup informing => refcount = 0
        BY <1>0 DEF WorkerPart, OneSignal, OneNotice
      <4>2. QED
        BY <1>0, <1>s, <2>0, <4>1, NothingIsCounted DEF TypeOK, ThreadsOK
    <3>2. QED
      BY <1>0, <1>z, <2>1, <3>1 DEF WorkerPart, OneSignal, OneNotice, semVars
  <2>7. QED
    BY <2>2, <2>3, <2>5, <2>6 DEF WorkerPart
<1>3. CASE RunItem(r)
  <2>1. /\ r \in inside /\ r \notin owing /\ owing' = owing \cup {r}
        /\ finished' = Append(finished, Head(work[r]))
        /\ UNCHANGED <<q, handing, enqueued, popped, inside, submitted>>
        /\ UNCHANGED <<pc, refcount, linking, leaving, signalling, semVars>>
    BY <1>3 DEF RunItem, FinishItem, Executes
  <2>2. WorkerTypes'
    BY <1>0, <2>1 DEF WorkerPart, WorkerTypes, semVars
  <2>3. NotStarted' /\ AllSubmitted' /\ CallerFirst'
    BY <1>0, <1>m, <1>s, <2>1 DEF WorkerPart, NotStarted, AllSubmitted, CallerFirst
  <2>4. Cardinality(owing') = Cardinality(owing) + 1
    BY <1>c, <1>d, <2>1, CountThreads
  <2>5. Len(finished') = Len(finished) + 1
    <3>1. finished \in Seq(Items)
      BY <1>0 DEF TypeOK, QueuesOK
    <3>2. QED
      BY <2>1, <3>1
  <2>6. RefcountExact'
    <3>1. OpenItems' = OpenItems
      BY <1>c, <1>n, <1>s, <2>1, <2>4, <2>5 DEF OpenItems, queueVars, workerVars
    <3>2. RunnersComing' = RunnersComing
      BY <2>1 DEF RunnersComing, queueVars, workerVars
    <3>3. RunnersThere' = RunnersThere
      BY <2>1 DEF RunnersThere, queueVars, workerVars
    <3>4. QED
      BY <1>b, <2>1, <3>1, <3>2, <3>3 DEF RefcountExact, workerVars
  <2>7. OneSignal' /\ OneNotice'
    <3>1. r \notin signalling \cup informing
      <4>1. r \in signalling \cup informing => refcount = 0
        BY <1>0 DEF WorkerPart, OneSignal, OneNotice
      <4>2. QED
        BY <1>s, <2>1, <4>1, NothingIsCounted
    <3>2. QED
      BY <1>0, <1>z, <2>1, <3>1 DEF WorkerPart, OneSignal, OneNotice, semVars
  <2>8. QED
    BY <2>2, <2>3, <2>6, <2>7 DEF WorkerPart
<1>4. CASE ReleaseItem(r)
  <2>1. /\ r \in owing /\ refcount' = refcount - 1 /\ owing' = owing \ {r}
        /\ UNCHANGED <<queueVars, pc, linking, leaving, signalling, semVars>>
    BY <1>4 DEF ReleaseItem
  <2>2. Cardinality(owing') = Cardinality(owing) - 1 /\ Cardinality(owing) > 0
    BY <1>c, <1>d, <2>1, CountThreads
  <2>3. r \in inside /\ r \notin signalling \cup informing
    <3>1. r \in inside
      BY <1>0, <2>1 DEF WorkerPart, WorkerTypes
    <3>2. r \in signalling \cup informing => refcount = 0
      BY <1>0 DEF WorkerPart, OneSignal, OneNotice
    <3>3. QED
      BY <1>s, <3>1, <3>2, NothingIsCounted
  <2>4. WorkerTypes'
    <3>1. refcount' \in Nat
      BY <1>0, <1>z, <2>1, <2>3 DEF WorkerPart, WorkerTypes
    <3>2. QED
      BY <1>0, <2>1, <3>1 DEF WorkerPart, WorkerTypes, queueVars, semVars
  <2>5. NotStarted' /\ AllSubmitted' /\ CallerFirst'
    BY <1>0, <2>1 DEF WorkerPart, NotStarted, AllSubmitted, CallerFirst, queueVars
  <2>6. RefcountExact'
    <3>1. OpenItems' = OpenItems - 1
      BY <1>c, <1>n, <1>s, <2>1, <2>2 DEF OpenItems, queueVars, workerVars
    <3>2. RunnersComing' = RunnersComing
      BY <2>1 DEF RunnersComing, queueVars, workerVars
    <3>3. RunnersThere' = RunnersThere
      BY <2>1 DEF RunnersThere, queueVars, workerVars
    <3>4. QED
      BY <1>b, <2>1, <3>1, <3>2, <3>3 DEF RefcountExact, workerVars
  <2>7. OneSignal' /\ OneNotice'
    BY <1>0, <1>z, <2>1, <2>3 DEF WorkerPart, OneSignal, OneNotice, semVars
  <2>8. QED
    BY <2>4, <2>5, <2>6, <2>7 DEF WorkerPart
<1>5. CASE ReleaseRunner(r)
  <2>1. /\ r \in leaving /\ refcount' = refcount - 1 /\ leaving' = leaving \ {r}
        /\ signalling' = IF refcount = 1 THEN signalling \cup {r} ELSE signalling
        /\ UNCHANGED <<queueVars, pc, linking, owing, semVars>>
    BY <1>5 DEF ReleaseRunner, LastOne
  <2>2. Cardinality(leaving') = Cardinality(leaving) - 1 /\ Cardinality(leaving) > 0
    BY <1>c, <1>d, <2>1, CountThreads
  <2>3. r \notin signalling \cup informing
    <3>1. r \in signalling \cup informing => refcount = 0
      BY <1>0 DEF WorkerPart, OneSignal, OneNotice
    <3>2. QED
      BY <1>s, <2>1, <3>1, NothingIsCounted
  <2>4. WorkerTypes'
    <3>1. refcount' \in Nat
      BY <1>0, <1>z, <2>1, <2>3 DEF WorkerPart, WorkerTypes
    <3>2. QED
      BY <1>0, <2>1, <3>1 DEF WorkerPart, WorkerTypes, queueVars, semVars
  <2>5. NotStarted' /\ AllSubmitted' /\ CallerFirst'
    BY <1>0, <1>s, <2>1 DEF WorkerPart, NotStarted, AllSubmitted, CallerFirst, queueVars
  <2>6. RefcountExact'
    <3>1. OpenItems' = OpenItems
      BY <2>1 DEF OpenItems, queueVars, workerVars
    <3>2. RunnersComing' = RunnersComing
      BY <2>1 DEF RunnersComing, queueVars, workerVars
    <3>3. RunnersThere' = RunnersThere - 1
      BY <1>c, <1>n, <1>s, <2>1, <2>2 DEF RunnersThere, queueVars, workerVars
    <3>4. QED
      BY <1>b, <2>1, <3>1, <3>2, <3>3 DEF RefcountExact, workerVars
  <2>7. OneSignal' /\ OneNotice'
    <3>1. refcount \in Nat
      BY <1>0 DEF WorkerPart, WorkerTypes
    <3>2. /\ signalling = {} /\ ~ (value > 0) /\ pc = "wait"
          /\ value' = value /\ pc' = pc
      BY <1>s, <1>z, <2>1, <2>3 DEF semVars
    <3>3. value <= 1 /\ value = 0
      BY <1>0, <3>2 DEF WorkerPart, WorkerTypes, OneSignal, OneNotice
    <3>4. OneSignal'
      BY <2>1, <3>1, <3>2, <3>3 DEF OneSignal
    <3>5. informing' = {}
      BY <1>z, <2>1, <2>3 DEF semVars
    <3>6. QED
      BY <3>4, <3>5 DEF OneNotice
  <2>8. QED
    BY <2>4, <2>5, <2>6, <2>7 DEF WorkerPart
<1>6. CASE SignalCaller(r)
  <2>1. /\ r \in signalling /\ signalling' = signalling \ {r}
        /\ value' = value + 1 /\ UNCHANGED <<blocked, wokenEarly>>
        /\ informing' = IF Main \in blocked THEN informing \cup {r} ELSE informing
        /\ UNCHANGED <<queueVars, pc, refcount, linking, owing, leaving>>
    BY <1>6 DEF SignalCaller, Sem!Up
  <2>2. WorkerTypes'
    BY <1>0, <2>1 DEF WorkerPart, WorkerTypes, queueVars
  <2>3. NotStarted' /\ AllSubmitted' /\ CallerFirst' /\ RefcountExact'
    BY <1>0, <2>1
    DEF WorkerPart, NotStarted, AllSubmitted, CallerFirst, RefcountExact, OpenItems,
        RunnersComing, RunnersThere, queueVars
  <2>4. OneSignal' /\ OneNotice'
    <3>1. /\ value = 0 /\ pc # "returned" /\ refcount = 0 /\ signalling = {r}
          /\ informing = {}
      BY <1>0, <2>1 DEF WorkerPart, OneSignal, OneNotice
    <3>2. QED
      BY <1>s, <2>1, <3>1 DEF OneSignal, OneNotice
  <2>5. QED
    BY <2>2, <2>3, <2>4 DEF WorkerPart
<1>7. CASE Notify(r)
  <2>1. /\ r \in informing /\ informing' = informing \ {r}
        /\ UNCHANGED <<queueVars, workerVars, value, blocked, wokenEarly>>
    BY <1>7 DEF Notify
  <2>2. WorkerTypes'
    BY <1>0, <2>1 DEF WorkerPart, WorkerTypes, queueVars, workerVars
  <2>3. NotStarted' /\ AllSubmitted' /\ CallerFirst' /\ RefcountExact'
    BY <1>0, <2>1
    DEF WorkerPart, NotStarted, AllSubmitted, CallerFirst, RefcountExact, OpenItems,
        RunnersComing, RunnersThere, queueVars, workerVars
  <2>4. OneSignal' /\ OneNotice'
    BY <1>0, <2>1 DEF WorkerPart, OneSignal, OneNotice, workerVars
  <2>5. QED
    BY <2>2, <2>3, <2>4 DEF WorkerPart
<1>8. QED
  BY <1>1, <1>2, <1>3, <1>4, <1>5, <1>6, <1>7 DEF Runner
------------------------------------------------------------------------------
\* At first nothing is queued and nobody is there.
LEMMA WorkerAtFirst == ParallelInit => WorkerInv
<1> SUFFICES ASSUME ParallelInit PROVE WorkerInv
  OBVIOUS
<1>1. IInv /\ OrderInv
  BY BooksAtFirst, OrderAtFirst DEF ParallelInit
<1>2. /\ pc = "count" /\ refcount = 0 /\ value = 0 /\ blocked = {}
      /\ linking = {} /\ owing = {} /\ leaving = {} /\ signalling = {}
      /\ submitted = <<>> /\ q = <<>> /\ finished = <<>>
      /\ handing = {} /\ enqueued = 0 /\ popped = {} /\ inside = {}
      /\ informing = {} /\ wokenEarly = FALSE
  BY DEF ParallelInit, Init, Sem!AbsInit
<1>3. WorkerTypes /\ NotStarted /\ AllSubmitted /\ CallerFirst
  BY <1>2 DEF WorkerTypes, NotStarted, AllSubmitted, CallerFirst
<1>s. OneSignal /\ OneNotice
  BY <1>2 DEF OneSignal, OneNotice
<1>4. RefcountExact
  <2>1. Cardinality({}) = 0
    BY FS_EmptySet
  <2>2. QED
    BY <1>2, <2>1 DEF RefcountExact, OpenItems, RunnersComing, RunnersThere
<1>5. QED
  BY <1>1, <1>3, <1>s, <1>4 DEF WorkerInv

\* Each step of the caller, of the threads and of the pool keeps the invariant.
LEMMA StepKeepsWorker ==
    ASSUME OneCaller, WorkerInv, [ParallelNext]_parallelVars
    PROVE  WorkerInv'
<1>1. IInv' /\ OrderInv'
  BY WorkerUsesQueue, StepKeepsBooks, StepKeepsOrder DEF WorkerInv
<1>2. CASE Caller \/ WakeSpuriously
  BY <1>1, <1>2, CallerKeeps DEF WorkerInv, WorkerPart
<1>3. ASSUME NEW t \in Clients \cup Runners, Thread(t) PROVE WorkerInv'
  BY <1>1, <1>3, ThreadKeeps DEF WorkerInv, WorkerPart
<1>4. ASSUME NEW r \in Runners, Runner(r) PROVE WorkerInv'
  BY <1>1, <1>4, RunnerKeeps DEF WorkerInv, WorkerPart
<1>5. CASE UNCHANGED parallelVars
  <2>1. /\ WorkerTypes' /\ NotStarted' /\ AllSubmitted' /\ CallerFirst'
        /\ OneSignal' /\ OneNotice'
    BY <1>5
    DEF WorkerInv, WorkerTypes, NotStarted, AllSubmitted, CallerFirst, OneSignal,
        OneNotice, parallelVars, queueVars, workerVars, semVars
  <2>2. RefcountExact'
    BY <1>5
    DEF WorkerInv, RefcountExact, OpenItems, RunnersComing, RunnersThere,
        parallelVars, queueVars, workerVars
  <2>3. QED
    BY <1>1, <2>1, <2>2 DEF WorkerInv
<1>6. QED
  BY <1>2, <1>3, <1>4, <1>5 DEF ParallelNext

\* The invariant of the Worker and of the queue it uses holds at all times, for any items
\* and threads.
THEOREM WorkerInvariance == ASSUME OneCaller PROVE ParallelSafeSpec => []WorkerInv
BY WorkerAtFirst, StepKeepsWorker, PTL DEF ParallelSafeSpec

\* The reference count is exact at all times, for any items and threads.
THEOREM CountIsExact == ASSUME OneCaller PROVE ParallelSafeSpec => []RefcountExact
BY WorkerInvariance, PTL DEF WorkerInv

LEMMA ReturnedIsOver == ASSUME OneCaller PROVE WorkerInv => NobodyLeftBehind
<1> SUFFICES ASSUME WorkerInv, pc = "returned" PROVE
      /\ Len(finished) = Len(AllItems)
      /\ handing = {} /\ enqueued = 0 /\ popped = {} /\ inside = {}
      /\ leaving = {} /\ signalling = {}
      /\ IF wokenEarly THEN Cardinality(informing) <= 1 ELSE informing = {}
  BY DEF NobodyLeftBehind
<1>1. refcount = 0 /\ signalling = {}
  BY DEF WorkerInv, OneSignal
<1>2. ~ wokenEarly => informing = {}
  BY DEF WorkerInv, OneNotice
<1>3. Cardinality(informing) <= 1
  <2>1. CASE informing = {}
    BY <2>1, FS_EmptySet
  <2>2. ASSUME NEW r \in informing PROVE Cardinality(informing) = 1
    <3>1. informing = {r}
      BY <2>2 DEF WorkerInv, OneNotice
    <3>2. QED
      BY <3>1, FS_Singleton
  <2>3. QED
    BY <2>1, <2>2
<1>4. QED
  BY <1>1, <1>2, <1>3, NothingIsCounted

\* When parallel() returns every item is done, and no thread will use the
\* Worker, which is on the stack of the caller, any more: but for one call of
\* c.notify_one(), if the caller woke without it.
THEOREM ReturnsLast == ASSUME OneCaller PROVE ParallelSafeSpec => []NobodyLeftBehind
BY WorkerInvariance, ReturnedIsOver, PTL

\* What parallel() promises, without its liveness.
ParallelSafety == AbstractCall!AbsSafeSpec

\* parallel() executes each item once and returns after the last of them: each of
\* its steps is a step of AbstractParallel or leaves that one's state alone.
THEOREM ParallelRefinement == ASSUME OneCaller PROVE ParallelSafeSpec => ParallelSafety
<1> USE DEF AbstractCall!absVars
<1>1. ParallelInit => AbstractCall!AbsInit
  BY DEF ParallelInit, Init, AbstractCall!AbsInit, ToSet
<1>2. WorkerInv /\ [ParallelNext]_parallelVars
        => [AbstractCall!AbsNext]_(AbstractCall!absVars)
  <2> SUFFICES ASSUME WorkerInv, [ParallelNext]_parallelVars
               PROVE  \/ AbstractCall!AbsNext
                      \/ UNCHANGED <<ToSet(finished), pc = "returned">>
    OBVIOUS
  <2>1. CASE Count
    BY <2>1 DEF Count, queueVars
  <2>2. CASE Dispatch
    BY <2>2 DEF Dispatch, Submit, queueVars
  <2>3. CASE Wait \/ WakeSpuriously
    <3>1. finished' = finished /\ pc = "wait"
      BY <2>3 DEF Wait, WakeSpuriously, queueVars
    <3>2. CASE pc' = pc
      BY <3>1, <3>2
    <3>3. CASE pc' # pc
      <4>1. pc' = "returned" /\ value > 0
        BY <2>3, <3>3 DEF Wait, WakeSpuriously, Sem!Down, Sem!Unblock
      <4>2. refcount = 0 /\ submitted = AllItems
        BY <3>1, <4>1 DEF WorkerInv, OneSignal, AllSubmitted
      <4>3. Len(finished) = Len(AllItems)
        BY <3>1, <4>2, NothingIsCounted
      <4>4. ToSet(finished) = ToSet(AllItems)
        BY <4>2, <4>3, FinishedFits DEF WorkerInv
      <4>5. QED
        BY <3>1, <4>1, <4>4 DEF AbstractCall!AbsNext, AbstractCall!Return
    <3>4. QED
      BY <3>2, <3>3
  <2>4. ASSUME NEW t \in Clients \cup Runners, Thread(t)
        PROVE  UNCHANGED <<ToSet(finished), pc = "returned">>
    BY <2>4 DEF Thread, CountRunner, LinkRunner, DispatchSelf, queueVars
  <2>5. ASSUME NEW r \in Runners, Runner(r)
        PROVE  \/ AbstractCall!AbsNext
               \/ UNCHANGED <<ToSet(finished), pc = "returned">>
    <3>1. CASE RunItem(r)
      <4> DEFINE i == Head(work[r])
      <4>1. /\ r \in inside /\ Executes(r) /\ finished' = Append(finished, i)
            /\ pc' = pc
        BY <3>1 DEF RunItem, FinishItem, Executes
      <4>2. work[r] # <<>>
        BY <4>1 DEF WorkerInv, IInv, RunnersCounted
      <4>3. /\ i \in ToSet(submitted) \ ToSet(finished)
            /\ ToSet(finished') = ToSet(finished) \cup {i}
        BY <4>1, <4>2, HeadIsUnfinished DEF WorkerInv
      <4>4. pc # "returned"
        BY <4>1, ReturnedIsOver DEF NobodyLeftBehind
      <4>5. pc = "wait"
        BY <4>1, <4>4 DEF WorkerInv, WorkerTypes, NotStarted
      <4>6. submitted = AllItems
        BY <4>5 DEF WorkerInv, AllSubmitted
      <4> HIDE DEF i
      <4>7. AbstractCall!ExecuteItem(i)
        BY <4>1, <4>3, <4>4, <4>6 DEF AbstractCall!ExecuteItem
      <4>8. QED
        BY <4>3, <4>6, <4>7 DEF AbstractCall!AbsNext
    <3>2. CASE ~ RunItem(r)
      BY <2>5, <3>2
      DEF Runner, StartRunner, RunLocked, ReleaseItem, ReleaseRunner, SignalCaller, Notify,
          Pop, Begin, Resume, queueVars, workerVars
    <3>3. QED
      BY <3>1, <3>2
  <2>6. CASE UNCHANGED parallelVars
    BY <2>6 DEF parallelVars, queueVars, workerVars
  <2>7. QED
    BY <2>1, <2>2, <2>3, <2>4, <2>5, <2>6 DEF ParallelNext, Caller
<1>3. QED
  BY WorkerInvariance, <1>1, <1>2, PTL
  DEF ParallelSafeSpec, ParallelSafety, AbstractCall!AbsSafeSpec
==============================================================================
