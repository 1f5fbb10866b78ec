------------------------------ MODULE MemoryPool ------------------------------
(***************************************************************************)
(* The memory pools of bitpowder.  A pool allocates from the page that is   *)
(* current; it can be put back to an earlier status, which runs the delayed *)
(* functions, gives the pages to newPool, which all threads share, and      *)
(* frees the large blocks.  Memory is a range of addresses; a page is named *)
(* by the address of its header.  A world is a record of all that changes.  *)
(***************************************************************************)
EXTENDS Integers, Sequences, FiniteSets, SequencesExt, FiniteSetsExt

CONSTANTS Pools, Full,                  \* the pools; those used in full, the others allocate once
          PoolPages, Larges, Buffers,   \* addresses of what malloc can return, and of other memory
          PageSize, LargeSize,          \* MEMORYPOOL_SIZE; what malloc gives for a large request
          Header, Threshold,            \* sizeof(MemoryPoolPage); what is too small to be added
          Sizes,
          MaxBlocks, MaxStatuses        \* bounds

VARIABLES world,      \* heap, newPool, page, live, births, pool
          statuses,   \* per pool: the statuses its user has, the oldest first
          doing,      \* per pool: the restore() under way
          failed,     \* the assertions of restore() and clear() that failed
          buried      \* a delayed function made a page in memory that its restore() releases

poolVars == <<world, statuses, doing, failed, buried>>

None == 0
Addresses == 1 .. Max(PoolPages \cup Larges \cup Buffers) + Max({PageSize, LargeSize}) - 1
NoPage == [pooled |-> FALSE, size |-> 0, available |-> 0]
Idle == [phase |-> "idle"]
Empty == [current |-> None, all |-> <<>>, objects |-> <<>>, memoryObjects |-> <<>>]
NoStatus == [current |-> None, available |-> 0, nextPage |-> None, objects |-> 0,
             memoryObjects |-> 0, births |-> 0]

PoolInit ==
    /\ world = [heap |-> PoolPages \cup Larges \cup Buffers, newPool |-> <<>>,
                page |-> [a \in Addresses |-> NoPage], live |-> {}, births |-> 0,
                pool |-> [p \in Pools |-> Empty]]
    /\ statuses = [p \in Pools |-> <<>>]
    /\ doing = [p \in Pools |-> Idle]
    /\ failed = {} /\ buried = FALSE

LastOr(s, default) == IF s = <<>> THEN default ELSE Last(s)
Index(s, x) == IF x \in ToSet(s) THEN CHOOSE i \in DOMAIN s : s[i] = x ELSE 0
Block(w, birth) == CHOOSE b \in w.live : b.birth = birth
------------------------------------------------------------------------------
(* Allocation *)

Available(w, p) == IF w.pool[p].current = None THEN 0 ELSE w.page[w.pool[p].current].available

\* next(): the address that is allocated next.
NextFree(w, p) ==
    LET c == w.pool[p].current IN c + Header + w.page[c].size - w.page[c].available

FreshPages(w) == w.heap \cap PoolPages

\* allocExtra(): a page that was added and is not used yet, one of newPool, one of malloc.
AllocExtra(w, p) ==
    LET all == w.pool[p].all
        at == Index(all, w.pool[p].current)
        a == IF w.newPool = <<>> THEN Min(FreshPages(w)) ELSE Last(w.newPool)
        size == PageSize - Header
    IN  IF w.pool[p].current # None /\ at < Len(all)
        THEN [w EXCEPT !.pool[p].current = all[at + 1]]
        ELSE [w EXCEPT !.page[a] = [pooled |-> TRUE, size |-> size, available |-> size],
                       !.newPool = IF @ = <<>> THEN @ ELSE Front(@),
                       !.heap = IF w.newPool = <<>> THEN @ \ {a} ELSE @,
                       !.pool[p].all = Append(@, a),
                       !.pool[p].current = a]

RECURSIVE WithRoom(_, _, _)
WithRoom(w, p, size) ==
    IF w.pool[p].current # None /\ size <= Available(w, p) THEN w
    ELSE WithRoom(AllocExtra(w, p), p, size)

\* What alloc() returns is remembered: whose it is, what for, which memory it frees.
AllocSmall(w, p, size, kind, does) ==
    LET r == WithRoom(w, p, size)
    IN  [r EXCEPT !.page[r.pool[p].current].available = @ - size,
                  !.births = @ + 1,
                  !.live = @ \cup {[at |-> NextFree(r, p), len |-> size, birth |-> r.births + 1,
                                    owner |-> p, kind |-> kind, does |-> does]}]

AddMemory(w, p, at, size) ==
    IF size <= Threshold \/ size <= Header THEN w
    ELSE [w EXCEPT !.page[at] = [pooled |-> FALSE, size |-> size - Header,
                                 available |-> size - Header],
                   !.pool[p].all = Append(@, at),
                   !.pool[p].current = IF @ = None THEN at ELSE @]

\* delay() and delayMemory() keep the function in memory of the pool.
Delay(w, p, does) ==
    LET r == AllocSmall(w, p, 1, "object", does)
    IN  [r EXCEPT !.pool[p].objects = Append(@, r.births)]

DelayMemory(w, p, a) ==
    LET r == AllocSmall(w, p, 1, "memory", a)
    IN  [r EXCEPT !.pool[p].memoryObjects = Append(@, r.births)]

TooLarge(w, p, size) == size > PageSize \div 2 /\ size > Available(w, p)

\* A large request: what malloc gave on top of it is added to the pool.
AllocLarge(w, p, size) ==
    LET a == Min(w.heap \cap Larges)
        r == [w EXCEPT !.heap = @ \ {a}, !.births = @ + 1,
                       !.live = @ \cup {[at |-> a, len |-> size, birth |-> w.births + 1,
                                         owner |-> p, kind |-> "data", does |-> None]}]
    IN  DelayMemory(AddMemory(r, p, a + size, LargeSize - size), p, a)

Alloc(w, p, size) ==
    IF TooLarge(w, p, size) THEN AllocLarge(w, p, size)
    ELSE AllocSmall(w, p, size, "data", None)

Reserve(w, p, size) ==
    LET a == Min(w.heap \cap Larges)
    IN  IF TooLarge(w, p, size)
        THEN DelayMemory(AddMemory([w EXCEPT !.heap = @ \ {a}], p, a, LargeSize), p, a)
        ELSE IF size > Available(w, p) THEN AllocExtra(w, p) ELSE w

\* returnUnused() of the last n units of a block: back into the current page, or a page of
\* its own, or of no use.
ReturnUnused(w, p, b, n) ==
    LET r == [w EXCEPT !.live = (@ \ {b}) \cup
                 (IF n = b.len THEN {} ELSE {[b EXCEPT !.len = @ - n]})]
    IN  IF w.pool[p].current # None /\ b.at + b.len = NextFree(w, p)
        THEN [r EXCEPT !.page[w.pool[p].current].available = @ + n]
        ELSE AddMemory(r, p, b.at + b.len - n, n)

\* Allocator::deallocate(): not while the pool rewinds; the Allocator keeps it then.
Deallocate(w, p, b, rewinding) ==
    IF b.len = 1 \/ rewinding THEN w ELSE ReturnUnused(w, p, b, b.len)
------------------------------------------------------------------------------
(* restore() *)

\* A delayed function uses the pool that is restored as its user does: it allocates a little
\* or much, delays another one, adds memory, deallocates or returns the newest block before it.
Executions(w, p, b) ==
    LET own == {x \in w.live : x.owner = p /\ x.kind = "data" /\ x.birth < b.birth}
        newest == {x \in own : \A y \in own : y.birth <= x.birth}
    IN  CASE b.does = "nothing" -> {w}
          [] b.does = "allocates" -> {Alloc(w, p, n) : n \in {1, Max(Sizes)}}
          [] b.does = "delays" -> {Delay(w, p, "nothing")}
          [] b.does = "adds" ->
                {AddMemory([w EXCEPT !.heap = @ \ {a}], p, a, PageSize) : a \in w.heap \cap Buffers}
          [] b.does = "deallocates" -> {w} \cup {Deallocate(w, p, x, TRUE) : x \in newest}
          [] b.does = "returns" -> {w} \cup {ReturnUnused(w, p, x, x.len) : x \in newest}

\* restore() releases the large blocks and the memory allocated since the status: a page that
\* a delayed function makes in there, of what a large request left over or of a returned
\* block, stays in the pool.
InReleased(w, p, d) ==
    \E a \in ToSet(w.pool[p].all) \ ToSet(world.pool[p].all) :
        \/ \E l \in Larges : a \in l .. l + LargeSize - 1
        \/ \E b \in world.live : /\ b.owner = p /\ d.status.births < b.birth
                                /\ a \in b.at .. b.at + b.len - 1

\* Mutant of Later: the walk back over the pages takes the one of the status, too.
LaterAndItself(d) ==
    SelectSeq(SubSeq(d.all, 1, Index(d.all, d.current)),
              LAMBDA a : Index(d.all, a) >= Index(d.all, d.status.current))

\* The pages that were current after the status, and those added after it.
Later(d) == SubSeq(d.all, Index(d.all, d.status.current) + 1, Index(d.all, d.current))
Pooled(w, s) == SelectSeq(s, LAMBDA a : w.page[a].pooled)
Added(w, s) == SelectSeq(s, LAMBDA a : ~w.page[a].pooled)

\* PASS 2: what is left of the pages: those of newPool are taken out, the next pages are
\* those there were at the time of the status.
Rewound(w, d) ==
    LET all == d.all
        now == SubSeq(all, 1, Index(all, d.status.current))
        next == Added(w, Later(d)) \o SubSeq(all, Index(all, d.current) + 1, Len(all))
    IN  [before |-> now, next |-> SubSeq(next, 1, Index(next, d.status.nextPage))]

\* PASS 2 and 3: the pages that the delayed functions needed come after the current one.
Disposed(w, p, d) ==
    LET kept == Rewound(w, d)
        new == w.pool[p].all
        active == Index(new, w.pool[p].current)
        r == IF d.status.current = None THEN w
             ELSE [w EXCEPT !.page[d.status.current].available = d.status.available]
    IN  IF new = <<>>
        THEN [r EXCEPT !.pool[p].current = d.status.current,
                       !.pool[p].all = kept.before \o kept.next]
        ELSE [r EXCEPT !.pool[p].all = kept.before \o SubSeq(new, 1, active) \o kept.next
                                          \o SubSeq(new, active + 1, Len(new))]

\* Free of a large block, with all that lies in it.
Freed(w, a) ==
    [w EXCEPT !.heap = @ \cup {a},
              !.live = {b \in @ : b.at \notin a .. a + LargeSize - 1}]

\* The pages go to newPool; what was allocated since the status is gone.
Readded(w, p, d) ==
    [w EXCEPT !.newPool = @ \o d.readd,
              !.page = [a \in Addresses |->
                           IF a \in ToSet(d.readd) THEN [@[a] EXCEPT !.available = w.page[a].size]
                           ELSE @[a]],
              !.live = {b \in @ : ~(b.owner = p /\ d.status.births < b.birth /\ b.birth <= d.upto)}]
------------------------------------------------------------------------------
Becoming(w) == world' = w /\ UNCHANGED <<statuses, doing, failed, buried>>

\* The requests of the user of a pool, which has no restore under way.
HasRoom == world.births + 2 <= MaxBlocks /\ (FreshPages(world) # {} \/ world.newPool # <<>>)
Quiet(p) == doing[p] = Idle
LargeThere(p, n) == TooLarge(world, p, n) => world.heap \cap Larges # {}

AllocStep(p) ==
    \E n \in Sizes : HasRoom /\ LargeThere(p, n) /\ Becoming(Alloc(world, p, n))

ReserveStep(p) ==
    HasRoom /\ LargeThere(p, Max(Sizes)) /\ Becoming(Reserve(world, p, Max(Sizes)))

DelayStep(p) ==
    \E what \in {"nothing", "allocates", "delays", "adds", "deallocates", "returns"} :
        HasRoom /\ Becoming(Delay(world, p, what))

\* Also of a block that is older than the last status.
ReturnStep(p) ==
    \E b \in world.live : \E n \in 1 .. b.len :
        /\ b.owner = p /\ b.kind = "data"
        /\ Becoming(ReturnUnused(world, p, b, n))

AddStep(p) ==
    \E a \in world.heap \cap Buffers :
        Becoming(AddMemory([world EXCEPT !.heap = @ \ {a}], p, a, PageSize))

TakeStatus(p) ==
    LET q == world.pool[p]
        s == IF q.current = None THEN [NoStatus EXCEPT !.births = world.births]
             ELSE [current |-> q.current, available |-> Available(world, p),
                   nextPage |-> Last(q.all), objects |-> LastOr(q.objects, 0),
                   memoryObjects |-> LastOr(q.memoryObjects, 0), births |-> world.births]
    IN  /\ Len(statuses[p]) < MaxStatuses
        /\ statuses' = [statuses EXCEPT ![p] = Append(@, s)]
        /\ UNCHANGED <<world, doing, failed, buried>>

\* restore() of a status, clear() of all.
Restore(p) ==
    \E k \in 0 .. Len(statuses[p]) :
        /\ k = 0 => world.pool[p].current # None
        /\ statuses' = [statuses EXCEPT ![p] = SubSeq(@, 1, k)]
        /\ doing' = [doing EXCEPT ![p] =
              [phase |-> "objects", clear |-> k = 0, status |-> IF k = 0 THEN NoStatus ELSE statuses[p][k],
               all |-> world.pool[p].all, current |-> world.pool[p].current,
               upto |-> world.births, readd |-> <<>>]]
        /\ world' = [world EXCEPT !.pool[p].all = <<>>, !.pool[p].current = None]
        /\ UNCHANGED <<failed, buried>>

\* PASS 1
RunObject(p) ==
    LET q == world.pool[p].objects
        b == Block(world, Last(q))
    IN  /\ doing[p].phase = "objects" /\ LastOr(q, 0) # doing[p].status.objects
        /\ b.does \in {"allocates", "delays"} => HasRoom /\ LargeThere(p, Max(Sizes))
        /\ world' \in Executions([world EXCEPT !.pool[p].objects = Front(q), !.live = @ \ {b}], p, b)
        /\ buried' = InReleased(world', p, doing[p])
        /\ UNCHANGED <<statuses, doing, failed>>

Dispose(p) ==
    /\ doing[p].phase = "objects" /\ LastOr(world.pool[p].objects, 0) = doing[p].status.objects
    /\ world' = Disposed(world, p, doing[p])
    /\ doing' = [doing EXCEPT ![p].phase = "memory",
                              ![p].readd = Pooled(world, Later(doing[p]))]
    /\ failed' = LET s == doing[p].status
                 IN  IF s.current # None /\ world.page[s.current].available > s.available
                     THEN failed \cup {"restore"} ELSE failed
    /\ UNCHANGED <<statuses, buried>>

RunMemoryObject(p) ==
    LET q == world.pool[p].memoryObjects
        b == Block(world, Last(q))
    IN  /\ doing[p].phase = "memory" /\ LastOr(q, 0) # doing[p].status.memoryObjects
        /\ Becoming(Freed([world EXCEPT !.pool[p].memoryObjects = Front(q), !.live = @ \ {b}], b.does))

Finish(p) ==
    /\ doing[p].phase = "memory"
    /\ LastOr(world.pool[p].memoryObjects, 0) = doing[p].status.memoryObjects
    /\ world' = Readded(world, p, doing[p])
    /\ doing' = [doing EXCEPT ![p] = Idle]
    /\ failed' = IF doing[p].clear /\ world.pool[p].current # None
                 THEN failed \cup {"clear"} ELSE failed
    /\ UNCHANGED <<statuses, buried>>

\* vacuum(), of any thread: the pages of newPool are freed.
Vacuum ==
    /\ world.newPool # <<>>
    /\ world' = [world EXCEPT !.newPool = <<>>, !.heap = @ \cup ToSet(world.newPool)]
    /\ UNCHANGED <<statuses, doing, failed, buried>>

PoolCall ==
    \/ \E p \in Pools :
          \/ Quiet(p) /\ (p \notin Full => world.pool[p].current = None) /\ AllocStep(p)
          \/ Quiet(p) /\ Restore(p)
          \/ Quiet(p) /\ p \in Full /\ (ReserveStep(p) \/ DelayStep(p) \/ ReturnStep(p)
                                           \/ AddStep(p) \/ TakeStatus(p))
          \/ ~Quiet(p) /\ (RunObject(p) \/ Dispose(p) \/ RunMemoryObject(p) \/ Finish(p))
    \/ Vacuum

\* Once a page lies in memory that is released, nothing more is said.
PoolNext == ~buried /\ PoolCall

PoolSpec == PoolInit /\ [][PoolNext]_poolVars
------------------------------------------------------------------------------
\* The pages a pool holds, in a restore the ones it had as well.
Held(p) ==
    ToSet(world.pool[p].all) \cup (IF Quiet(p) THEN {} ELSE
        IF doing[p].phase = "objects" THEN ToSet(doing[p].all) ELSE ToSet(doing[p].readd))

\* Who may use an address: a block, the header of a page, the free part of a page that can
\* be allocated from, malloc.  (From PASS 2 on the pool allocates nothing until it is done.)
BlocksAt(a) == {b \in world.live : a \in b.at .. b.at + b.len - 1}
HeadersAt(a) == {h \in UNION {Held(p) : p \in Pools} : a \in h .. h + Header - 1}
FreeAt(a) ==
    {h \in UNION {IF Quiet(p) \/ doing[p].phase = "objects" THEN ToSet(world.pool[p].all) ELSE {}
                    : p \in Pools} :
        a \in h + Header + world.page[h].size - world.page[h].available
                .. h + Header + world.page[h].size - 1}
HeapAt(a) ==
    {h \in world.heap \cup ToSet(world.newPool) :
        a \in h .. h + (IF h \in Larges THEN LargeSize ELSE PageSize) - 1}

\* What a user allocated and what its delayed functions are kept in is in no free page, no
\* other block and not back at malloc.
NothingOverlaps ==
    \A a \in Addresses :
        Cardinality(BlocksAt(a)) + Cardinality(HeadersAt(a)) + Cardinality(FreeAt(a))
            + Cardinality(HeapAt(a)) <= 1

\* Each page of malloc is somewhere.
NoPageIsLost ==
    \A a \in PoolPages \ world.heap :
        a \in ToSet(world.newPool) \cup UNION {Held(p) : p \in Pools}

\* Memory is used once: what was allocated, and what the delayed functions are kept in, is
\* neither allocated again nor freed nor given to another thread until it is put back to a
\* status before it and all its functions have run; and no page is forgotten when restore()
\* pops the next pages off their end, which "are never allocated from the global pool".
\* Assertions of restore() and clear() may fail on the way (failed, see the last two
\* definitions); where they are compiled out the pool goes on, and this holds all the same.
\* Excepted is one case (buried): a delayed function that makes a page, by a large request or
\* by returning a block, in memory that the very restore() that runs it releases afterwards.
MemoryIsUsedOnce == buried \/ (NothingOverlaps /\ NoPageIsLost)

\* What MemoryPool::clear() asserts: after it the pool has no page.  It does not hold:
\* a delayed function that allocates while clear() runs it leaves a page.
ClearLeavesNothing == "clear" \notin failed

\* What restore() asserts: of the page that was current at the status not more is free now.
\* It does not hold: memory from before the status may have been returned since.
NothingOlderReturned == "restore" \notin failed
===============================================================================
