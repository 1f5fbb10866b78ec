# Verification of the xMAS tools

This directory holds TLA+ models of the xMAS tools, the configurations that check them
with TLC, and proofs that TLAPS checks. The tools let a user draw a network-on-chip as a
network of xMAS components (the *designer*, `src/src/xmd`), keep it as a data model
(`src/src/xmv/datamodel`), and verify it (`src/src/xmv/vt`): is it well formed, is there a
combinatorial cycle of handshake signals, and which packets can travel over which channel?
Under both lies `bitpowder`, a library of the authors with the thread pool, the queues,
the texts, the parsers and the memory management on which the tools run.

All paths below are relative to the root of the repository, of which `src/src` holds the
program.

## 1. The system and its parts

| Part | State it keeps | Operations | Talks to | What makes it correct |
|---|---|---|---|---|
| Semaphore (`bitpowder/semaphore.h`) | count, waiting, a mutex and a condition variable | `signal`, `wait` | `parallel()` waits on one | it is a counting semaphore: no lost wake-up although `signal` notifies only if it must and after it released the mutex |
| Global dispatcher (`dispatch.{h,cpp}`, `lock.h`, `thread.*`) | a queue of operations per priority, counts of waiting and existing threads | `dispatchQueue`, `ensure`, `start`, the loop `doRun` | executes the operations of everyone | each operation runs; no thread sleeps next to work; the pool is counted |
| Dispatch queue (`DispatchQueueFor` in `dispatch.h`) | items, the number of runners, whether one is on its way, whether it is paused | `dispatchQueue`, `execute`, `pause`, `start` | is itself an operation of its target (the global dispatcher) | linked into the target at most once, never too many runners, no item stranded, order |
| `parallel()` (`dispatch.cpp`) | a Worker on the caller's stack: a dispatch queue, a reference count, a semaphore | one call | the three above | returns after the last item and when no thread touches the Worker |
| Remote dispatch (`RemoteDispatchQueueBase` in `dispatch.h`) | two ends with atomic pointers to each other, a flag and an operation of their own | `connect`, `disconnect`, `remoteDispatch`, `isConnected` | the queues of both ends | both ends agree, each is told of the end of a link once and last, nobody waits for ever |
| Intrusive containers (`deque.h`, `queue.h`, `stack.h`) | links inside of the elements | push, pop, splice, split, insert, erase, select | everything | each is a sequence, an element is in one place |
| Memory pools (`memorypool.*`, `memory.*`) | pages, delayed functions, the blocks handed out | `alloc`, `delay`, `returnUnused`, `status`, `restore` | the containers, the parsers | no memory is used twice, no page is lost |
| Reference counts and extensions (`shared_object.*`, `extension.h`, `zip.h`) | counts inside the objects | copy, assign; attach, remove | ports, components, packets | used as sets and records by the models |
| Strings (`simplestring.*`, `stringparse.*`) | none; a view on characters | take apart, convert, compare, `StringParse` | the parsers, file names, maps | what is taken apart is still the text; conversions invert each other; orders are orders |
| Parsers and JSON (`parser.*`, `parser_json.*`, `jsonprinter.*`) | one token of lookahead; the printer's states | the combinators; start, end and write | files | what is written is read as what it was |
| Networks and projects (`xmv/datamodel/xmas.*`, `xmasproject.*`) | components by name, two pointers per channel, the loaded networks by file name | insert, connect, disconnect, rename, remove; load, unload, clear | the designer, the JSON reader, the analyses | channels are paired; a composite never refers to a freed network |
| Symbolic packets (`symbolic*.{h,cpp}`) | fields: any, an enumeration or its complement, an interval | intersection, difference, containment, combination, negation | the parsers, the types, the export | exact as operations on sets of values |
| Symbolic types (`symbolic.cpp`) | a list of packets per channel, each with a flag *propagated* | the fixpoint `SymbolicTypes` | plugins and the command line | terminates, with exactly the values that can reach a channel |
| Packet expressions and functions (`parse.cpp`, `parsed-xmas-function.*`, `symbolic-packet-set.*`, `symbolic-function.*`) | sets of packets; parts of functions with conditions | and, or, not, comparisons; apply a function to a packet | the expression dialog, JSON import, the types | an expression stands for the packets it says, a function for each of its results |
| Message specs (`messagespec.*`) | formulas per source | compute, compare, negate | JSON import | accept exactly what a source may send, given the rest |
| Flattening (`flatten.*`, `flatten-gates.h`) | the copy under construction, with gates for the interfaces of composites | `flatten` | the command line | the primitives and channels that one finds by looking through the composites |
| Saving and opening (`export.*`, `parse.cpp`, `parseflatjsonfile.*`, `state.*`) | none | write, read | the designer, and each plugin, which gets the written text | what was saved is what is opened |
| Cycle checker (`xmv/vt/cycle.*`) | flags *checking* and *checked* in extensions of the ports | `CombinatorialCycleDetector` | the syntax checker, the command line | says that there is a cycle exactly if there is one |
| Reachability and exporters (`xmv/vt/reachability`) | explicit states, transitions per component | forward and backward search; NuSMV, mCRL2 | - (in no build file) | finds exactly what the transfers of xMAS reach; the export makes the same steps |
| Generators (`xmv/xmvmain/main.cpp`) | none | mesh, spidergon | the command line | the routing functions take each packet to its node |
| Rest of the command line | options | runs the analyses one after the other | all of the data model | sequential glue |
| Deadlock detection, constraints, feedback (`xmv/vt/deadlock.cpp`, `constraints.*`, `feedback-interface.*`) | - | - | - | `deadlock.cpp` prints its input only; `constraints.cpp` is in no build file |
| Designer canvas (`xmd/xmd/model`, `xmd/xmd/xobjects`, `mainWindow.qml`) | components, ports and channels as drawn, a wire being drawn | drop, rename, delete, wire, cancel, new, load and unload composites | finds its counterparts in the root network by name, each time anew | what is drawn is what is in the network |
| Designer shell (`datacontrol.*`, `plugincontrol.*`, `uicontrols`, `interfaces`, `plugins`) | the project, the list of plugins, worker threads | start a plugin, show its results | the syntax checker | not modelled |

How they interact: the user edits the canvas (a single GUI thread); each edit calls the
model classes of the designer, which look up the root network of the project by name.
Plugins get the text that saving would write (`plugincontrol.cpp:48`), in a thread or a
process of their own, read it and run the analyses: the validity of the ports, the cycle
checker, and the symbolic types. The command line loads a file, or generates a network,
flattens it and runs the same analyses. The analyses are sequential, with `parallel()` and
dispatch queues as their (partly disabled, `#ifdef CONCURRENCY`) means to use several
threads.

Where it is hard:

* concurrency: the first five parts of the table;
* order: flattening welds the channels at a composite's gates one by one, by the numbers
  of ports; the fixpoint of the types visits components in the order of their addresses
  and keeps *propagated* flags in packets that are copied, combined and erased meanwhile;
  the cycle checker shares its flags among searches; switches and functions subtract
  packets one after the other; the transitions of the reachability are computed component
  by component; a memory pool runs its delayed functions while it takes its own pages
  apart;
* failure: items and operations that throw, loads of networks that fail half way, visitors
  that throw in the middle of a search, texts that end in the middle;
* long sequences of legal calls: of edits in the designer, with a wire pending and
  references by name; of moves of elements between containers; of edits, saves and reads
  of one network.

`PROJECT.json` lists under `hazards` each of these at its line, with the properties that
would show it going wrong.

## 2. The modules

Each module states what it models in its head; `PROJECT.json` maps each definition to the
lines it translates.

```
CountingSemaphore <=implements= Semaphore ----+     GlobalDispatcher
        |                                     |           |  (its EveryOperationRuns is the
        | INSTANCE                            |           v   fairness of the queue's target)
     Parallel  == EXTENDS ==>  DispatchQueue  |     MCDispatchQueue == EXTENDS ==> DispatchQueue
        |                                     |
        +-------------------------------------+== MCParallel
        |
        +--implements=> AbstractParallel            RemoteLink

ElementLists <=implements= IntrusiveContainers ---+
                                     MemoryPool ---+== MCMemory

SymbolicPackets <== PacketFlow ----+== SymbolicTypes
   SymbolicPackets <== SwitchSplit +
   SwitchSplit, PacketExpressions, PacketFunctions -+
   PacketFlow <== MessageSpecs ---------------------+== MCPackets
                  SavedNetworks --------------------+

Transfers, Transitions <== Reachability <== NusmvExport -+
                        SignalNetworks, CycleChecker ----+== MCReachability

Flatten, Generators, JsonText, Strings == MCFlatten      Projects <== Designer

Proofs, each of which extends the module it is about:
   SemaphoreProofs, GlobalDispatcherProofs, DispatchQueueProofs (of Parallel, too),
   RemoteLinkProofs, SymbolicPacketsProofs, CycleCheckerProofs, DesignerProofs,
   IntrusiveContainersProofs
```

### Threads

**Semaphore.** Variables are the two fields and where each thread is: asleep in `c.wait`,
released from it (`woken`), or in `signal` after the unlock (`notifying`). Actions:
`Signal`, `NotifyOne`, `Acquire`, `Sleep`, `WakeAcquire`, `WakeSleep`, and
`SpuriousWakeup`, which the C++ standard allows. It implements `CountingSemaphore`, in
which blocked threads take permits in one step. (`SemaphoreInit`, `SemaphoreNext` and
`SemaphoreSpec` are named so that one instance, `MCParallel`, can extend it and `Parallel`.)

**GlobalDispatcher.** `DispatchQueue` appends a batch and chooses between `notify_all` and
so many `notify_one` under the lock; `NotifyOne` and `NotifyAll` follow outside. `Take`,
`Sleep`, `Complete` are the loop of `doRun`; `Ensure` and `Start` create threads, which
count themselves, or were counted, on entry.

**DispatchQueue.** `Submit`, `Begin`, `Resume`, `Start`, `Pause` are what a thread does in
one critical section of the spin lock; `DispatchSelf` and `Pop` are the calls to and from
the target; `FinishItem` ends an item, by return or by an exception. `submitted` and
`finished` are history variables. A queue that may have one runner only gives it all its
items at once; `MCDispatchQueue` has both kinds, by a second instance of the module in which
`MaximumExecuting` is 1.

**Parallel** extends it to `parallel()`: the Worker's counting (`Count`, `CountRunner`,
`ReleaseItem`, `ReleaseRunner`), its semaphore and the caller that waits and then destroys
the Worker. The semaphore is the abstract one, which `Semaphore` is proved to refine, with
the two things that matter for its destruction put back: `signal()` is in two steps,
`SignalCaller` under the mutex and `Notify` after it, and a caller asleep may wake without the
notification (`WakeSpuriously`).

**RemoteLink.** Any number of ends, of which those in `Mates` may be connected at first; a
call is a thread's program counter and what it has read so far, and every exchange of an
atomic pointer is a step, as are the spins of `connect` and `disconnect` on an end that
another thread has taken. The queue of each end is a sequence in which the end itself may
stand, as the message that the link has ended. History variables note when two connects
have crossed and when an end was connected before it was told of a disconnect
(*rejoined*).

### Memory and texts

**IntrusiveContainers** has the links (`next`, `prev`) of the elements and the ends of
deques, queues and stacks as variables, and one action per operation, iterators' `insert`
and `erase` included. It implements **ElementLists**, in which a container is a sequence
and an operation what its name says. A Deque that `split()` empties keeps its tail, and
`pop_back()` (`PopBack`) and an iteration (`EraseIfEmptied`) look at the tail: `astray`
notes when one of them did so, and after that nothing more happens, for then an element is
in a container that does not know of it.

**MemoryPool.** A pool is a list of pages with what is available of each, delayed
functions in that memory, and blocks handed out; `restore()` is its three passes (run the
delayed functions, take pages off, give them back), a step each. A delayed function may do
what the pool's user does: allocate a little or much, delay another one, add memory, return
or deallocate the newest block (`Executions`). `failed` has the assertions that failed, and
`buried` notes that a delayed function made a page in memory which the very `restore()` that
runs it releases afterwards; nothing more happens then. Pages that are not in use are shared
by all threads.

**Strings.** A text is a sequence of character codes. `Span`, `SplitOn`, `Split` and their
counterparts from the end return a piece, what is left, and the delimiter between them;
the actions are calls of `StringParse` on what is left of a text, with `front` and `back`
as the history of what was taken. Conversions and comparisons are operators that are
compared with what they should undo or order.

### Packets

**SymbolicPackets** translates the operations on fields and packets; the meaning of a
packet is the set of assignments of values that it stands for, and the properties compare
results with meanings. **SwitchSplit** is the loop over a switching function, one packet
at a time in any order. **PacketFlow** holds the operations on lists of packets (add, find
what is superfluous or combines, forward through each kind of component) and the
reference: what each component makes of single values (`Produced`), and the least flow
that is closed under it. What a function makes of packets is a parameter (`Applied`, with
`Throws` for its exceptions), any operation on packets, and so is what it is to make of
values (`MadeOf`); the instance has a function with a condition, a computed field and a
dropped one, as `parsed-xmas-function.cpp` does them. **SymbolicTypes** is the fixpoint on
top of both, in steps as small as the code's: `Look`, `EraseOne` and `CombineOne` with the
ends of their loops (`simplify()`), `Forward` of the next packet of an input, the loops of
a switch (the actions of `SwitchSplit`), `Attach` of one packet, and the ends of the loops
over inputs, components and rounds. The constant `Reachable` is the least flow of the
instance; `MCSymbolicTypes` computes it from the sources on. C++ copies a packet with
*propagated* = false when a vector is reallocated; whether a vector is reallocated depends
on the library, so both happen. The history variable `precise` says whether all operations
on packets so far were exact on their values: no two complements that differ were
combined, no switch compared values of two kinds, no function made more of a packet than
of its values.

**PacketExpressions** is the parser's evaluation of expressions: an expression under
construction grows by one operator per action, together with what it says (`says`,
history), and the packet set is compared with it. Numbers have a sign inside of an
interval (`[-1..2]`) and nowhere else, for elsewhere the lexer takes it for an operator
(`Unsigned`). **PacketFunctions** applies parsed functions. A function is a sequence of
parts. One action per condition (`MeetCondition`) divides the packets between the part and
its `else`; then each field is assigned, its expression node by node on a stack
(`FieldAccess`, `Addition`, `Minus`, `Substitution` and so on), and `ClauseDone` makes the
packets of all combinations and goes on to the `else`. The code runs the `else` first and
looks at the conditions in order; they share nothing but the packets that come back. As a
history the model keeps, for each value, which part is its and what is said of it
(`waiting`, `mine`, `outcomes`). **MessageSpecs** computes the formula of a source by
following its packets through the network, and compares specifications.

**SavedNetworks.** A drawing is edited (`MaxEdits`), written to a file as `export.cpp`
does, possibly by a file of another hand (`References`), and opened as `parse.cpp` does
it, components first, then channels, then packets and functions, with the exceptions that
may leave it half way. Then it is compared with what was drawn.

### Networks

**SignalNetworks** defines the signals of a network, their dependencies as the checker
sees them (`CheckerView`) and the equations of xMAS they stand for. **CycleChecker** is
the depth-first search as a machine with an explicit stack of calls: `VisitComponent`,
`Descend`, `Leave`, `Report` (a cycle), `Throw` (the visitor met a composite), `Finish`;
`Begin` starts a check of any network, also after an earlier one.

**Flatten** begins with the data of hierarchical networks: components in the order of their
names, the ports of composites as their constructor makes them, and the numbers of ports.
Then it is `flattenInto()` with its calls on an explicit stack: `CopyPrimitive`,
`CopyGate` and `EnterComposite` (step 1), `ConnectPort` (step 2, which may throw),
`WeldInGate`, `WeldOutGate` and `DropComposite` (step 3, which may follow a null pointer),
and `Return`. Both pointers of a channel are variables, as in `Projects`.
At its end it says what the result should be by walking the hierarchy (`Follow`), with none
of the machinery of the code, and for which reasons it may have failed. One of them is a
composite with ends of its own, for which the tests expect no failure: that is a property
of its own (`OwnEndsStayInside`), which the hierarchies of these tests violate.

**Generators** builds meshes and spidergons node by node and channel by channel and then
sends packets through the routing functions it has generated. **JsonText** is the printer,
call by call, and the parser with its combinators, on texts of tokens. A value is written
as the printer writes it (`Tokens`): strings with their characters escaped, booleans,
fractions; and the tokens are those that the lexer finds in that text, or that it finds
none.

**Transfers** are the transfers of xMAS: what moves when a network with contents in its
queues takes a step. **Transitions** is what the code computes, component by component;
**Reachability** searches with them, in either direction. A loop over a hash table that
grows gets to some of the new entries and not to others: `Growing` leaves that open for
each clone, and for clones of clones. **NusmvExport** is the meaning
of the text that `nusmv.cpp` prints.

**Projects** has the functions of a network and a project; **Designer** the handlers of
the canvas, which call them. Loading a file is a stack of calls of `loadNetwork`, one per
composite met; an exception leaves all of them. `setName` keeps the typed name and gives
the network the trimmed one; `misnamed` are the components that got a name with blanks.

### What is checked

The ten runs that pass; each configuration has the name of its module, an MC module where
the instance needs definitions. A run with several *parts* has behaviours of each that do
not touch the variables of the others.

| Run | Instance | Properties | Shows |
|---|---|---|---|
| `global_dispatcher` | pool of up to three threads, one caller, three operations in batches of up to two, two priorities and one out of range | `PoolKeepsUp`, `EveryOperationRuns` | wake-ups cover the work, the pool is counted, each operation is executed |
| `dispatch_queue` | three pool threads, two clients, four items, two pauses; two runners with an item at a time, or one that takes all there are | `RunnersBounded`, `NoItemStranded`, `InOrder`, `BatchesInOrder`, `EveryItemRuns` | bounded runners, nothing stranded, order, each item runs; a batch finishes in order, and an item that throws leaves the rest of it to be executed |
| `parallel` | three items, two runners, three pool threads; when the call has returned, four threads at a semaphore of their own, count at most 3 | `RefcountExact`, `NobodyLeftBehind`, `ImplementsParallel`, `NoLostWakeup`, `IsCountingSemaphore` | exact reference count, nobody left behind but for one notification of a caller that did not wait for it; implements "all items, then return"; no thread sleeps next to a permit without a wake-up under way; `Semaphore` implements a counting semaphore with its liveness |
| `remote_link` | two ends, new or connected, two threads with two calls each | `LinkIsSound`, `GoodbyeComesLast`, `DisconnectedIsTold`, `EveryCallReturns` | ends agree when nobody is at work on them; the good-bye comes after the last operation and does come; no call spins for ever, unless two connects crossed or an end was rejoined |
| `memory` | parts *containers* (three elements, two of each container), *pools* (one with all operations, one that competes for the pages) | `MemoryIsUsedOnce`, `LinksWellFormed`, `IsLists` | containers are sequences and share no element, up to the use of a stale tail; no memory is used twice, no page is lost, up to a page in memory that is released right after |
| `packets` | parts *switch*, *expression*, *function*, *specification*, *saved* | `SwitchIsExact`, `AlgebraExact`, `ExpressionMeansWhatItSays`, `FunctionCovers`, `SpecsAreExact`, `SavedIsOpened` | a switch loses and doubles nothing; the algebra is exact; expressions, functions and specifications mean what they say; what is saved is opened, as far as the file can say it |
| `symbolic_types` | a loop through merge, queue, switch and function, and a join; a function with a condition, a source with a complement; any order of components, any reallocation | `TypesAreExact`, `Terminates` | the types are the values that can reach the channels, termination |
| `reachability` | parts *reach* (five networks with all kinds of components, several orders of the components and states to look for, both directions, depth and breadth first, each clone visited again or not), *check* (all wirings of five channels between four components, in two families, two networks with a composite; repeated checks) | `ForwardIsExact`, `ReverseIsExactOfMirror`, `StepsAreTransfers`, `NusmvAgrees`, `VerdictIsExact`, `CheckedIsHarmless` | the search finds what the transfers reach and nothing else; the exported model makes the same steps; the verdict of the cycle checker is exact without composites, no flag outlives a check |
| `designer` | a queue, a composite and a sink; names with blanks; five files, one malformed, one missing, one that uses a third, two that use each other | `ChannelsPaired`, `CanvasMirrorsNetwork`, `CompositesRefer` | the canvas mirrors the network, channels are paired, pending wires and composites refer to what exists |
| `flatten` | parts *flatten* (a source, a sink and two composites of seven kinds, all wirings, complete or with one channel missing; closed and external ends), *generate* (meshes of 1 to 4 a side, spidergons asked for with 1, 2, 3, 5 and 8 nodes), *json* (texts of up to 7 tokens written and up to 4 typed), *texts* (about 430 texts, seven of them taken apart from both ends) | `FlattenKeepsMeaning`, `GeneratedRoutes`, `WrittenIsRead`, `TextsAreKept` | the result is the hierarchy looked through, nothing is half welded, a failure has a reason; packets arrive; what the printer writes is read as what it was, as far as the lexer has tokens for it; texts survive being taken apart, converted and compared |

Two runs show that the code does not do what it says it does (`findings` in
`PROJECT.json`); each checks one property that quotes an assertion or a test.

| Run | Instance | Property | Shows |
|---|---|---|---|
| `pop_back` | two deques, three elements | `PopBackTakesTheLast` | `assert(e->*nextPtr == nullptr)` at `deque.h:187` fails after a split at the last element |
| `flatten_tests` | the networks of two tests | `OwnEndsStayInside` | flattening the credit counter of `flatten.test.cpp:183` and `:217` throws |

### Why the bounds are enough

* *Semaphore*: the interesting case needs one sleeper, one overtaking caller and a second
  permit; four threads give each role twice. The proofs have no bound.
* *Dispatcher*: `notify_all` needs at least one waiting thread and more operations than
  waiting threads; the batch of two and the pool of three give both branches of the
  choice, in both orders. One priority of the three (0, 1, and 2, out of range) is
  clamped.
* *Dispatch queue*: two runners and three threads make room for a runner that leaves, one
  that executes and one on its way; two clients may both find the queue idle; two pauses
  allow a restart between them. With one runner a batch is up to four items. Safety is
  proved without a bound, for any number of runners.
* *Remote link*: an exchange involves two ends; two threads can be on the same end, on
  both in the same and in opposite order.
* *Containers*: three elements have a first, an inner and a last one; two containers of
  each kind can splice into one another. `Elements` is symmetric, and the `VIEW` leaves
  out the name of the last operation.
* *Pools*: pages of four units, one of them the header; data of three units, which fill a
  page, and delayed functions of one, which leave a remainder: data are a large request
  unless a page is reserved or added for them. One block of large memory, one buffer that is
  added; four blocks and one status at a time. The `VIEW` leaves out what stood in pages nobody has.
* *Texts*: all texts of three characters over a letter, the blank, `%`, `+`, `1`, `/` and
  `.`, which have every position of a delimiter (first, last, doubled, absent); numbers of
  8 bits, all of them, in bases 10, 16 and 64, with every precision that leaves room for
  the sign; names of two characters in both cases and with digits, and some of three for
  numbers of different lengths. `Bits` is 8 for the type `T` of the code's templates.
* *Packets*: a field's values beyond those named behave alike; one value `other` stands
  for them, and intervals in 0..3 (`MaxValue`) have all relative positions (apart,
  touching, overlapping, nested) of two intervals. Expressions have up to five operators
  (`MaxOperations`) over `type` and `dst`, so that a negation can stand over a conjunction
  of two comparisons, numbers 0, 1 and 2, and -1 in intervals. Functions have up to three
  parts and expressions of up to two operators, on bounds at and next to the limits of the
  width (-4..3). The proofs have no bound.
* *Saving*: two drawings, a source, a switch, a function, a join and a sink, and a source,
  a queue, a fork, a composite, a merge and a sink, have each kind of component that
  writes or reads something of its own; two edits (`MaxEdits`) can leave a gap, free an
  output and take it again. `Words` are the values `a` and `b`, and `ab`, which is what an
  enumeration of both is written as. `Truncated` are the scales in hundredths that the
  conversion through a float makes one less.
* *Types*: the network has each kind of component with a rule of its own (fork, source and
  sink are cases of those), a loop, and a join whose inputs become known in different
  rounds. Its function has a condition, adds one to a field and drops another one, and one
  of its sources emits a complement. Safety is proved without a bound.
* *Cycle checker*: with five channels there are cycles through one, two, three and four
  components, and pairs that share a signal. The proofs have no bound.
* *Reachability*: each network is small enough that all states are enumerated by the
  reference as well; between them they have a merge behind a switch, a join behind a fork,
  a loop, and queues of size one and two; `Fan`, a merge in front of a switch, is the one
  whose loops make several clones. A loop visits up to `Clones` = 3 of them again. The
  networks have fewer than 14 transitions on a channel: with more, the hash table is
  rehashed while it is iterated over, and the iterators are invalid.
* *Flatten*: two composites can be wired in a row, in parallel, in a loop, to themselves
  and across; a composite that is only a channel makes gates adjacent to gates; one with
  two crossed channels tells the gates apart, and one in which the two sides differ tells
  whether their order is kept; the nested one has three levels.
* *Generators*: a mesh of 4 has inner nodes, edges and corners; a spidergon of 8 has nodes
  at each quarter of the ring, the others are those whose quarters are empty or single.
  Sizes 3 and 5 are rounded up to powers of two by the code.
* *JSON*: seven tokens are an object in an array in an object; the beginnings are texts
  that the printer does not write. Among the values are strings with a character to be
  escaped, `true` and a number with a fraction.
* *Designer*: two components that can be connected and a third to reconnect to, the
  composite with a loop to itself; a used, a using, a broken and a missing file, and two
  that use each other. Names typed are one that is also generated, one that is not, and
  that one with a blank. Each object is dropped once, which bounds the names.

`CHECK_DEADLOCK FALSE` is stated where the system may stop: no caller has to call, and a
computation that is done is done.

### Fairness

`Semaphore`, `GlobalDispatcher`, `DispatchQueue`, `Parallel`: a thread that is inside a
function is scheduled until it leaves it (weak fairness of the steps of each thread; every
step that waits for a mutex is one critical section, and the mutex is free between steps).
Nothing is assumed of calls that have not been made, of pauses or of spurious wake-ups.
`DispatchQueue` further assumes that its target executes what it is given, which is
`GlobalDispatcher!EveryOperationRuns`, and that items terminate. `RemoteLink` has strong
fairness for the exchanges in its spin loops: a thread that tries again and again, while
the other lets go of the end again and again, gets it at some time; an end that is held
for good is still waited for in vain. The fixpoint of the types is a sequential program:
it takes steps until it is done. The other analyses are checked for safety only.
`Designer` needs no fairness: a user need not do anything.

## 3. What is proved

TLAPS checks the following for all values of the constants that satisfy the named
assumptions. The proofs and the runs use the same modules, and each inductive invariant was
checked by TLC on small instances before it was proved.

* `SemaphoreProofs` (`SemaphoreAssumption`: finitely many threads): `TypeCorrect`,
  `NeverLosesWakeup`, `Refinement`. The invariant is `TypeOK /\ WaitingCounts /\
  WakeupsCoverPermits`. The first says what `waiting` counts; the second that either all
  permits or all waiters have a wake-up under way. `NoLostWakeup` alone is not inductive: a
  thread released from `c.wait` may lose its permit to a caller that overtakes, and what
  matters then is how many wake-ups remain.
* `GlobalDispatcherProofs` (`DispatcherAssumption`: finite sets of threads and operations,
  at least one priority): `PoolInvariance`, `PoolAlwaysKeepsUp`, `NoWakeupIsLost`. The
  invariant `PoolInv` adds to `PoolKeepsUp` that an operation is queued once, without which
  the number of queued operations and what a `Take` removes could not be related. The
  argument is one about three numbers, the wake-ups under way, the operations in the queues
  and the waiting threads: `dispatchQueue()` adds to the first what it adds to the second,
  or decides to wake everybody; a thread that takes an operation uses up one of each, and
  one that finds nothing joins the waiting ones, when there is nothing to cover.
* `DispatchQueueProofs` (`DispatchQueueAssumption`: finite sets of threads and items):
  `TypeCorrect`, `LinkedOnce`, `NothingStranded`, `NeverTooManyRunners`, `KeepsOrder`. The
  invariant of the first three is `TypeOK`, the count of runners (`executing` is the number
  of threads inside), `OneRunnerOnItsWay` and `NoItemStranded`. The bound on the runners
  needs `RoomIsKept` in addition: until the first pause, whoever sets `dispatched` has seen
  room, and nobody takes that room while the runner is on its way. The order needs
  `OrderInv`: what was submitted is what was handed over followed by what is queued, and
  what was handed over is divided (`Divided`) among the finished items and the hands of the
  runners, each item once.
* `Parallel`, in `DispatchQueueProofs` as well: `WorkerInvariance`, `CountIsExact`,
  `ReturnsLast`, `ParallelRefinement`. They have the hypothesis `OneCaller`: one thread
  calls, it does not pause the queue, and the items are distinct, as `parallel()` does
  (`parallel.h`); `MCParallel` assumes it too, so that TLC evaluates it. The Worker uses
  the queue only by the queue's own steps (`WorkerUsesQueue`), so that the invariant of the
  queue is used and not proved again. On top of it `WorkerInv` says who is where
  (`WorkerTypes`), that nothing moves before the items were counted (`NotStarted`), that no
  runner overtakes the caller's first link (`CallerFirst`), and that there is one signal,
  after the count came down to zero for good (`OneSignal`). With an exact count, zero
  means that no item is open and no runner is there or on its way (`NothingIsCounted`):
  hence nobody counted uses the Worker after it is destroyed, and each step is one of
  `AbstractParallel`. Who is left is the runner that released the mutex of the semaphore
  and has not notified yet: the caller, if it woke spuriously, does not wait for it
  (`wokenEarly` in `NobodyLeftBehind`), and `ReturnsLast` says that this is the only case.
* `RemoteLinkProofs` (`EndsAssumption`: ends are addresses other than null): for any
  number of ends, of threads and of calls, and any ends connected at first,
  `LinkInvariance`, `LinksAreSound`, `GoodbyeIsLast`. A pointer is null while a thread
  holds the end, and then the state does not say what it is linked to: `LinkInv` therefore
  says that *there is* a matching `L` of the ends which agrees with all pointers that are
  not null and with what each thread that holds an end remembers (`Matched`). That needs
  `Locking` (an end is held by one thread), `Crossing` (threads that connect have ends of
  their own, but for two that connect a pair from both sides) and `ByeOnce` (the
  disconnect operation of an end is with the thread that queues it, in the queue, or with
  the one that takes it out, and in one place only). `Parted` says that an end that is yet
  to be told of a disconnect is not linked and is not being linked, so that no operation
  comes behind the good-bye; it holds as long as no end was rejoined.
* `SymbolicPacketsProofs` (`PacketsAssumption`; for a switch alone `SwitchAssumption`; for
  networks `FlowAssumption`, the ports of each kind of component, and that functions make
  packets of packets; for expressions `ExpressionsAssumption`: names are not numbers; for
  functions `FunctionsAssumption`, below): `SplitInvariance`, `SwitchAlwaysExact`,
  `AlgebraAlwaysExact`, `TypesInvariance`, `TypesAreLeast`, `TypesAlwaysExact`,
  `ExpressionsInvariance`, `ExpressionsAlwaysExact`, `FunctionsInvariance`,
  `FunctionsAlwaysCover`. First the fields: intersection, difference, containment,
  combination and negation against the sets of values they mean (`IntersectionOfFields`,
  `DifferenceOfFields` and so on); then packets, field by field; then the loops of a
  switch, with the invariant that output b holds the values accepted by none of the
  packets seen. A switch that compares a name with numbers, or something with `any`, drops
  the values (section 5): that nothing is lost is proved for values of one kind
  (`OfOneKind`), that nothing goes the wrong way for all. The negation of an interval is
  taken within `0 .. MaxValue - 1`, as `negate()` does.

  The fixpoint is proved for any network, with loops or without, any order of its
  components, any functions and any reallocation: when the rounds are over, the types are
  a closed flow, and no closed flow is smaller (`TypesAreLeast`); hence they are
  `Reachable`, if that is the least flow (`TypesAlwaysExact`). `TypesAreExact` speaks of
  the end only. `TypesInvariant` has one part for each half of it, and what these need:
  `SoundInv`, that no type, no packet about to be attached and no packet inside a switch
  stands for a value that a closed flow does not have; `CompleteInv`, that what the
  components make of the *propagated* packets, and of the one inside a switch, is in a
  type or about to be attached. Both are about meanings, so that it does not matter which
  packets stand for them. Erasing and combining keep the meaning of a type, and may shrink
  what of it counts as propagated, never the other way round (`Refines`); attaching moves
  a packet from one place to another; forwarding adds what `Produced` adds
  (`ForwardedMeans`, `SplitProduces`). `QuietInv` carries the end of the rounds: as long
  as nothing happened in a round, the inputs visited have nothing to propagate, for steps
  at one input leave the other inputs that were visited alone; so after a round without
  events all is propagated, and `CompleteInv` says that the types are closed
  (`QuietIsClosed`).

  All this holds as long as each operation on packets is exact (`precise`), of which the
  theorem speaks instead of assuming something of networks: combining two complements that
  differ is wrong, a switch that compares values of two kinds loses some (section 5), and a
  function makes more of a packet than of its values when two fields that it assigns depend
  on the same one, for the types of the fields are kept apart. Each of the three is noted
  when it happens, and every other network, with complements or without, has exact types.
  `FunctionsMakePackets` is the typing of the parameter `Applied`.

  Expressions are proved for any names, numbers and enumerations, and any length.
  `ExpressionMeansWhatItSays` needs in addition that the operands are packets of fields
  that the parser can have made (`ExprInvariant`), for the lemmas about fields are about
  those. There is one `Keeps` lemma for each action, and one `Means` lemma for what it does
  with packet sets: a conjunction meets where both do (`AndMeans`, which uses
  `IntersectionOfFields`), a negation of one field in one piece is its complement
  (`NegationMeans`), a comparison narrows an interval from one side. What the parser does
  not mean as it says (a negated conjunction, a comparison before what it compares,
  section 5) has `plain = FALSE`, and nothing is claimed of it.

  Functions are proved for any number of parts and expressions of any length
  (`FunctionsAssumption`: conditions and packets are packets of fields, bounds and numbers
  fit the width, substitutions give letters). Recursion over expressions is out of
  the prover's reach, hence the stack: what is on it covers what is said (`Covers`), for
  each packet and each value that the packet stands for, and every node keeps that
  (`ReturnKeeps`, with `AdditionMeans`, `DifferenceMeans` and `SubstitutionMeans` for what
  the fields become). `FunctionCovers` speaks of the end only; while a function runs
  `FuncInv` says that the values whose part is under way are in its packets or meet a
  condition that is still to be looked at, that the others are in what is left over, and
  that what is assigned already has what is said. An overflow, the substitution of a
  complement and a condition on another kind of value make `exact` false, and nothing is
  claimed then.
* `CycleCheckerProofs` (`NetworksAssumption`: signals depend on signals and are at ports):
  `TypeCorrect`, `CheckedHarmless`, `VerdictExact`. A set of signals is circular if each
  of them needs another of the set. `CheckedInv` says that the dependencies of what is
  checked are checked; hence no circular set meets it. For exactness `VerdictInv` adds
  that the stack is a path, that *checking* holds exactly on it, and that components that
  are done have their signals checked; a signal met again on the path gives a circular
  set.

* `DesignerProofs` (`PortsAssumption`: the ports of the objects are told apart;
  `NamesAssumption`: names are generated without blanks at their ends, and trimming leaves
  none): `CanvasInvariance`, `ChannelsStayPaired`, `CanvasStaysMirror`,
  `RegistryInvariance`, `CompositesAlwaysRefer`. They hold of `Spec` without further
  hypotheses, for names with blanks and for files that refer to each other in any way.
  None of the three properties is inductive. That the canvas mirrors the network needs
  that the map of the network and the names on the canvas are inverse to each other
  (`Named`), for components are removed by name; that wires are drawn where channels are
  and nowhere else (`Drawn`); and that the ports of a wire being drawn are free
  (`WireIsFree`), for it is connected without another look. `CanvasInv` has these
  together. A component that got a name with blanks (`misnamed`) is lost to the canvas,
  may stay in the network, and takes the channels at its ports with it; the invariant
  speaks of the others, and so shows that the damage does not spread. References by
  composites need the stack of the loads under way (`Stacked`: no file is in it twice, all
  are dummies, each is used by the one below), and that no network refers to one that is
  still loading or gone (`References`), but for the dummy of a network that uses the
  composite's own in turn (`UsesInTurn`): files that refer to each other in a circle do
  leave a composite with a reference to a dummy that was freed (section 5), and nothing
  else does.
* `IntrusiveContainersProofs` (`ContainersAssumption`: finitely many elements, the null
  pointer is none of them, a container is of one kind): `ContainersInvariance`,
  `ContainersAreLists`, `LinksStayWellFormed`: for any elements and containers every
  operation does to the links what `ElementLists` does to sequences, and leaves the links
  well formed, unless it uses the tail of a Deque that `split()` emptied (`astray`). A Deque
  that is empty may have such a tail, and the theorems cover all that happens next to it.
  The invariant is `Sound`: each container *represents* the sequence that
  following its links meets, and no element is in two of them. `LinksWellFormed` alone is
  not inductive: a chain may be well formed and share its elements with another one.

  An operation writes three or four pointers, whatever the length of the container.
  The argument follows that: a sequence in memory consists of `Pieces`, within which
  all links are right. The operation puts together pieces it does not change inside, so
  that only the places where they meet (`Fits`) are to be looked at; containers that
  share no element with those are not touched. There is one lemma for each operation of
  each kind of container, and one `Done` step for each action. Two facts would call for
  induction: that the chain followed through the links is the sequence represented, and
  what the loop of `erase_if` leaves. Both are proved by looking at the least index
  where they could fail (`LeastOf`).

Only model-checked are:

* everything that must happen in the end (`EveryOperationRuns`, `EveryItemRuns`,
  `DisconnectedIsTold`, `EveryCallReturns`, `Terminates`, and the fairness in
  `IsCountingSemaphore` and `ImplementsParallel`): liveness under fairness is beyond the
  prover, as is ENABLED;
* what is defined by recursion or folds over data, where induction over data would be
  needed: specifications, saved files, transitions, the meaning of a flattened network,
  generated networks, JSON and texts (`MessageSpecs`, `SavedNetworks`, `Reachability`,
  `NusmvExport`, `Flatten`, `Generators`, `JsonText`, `Strings`);
* the memory pools, which are open (section 6).

## 4. What is abstracted, and what is not modelled

Text, layout, logging, timing and colours are left out. Memory is abstract outside of
`MemoryPool`: a freed object is one that is in no registry any more. Mutexes and spin
locks are not variables: a critical section is one step. Exceptions are modelled where
they are caught. `bool` results are modelled where someone acts on them.

Not modelled:

* `constraints.*` (text for Z3) is in no build file and half commented out; `deadlock.cpp`
  prints its input. There is nothing to check them against.
* `mcrl2.cpp` prints text that is no mCRL2: the index of the initial state is never
  incremented, and a condition stands outside of the sum it is about.
* `serialize_network.cpp` and `DispatchLimiter` are called by nothing; `ExportOldC` writes
  for a program that is not in the repository.
* `TypeWorker` is behind `#ifdef CONCURRENCY`, which no build file defines.
* The designer's shell: what plugins run is modelled (the analyses, and the text they are
  given), not their threads, nor how their results are shown. Of the designer's components
  the expressions and capacities are not in `Designer`, for they are strings handed
  through.
* Reference counts, extensions, the zip iterators, type hashes and the debug variants of
  the memory pools.
* Who owns the characters of a text, how texts are concatenated into buffers, and the hash
  that differs from one execution to the next.
* The lexers of expressions and of JSON, character by character (the models start from
  tokens); what they do to some names is in section 5.
* Functions of joins in the *types*.

## 5. Where the code and its words differ

This was met while the models were written. Where a property holds only without one of
these, the comment of the property names the exception, and the model has the case
nevertheless, with a variable or an operator that says when it occurs; where an assertion, a
comment or a test says that it does not occur, a run shows that it does (`pop_back`,
`flatten_tests`), or an invariant that no run checks states it: TLC violates it in the
instance of the run of its part (`ClearLeavesNothing`, `NothingOlderReturned`,
`SameNameAsInNetwork`). Where the case is outside of what is modelled, this section says so.

### Threads

* `parallel()` of an empty list never returns, for no runner is ever made
  (`bitpowder/dispatch.cpp:290`; the instance has items). `signal()` notifies after it
  released the mutex; if the waiter wakes up spuriously in between it may destroy the
  semaphore first (`semaphore.h:51`): excepted by `NobodyLeftBehind`.
* `start()` of a paused dispatch queue does not ask whether there is room for a runner, so
  that the assertion of `execute()` may fail (`dispatch.h:400`, `295`; nobody calls it in
  the tools).
* Two threads that connect the same two ends from both sides wait for each other for ever
  (`dispatch.h:656`): `connect()` takes its own end first in either of the two cases it
  distinguishes. An end that is connected before it was told of a disconnect takes that
  message for one of the new link, and an assertion fails (`dispatch.h:646`). The
  destructor of an end disconnects and is gone while its message may still be in a queue
  (`dispatch.h:619`; not modelled). `EveryCallReturns` and `GoodbyeComesLast` except the
  first two (`crossed`, `rejoined`).
* Each start of the syntax checker's thread connects a further worker to the same signal
  (`syntaxcheckerplugin.cpp:80`): the n-th start checks n times (not modelled).
* `TypeWorker` would take the candidates of a type and merge them without the lock
  (`symbolic.cpp:261`; not compiled, not modelled).

### Containers and memory

* `Deque::split` at the last element empties the Deque but for its tail. `pop_back()`
  looks at the tail only (`deque.h:177`), and takes an element that is in the other Deque by
  then; the assertion at its end fails if that is not the last one (run `pop_back`).
  `LinksWellFormed` and `IsLists` except this operation (`astray`), and an `erase_if` on
  such a Deque, which never ends.
* The move assignment of a `Stack` drops the elements it has and leaves those of the
  source in both (`MoveTo` moves to empty Stacks only). Erasing through an iterator of a
  queue or a stack, and `clear`, leave links in the elements although `push` asserts that
  there are none. `Queue::splice` with itself empties it (`Several` splices two).
* The copy assignment of a `shared_object` from a field of the object that it releases
  reads freed memory (not modelled).
* Memory returned to a pool from before a status makes the assertion of `restore()` fail
  (`memorypool.cpp:119`; `NothingOlderReturned`), and a delayed function that allocates makes
  the one of `clear()` fail (`memorypool.cpp:262`; `ClearLeavesNothing`); no memory is used
  twice by that. It is, if a delayed function makes a
  page of its pool in memory that is released after it, by a large request or by returning
  a block: `MemoryIsUsedOnce` excepts that (`buried`). Pages that `restore()` keeps have the
  `available` they had when they were used up. `Allocator::deallocate` counts elements where
  the pool counts bytes (elements are bytes in the model).

### Texts

* `StringParse::first` with two paths of which the first fails and the second succeeds
  takes what the failed one left, without an error (`stringparse.h:433`): the texts "a" or
  "b" searched in "xb" consumes nothing (`PieceIsRight` says so, and excepts it). A parser
  in error still parses numbers (`stringparse.h:275`), and changes the caller's variable.
* `compareUsingVersion` has the tables of an old glibc: with numbers that begin with a
  zero it is no order (`simplestring.cpp:653`; 012 < 0112 < 011a < 012), which
  `TextsAreKept` excepts (`Numbered`). It also reads the first character of an empty
  right-hand side (`:672`), and `StringNameCompare` is its "less or equal" (`:706`), while
  containers need "less" (both outside of the model).
* `lessIgnoreCaseAlfa` takes two texts for equal that begin at the same address, whatever
  their lengths (`simplestring.h:1662`; texts have no address in the model).
* `toNumber` in a base over ten takes all letters as digits; a number with as many digits
  asked for as the buffer has places, and a sign, is written in front of the buffer
  (`simplestring.h:1152`; the instance asks for fewer).

### Packets

* The combination of two complements of enumerations forgets that it is one
  (`symbolic-enum-field.cpp:141`): excepted by `TypesAreExact` (`precise`). The negation of
  a packet with several fields is not its complement (`symbolic.cpp:546`), nor is the one of
  a set of packets: excepted by `AlgebraExact` and `ExpressionMeansWhatItSays` (`plain`).
  `any` minus anything is nothing, and fields of different kinds have no difference:
  excepted by `SwitchIsExact` (`OfOneKind`) and `TypesAreExact` (`precise`).
* Keywords of the expression lexer are prefixes of names: `index` is `in` and `dex`,
  `order` is `or` and `der`. A second comparison of the same field overwrites the first;
  `k == 1 && k` is nothing (`ExpressionMeansWhatItSays` excepts both, `plain`); two that
  contradict each other read behind the end of a vector (`parse.cpp:240`). The lexer is not
  modelled.
* A constant division by zero in a function is executed (not modelled). The lower bound of a
  difference of intervals wraps around, and substitution ignores the complement flag:
  excepted by `FunctionCovers` (`exact`). The values of several fields are combined across
  packets, so that a function may give more than it should: `FunctionCovers` asks that
  nothing is left out, `TypesAreExact` excepts functions that give more (`precise`).
* Message specs: `ext != nullptr || ext->function` follows the null pointer
  (`messagespec.cpp:79`; so does the visitor of a function in `symbolic.cpp:41`); a
  specification read from text never equals a computed one with the same meaning; a join
  passes its packets on unchanged ("FIXME: adjusted packets"; the instance has no join);
  equality does not regroup; the name of an unknown component gives no endpoint.

### Networks

* The cycle checker reports a cycle in an acyclic network with a composite, for the flags
  that an exception left behind (`cycle.cpp:132`): excepted by `VerdictIsExact`. The
  comments on the port flags (`cycle.cpp:87`) name irdy and trdy the wrong way round.
* A composite that contains a source or a sink of its own cannot be flattened, although
  the tests flatten one (`flatten.test.cpp:183` and `:217`): its constructor makes ports
  for every source and sink, the flattened composite for external ones only
  (`flatten.cpp:242`; run `flatten_tests`). `FailsForAReason` has it as a reason. External
  sources and sinks of the root, which the designer makes by default, become gates that
  `flatten()` forgets (`flatten.cpp:131`). A hierarchy with an unconnected composite input
  is a null reference before the tool can report it (`flatten.cpp:264`; a reason, too).
  The ports of a composite keep a pointer to the characters of a temporary string as their
  name (`xmas.cpp:680`).
* A load that fails leaves its dummy in the project (`xmasproject.cpp:162`). Networks
  whose composites refer to each other in a circle keep a reference to a freed dummy
  (`xmasproject.cpp:177`): excepted by `CompositesRefer` (`UsesInTurn`). The canvas size
  is written through the extension that `getNetworkExtension(false)` may not have
  (`xmasproject.cpp:201`).
* A component that is renamed to a name with a leading or trailing blank loses its
  counterpart, for the network has the trimmed name (`component.cpp:70`, against the
  comment at `:40`; `SameNameAsInNetwork`): excepted by `CanvasMirrorsNetwork`
  (`misnamed`), for that component and its channels only.
* Reachability: the search backward answers for the mirrored state; clones of a transition
  are visited while the list is iterated over (`reachable.cpp:280`), after which the
  search backward may say yes wrongly (`ReverseIsExactOfMirror` excepts it, `revisits`); a
  fork whose branches meet again in a join doubles a queue in `out_queues`. The NuSMV text
  loses the packet pushed by a transition that takes from and gives to one queue, sees
  only the first packet of a type, and prints functions without their argument: excepted
  by `NusmvAgrees` (`Exportable`).
* A mesh of one node is left unconnected.

### Files

* JSON: commas too many and entries that are not finished are accepted (`{a:1,b:[2}` is
  `{a:1}`; `parser.h:422`). Of two fields with the same name, or names that differ only in
  case, the first is kept. The printer escapes characters of strings, the parser does not
  undo that, and a string with a quote ends at it; the printer writes `true`, `false` and
  fractions, for which the lexer has no token, so that the text is not read at all.
  `startString()` writes no comma in an array, an empty string leaves the flag for the next
  comma as it was (`jsonprinter.cpp:78`). `WrittenIsRead` excepts these by name: `Escaped`,
  `unread`, `flawed`, and `Shortened` for the texts that are no JSON and read nevertheless.
  `startObject()` does not check the state; the runs call it where a value is due.
* A source that has lost its channel but keeps its packets is saved; opening that file
  throws a `std::exception` that nobody catches, for `datacontrol.cpp:58` catches another
  class (`parse.cpp:1413`). An output that is connected to an input it does not initiate
  is written with an input number that does not exist, and the file is refused.
* Lost without a word (`export.cpp:102`): the gap left by an unconnected output, so that
  the ones behind it move up; the separators of enumerations (`{a, b}` is read as `ab`);
  complements; conditional functions; message specs; the variables and composite objects
  of the file. `any` becomes a field named `true`. Negative bounds cannot be read. A
  component's scale loses a hundredth with each save for some values (108, 107, 106, 105,
  104): `0.01f * 100.0f` is truncated. `SavedIsOpened` says of each what is left.

## 6. Plan

Done: all modules above. What would be next:

1. Proofs: `MemoryPool!MemoryIsUsedOnce`; that the search of `Reachability` is exact,
   given the transitions.
2. `SyntaxChecker`: the plugin, its worker thread and the results, against edits of the
   project meanwhile.
3. `TypeWorker`, the parallel variant of the types, on top of `DispatchQueue`, if it is
   ever compiled.
4. `Opening`: a file opened as the root, parsed, flattened, checked and typed, in the
   order in which the command line does it, on top of `Projects` and `Flatten`.
