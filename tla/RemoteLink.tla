------------------------------ MODULE RemoteLink ------------------------------
(***************************************************************************)
(* RemoteDispatchQueueBase of dispatch.h: two ends of a link, each with a   *)
(* dispatch queue of its own, point to each other.  The pointer is the lock *)
(* as well: who exchanges it for null holds the end until he puts a pointer *)
(* back.  Threads connect, disconnect and send operations; the queue of an  *)
(* end executes what it was sent, and the end itself (an operation) to tell *)
(* it that the other one disconnected.                                      *)
(***************************************************************************)
EXTENDS Integers, Sequences, FiniteSets, SequencesExt

CONSTANTS Clients,      \* threads that call
          Ends,         \* ends: their addresses, numbers
          Mates,        \* sets {a, b}: a.connect(b) and b.connect(a) are well typed
          Calls         \* bound: calls of a client

VARIABLES other,        \* end -> Null, Empty, Disconnected or an end
          dispatched,   \* end -> is the end in its queue, as far as it knows
          queue,        \* end -> what is queued: operations and ends
          at,           \* thread -> where it is
          self,         \* thread -> the end it works on (this)
          o,            \* thread -> the local variable
          calls,        \* client -> calls it may still make
          rejoined,     \* history: was an end connected before it was told?
          crossed       \* history: was a pair connected from both sides at a time?

vars == <<other, dispatched, queue, at, self, o, calls, rejoined, crossed>>

ASSUME EndsAssumption == /\ Ends \subseteq Nat \ {0} /\ Ends # {} /\ Calls \in Nat
                         /\ Clients \cap Ends = {}
                         /\ \A m \in Mates : \E a, b \in Ends : a # b /\ m = {a, b}

Null == 0
Empty == -1
Disconnected == -2

\* The operations in a queue: sent over a link, or the end itself.
Op == "operation"
Bye == "disconnect operation"

Threads == Clients \cup Ends       \* a queue executes one operation at a time

ClientLabels == {"idle", "send", "dispatch", "put back",
                 "connect", "connect peer", "set own", "set peer",
                 "disconnect", "order", "wait", "try", "let go", "check", "tell", "release",
                 "flag", "dispatch bye"}
EndLabels == {"idle", "undispatch", "execute", "empty", "next", "told", "put back"}

TypeOK ==
    /\ other \in [Ends -> Ends \cup {Null, Empty, Disconnected}]
    /\ dispatched \in [Ends -> BOOLEAN]
    /\ queue \in [Ends -> Seq({Op, Bye})]
    /\ at \in [Threads -> ClientLabels \cup EndLabels]
    /\ \A t \in Clients : at[t] \in ClientLabels
    /\ \A e \in Ends : at[e] \in EndLabels /\ self[e] = e
    /\ self \in [Threads -> Ends]
    /\ o \in [Threads -> Ends \cup {Null, Empty, Disconnected}]
    /\ calls \in [Clients -> 0 .. Calls]
    /\ rejoined \in BOOLEAN /\ crossed \in BOOLEAN

\* New ends, or two of them connected already.
Init ==
    /\ \/ other = [e \in Ends |-> Empty]
       \/ \E a, b \in Ends : /\ a # b /\ {a, b} \in Mates
                             /\ other = [e \in Ends |-> IF e = a THEN b
                                                        ELSE IF e = b THEN a ELSE Empty]
    /\ dispatched = [e \in Ends |-> FALSE]
    /\ queue = [e \in Ends |-> <<>>]
    /\ at = [t \in Threads |-> "idle"]
    /\ self = [t \in Threads |-> IF t \in Ends THEN t ELSE CHOOSE e \in Ends : TRUE]
    /\ o = [t \in Threads |-> Null]
    /\ calls = [t \in Clients |-> Calls]
    /\ rejoined = FALSE
    /\ crossed = FALSE
------------------------------------------------------------------------------
Held(e) == other[e] = Null

GoTo(t, label) == at' = [at EXCEPT ![t] = label]

\* The exchange that ends a spin: the pointer is replaced by null.
Take(t, e) == ~ Held(e) /\ other' = [other EXCEPT ![e] = Null]

\* Has the element e->next been set?  It is as long as something stands behind it.
Followed(e) == \E i \in 1 .. Len(queue[e]) - 1 : queue[e][i] = Bye

\* checkAssert throws: whatever the thread has taken stays null.
Fail(t) ==
    /\ GoTo(t, "idle")
    /\ UNCHANGED <<dispatched, queue, self, o, calls, rejoined, crossed>>

\* Is the disconnect operation of e still to be queued or to be executed?
Pending(e) ==
    \/ \E t \in Clients : o[t] = e /\ at[t] \in {"release", "flag", "dispatch bye"}
    \/ Contains(queue[e], Bye)
    \/ at[e] \in {"undispatch", "execute", "empty", "next", "told"}

\* A client calls a method of end e.  connect() asks that neither end is
\* connected and that nobody else connects it; two threads may connect the same
\* pair from its two sides.
Connecting == {t \in Clients : at[t] \in {"connect", "connect peer", "set own", "set peer"}}

MayConnect(a, b) ==
    /\ a # b /\ {a, b} \in Mates
    /\ other[a] \in {Empty, Disconnected} /\ other[b] = Empty
    /\ \A u \in Connecting : {self[u], o[u]} \cap {a, b} # {} => self[u] = b /\ o[u] = a

CallMethod(t, e, method) ==
    /\ at[t] = "idle" /\ calls[t] > 0
    /\ calls' = [calls EXCEPT ![t] = @ - 1]
    /\ self' = [self EXCEPT ![t] = e]
    /\ GoTo(t, method)
    /\ UNCHANGED <<other, dispatched, queue, o, rejoined, crossed>>

CallConnect(t, a, b) ==
    /\ at[t] = "idle" /\ calls[t] > 0 /\ MayConnect(a, b)
    /\ calls' = [calls EXCEPT ![t] = @ - 1]
    /\ self' = [self EXCEPT ![t] = a]
    /\ o' = [o EXCEPT ![t] = b]           \* newOther
    /\ crossed' = (crossed \/ \E u \in Connecting : self[u] = b /\ o[u] = a)
    /\ GoTo(t, "connect")
    /\ UNCHANGED <<other, dispatched, queue, rejoined>>

Call(t) == \/ \E e \in Ends, method \in {"send", "disconnect"} : CallMethod(t, e, method)
           \/ \E a, b \in Ends : CallConnect(t, a, b)
------------------------------------------------------------------------------
(* remoteDispatch() and isConnected(). *)

\* Mutant of SendTake: looks at the pointer and does not take it.
SendPeek(t) ==
    /\ at[t] = "send" /\ ~ Held(self[t])
    /\ o' = [o EXCEPT ![t] = other[self[t]]]
    /\ GoTo(t, IF other[self[t]] \in Ends THEN "dispatch" ELSE "put back")
    /\ UNCHANGED <<other, dispatched, queue, self, calls, rejoined, crossed>>

\* An end that is not connected refuses; isConnected() does the same.
SendTake(t) ==
    /\ at[t] = "send" /\ Take(t, self[t])
    /\ o' = [o EXCEPT ![t] = other[self[t]]]
    /\ GoTo(t, IF other[self[t]] \in Ends THEN "dispatch" ELSE "put back")
    /\ UNCHANGED <<dispatched, queue, self, calls, rejoined, crossed>>

\* o->queue.dispatch(op), while the own end is held: o cannot go away.
Send(t) ==
    /\ at[t] = "dispatch"
    /\ queue' = [queue EXCEPT ![o[t]] = Append(@, Op)]
    /\ GoTo(t, "put back")
    /\ UNCHANGED <<other, dispatched, self, o, calls, rejoined, crossed>>

PutBack(t) ==
    /\ at[t] = "put back"
    /\ other' = [other EXCEPT ![self[t]] = o[t]]
    /\ GoTo(t, "idle")
    /\ UNCHANGED <<dispatched, queue, self, o, calls, rejoined, crossed>>
------------------------------------------------------------------------------
(* connect(): both branches of the code take the own end first. *)

ConnectTake(t) ==
    /\ at[t] = "connect" /\ Take(t, self[t])
    /\ rejoined' = (rejoined \/ Pending(self[t]) \/ Pending(o[t]))
    /\ GoTo(t, IF other[self[t]] \in Ends THEN "idle" ELSE "connect peer")
    /\ UNCHANGED <<dispatched, queue, self, o, calls, crossed>>

ConnectTakePeer(t) ==
    /\ at[t] = "connect peer" /\ Take(t, o[t])
    /\ GoTo(t, IF other[o[t]] # Empty THEN "idle" ELSE "set own")
    /\ UNCHANGED <<dispatched, queue, self, o, calls, rejoined, crossed>>

ConnectOwn(t) ==
    /\ at[t] = "set own"
    /\ other' = [other EXCEPT ![self[t]] = o[t]]
    /\ GoTo(t, "set peer")
    /\ UNCHANGED <<dispatched, queue, self, o, calls, rejoined, crossed>>

ConnectPeer(t) ==
    /\ at[t] = "set peer"
    /\ other' = [other EXCEPT ![o[t]] = self[t]]
    /\ GoTo(t, "idle")
    /\ UNCHANGED <<dispatched, queue, self, o, calls, rejoined, crossed>>
------------------------------------------------------------------------------
(* disconnect(): the end with the lower address waits for the other one, the   *)
(* one with the higher address tries, lets go and starts anew.                 *)

DisconnectTake(t) ==
    /\ at[t] = "disconnect" /\ Take(t, self[t])
    /\ o' = [o EXCEPT ![t] = other[self[t]]]
    /\ GoTo(t, IF other[self[t]] \in Ends THEN "order" ELSE "put back")
    /\ UNCHANGED <<dispatched, queue, self, calls, rejoined, crossed>>

\* checkAssert(next == nullptr), and the choice by the addresses.
DisconnectOrder(t) ==
    /\ at[t] = "order"
    /\ \/ Followed(self[t]) /\ Fail(t)
       \/ /\ GoTo(t, IF o[t] > self[t] THEN "wait" ELSE "try")
          /\ UNCHANGED <<dispatched, queue, self, o, calls, rejoined, crossed>>
    /\ UNCHANGED other

DisconnectWait(t) ==
    /\ at[t] = "wait" /\ Take(t, o[t])
    /\ GoTo(t, "check")
    /\ UNCHANGED <<dispatched, queue, self, o, calls, rejoined, crossed>>

\* Mutant of DisconnectTry: waits for the other end whatever its address.
DisconnectTryHard(t) ==
    /\ at[t] = "try" /\ Take(t, o[t])
    /\ GoTo(t, "check")
    /\ UNCHANGED <<dispatched, queue, self, o, calls, rejoined, crossed>>

DisconnectTry(t) ==
    /\ at[t] = "try"
    /\ \/ Held(o[t]) /\ GoTo(t, "let go") /\ UNCHANGED other
       \/ Take(t, o[t]) /\ GoTo(t, "check")
    /\ UNCHANGED <<dispatched, queue, self, o, calls, rejoined, crossed>>

DisconnectLetGo(t) ==
    /\ at[t] = "let go"
    /\ other' = [other EXCEPT ![self[t]] = o[t]]
    /\ GoTo(t, "disconnect")
    /\ UNCHANGED <<dispatched, queue, self, o, calls, rejoined, crossed>>

\* checkAssert(o->next == nullptr)
DisconnectCheck(t) ==
    /\ at[t] = "check"
    /\ \/ Followed(o[t]) /\ Fail(t)
       \/ /\ GoTo(t, "tell")
          /\ UNCHANGED <<dispatched, queue, self, o, calls, rejoined, crossed>>
    /\ UNCHANGED other

DisconnectTell(t) ==
    /\ at[t] = "tell"
    /\ other' = [other EXCEPT ![o[t]] = Disconnected]
    /\ GoTo(t, "release")
    /\ UNCHANGED <<dispatched, queue, self, o, calls, rejoined, crossed>>

DisconnectRelease(t) ==
    /\ at[t] = "release"
    /\ other' = [other EXCEPT ![self[t]] = Empty]
    /\ GoTo(t, "flag")
    /\ UNCHANGED <<dispatched, queue, self, o, calls, rejoined, crossed>>

\* Mutant of NeedsDispatch: o->dispatched is set and not asked.
NeedsDispatchAlways(e) == TRUE

\* !o->dispatched.exchange(true)
NeedsDispatch(e) == ~ dispatched[e]

DisconnectFlag(t) ==
    /\ at[t] = "flag"
    /\ dispatched' = [dispatched EXCEPT ![o[t]] = TRUE]
    /\ GoTo(t, IF NeedsDispatch(o[t]) THEN "dispatch bye" ELSE "idle")
    /\ UNCHANGED <<other, queue, self, o, calls, rejoined, crossed>>

DisconnectDispatch(t) ==
    /\ at[t] = "dispatch bye"
    /\ queue' = [queue EXCEPT ![o[t]] = Append(@, Bye)]
    /\ GoTo(t, "idle")
    /\ UNCHANGED <<other, dispatched, self, o, calls, rejoined, crossed>>
------------------------------------------------------------------------------
(* The queue of end e executes an operation, and the end: execute(). *)

Run(e) ==
    /\ at[e] = "idle" /\ queue[e] # <<>>
    /\ queue' = [queue EXCEPT ![e] = Tail(@)]
    /\ GoTo(e, IF Head(queue[e]) = Bye THEN "undispatch" ELSE "idle")
    /\ UNCHANGED <<other, dispatched, self, o, calls, rejoined, crossed>>

\* Mutant of ExecuteUndispatch: the flag stays set.
ExecuteForgets(e) ==
    /\ at[e] = "undispatch"
    /\ GoTo(e, "execute")
    /\ UNCHANGED <<other, dispatched, queue, self, o, calls, rejoined, crossed>>

ExecuteUndispatch(e) ==
    /\ at[e] = "undispatch"
    /\ dispatched' = [dispatched EXCEPT ![e] = FALSE]
    /\ GoTo(e, "execute")
    /\ UNCHANGED <<other, queue, self, o, calls, rejoined, crossed>>

ExecuteTake(e) ==
    /\ at[e] = "execute" /\ Take(e, e)
    /\ o' = [o EXCEPT ![e] = other[e]]
    /\ GoTo(e, IF other[e] = Disconnected THEN "empty" ELSE "put back")
    /\ UNCHANGED <<dispatched, queue, self, calls, rejoined, crossed>>

ExecuteEmpty(e) ==
    /\ at[e] = "empty"
    /\ other' = [other EXCEPT ![e] = Empty]
    /\ GoTo(e, "next")
    /\ UNCHANGED <<dispatched, queue, self, o, calls, rejoined, crossed>>

\* checkAssert(next == nullptr) and disconnected(); aborted() does nothing.
ExecuteNext(e) ==
    /\ at[e] = "next"
    /\ GoTo(e, IF Followed(e) THEN "idle" ELSE "told")
    /\ UNCHANGED <<other, dispatched, queue, self, o, calls, rejoined, crossed>>

ExecuteDisconnected(e) ==
    /\ at[e] = "told"
    /\ GoTo(e, "idle")
    /\ UNCHANGED <<other, dispatched, queue, self, o, calls, rejoined, crossed>>
------------------------------------------------------------------------------
Acts(t) ==
    \/ SendTake(t) \/ Send(t) \/ PutBack(t)
    \/ ConnectTake(t) \/ ConnectTakePeer(t) \/ ConnectOwn(t) \/ ConnectPeer(t)
    \/ DisconnectTake(t) \/ DisconnectOrder(t) \/ DisconnectWait(t) \/ DisconnectTry(t)
    \/ DisconnectLetGo(t) \/ DisconnectCheck(t) \/ DisconnectTell(t) \/ DisconnectRelease(t)
    \/ DisconnectFlag(t) \/ DisconnectDispatch(t)

Executes(e) ==
    Run(e) \/ ExecuteUndispatch(e) \/ ExecuteTake(e) \/ ExecuteEmpty(e) \/ ExecuteNext(e)
    \/ ExecuteDisconnected(e) \/ PutBack(e)

Next == \/ \E t \in Clients : Call(t) \/ Acts(t)
        \/ \E e \in Ends : Executes(e)

\* The scheduler runs every thread that can run, and a thread that spins on a
\* pointer does not miss it for ever.
Fairness == /\ \A t \in Clients : SF_vars(Acts(t))
            /\ \A e \in Ends : SF_vars(Executes(e))

SafeSpec == Init /\ [][Next]_vars
Spec == SafeSpec /\ Fairness
------------------------------------------------------------------------------
\* Two ends agree: an end that points to another one is pointed at by it, unless
\* somebody holds that one; no third end comes in between, whoever connects,
\* disconnects and sends at the same time.  And an end is linked at most once into
\* its queue, although its queue, which takes it out, and the ends that say good-bye,
\* one after the other, share no lock.
LinkIsSound ==
    /\ \A a, b \in Ends : other[a] = b => other[b] \in {a, Null}
    /\ \A e \in Ends :
          Cardinality({i \in DOMAIN queue[e] : queue[e][i] = Bye})
            + Cardinality({t \in Clients : at[t] = "dispatch bye" /\ o[t] = e}) <= 1

\* When an end is told that it was disconnected it has executed all that it was
\* sent; unless an end was connected anew before it was told.
GoodbyeComesLast == \A e \in Ends :
    at[e] = "told" /\ ~ rejoined => ~ Contains(queue[e], Op)

\* An end that was disconnected by the other one learns of it.
DisconnectedIsTold == \A e \in Ends : other[e] = Disconnected ~> other[e] # Disconnected

\* Every call returns: the two sides of a link may disconnect and send at the
\* same time and do not wait for each other for ever.  Not so if a pair is
\* connected from both sides at a time (each holds its own end), nor if an end is
\* connected before it was told, for then an assertion may fail and leave an end held.
EveryCallReturns ==
    \A t \in Threads : at[t] # "idle" ~> (at[t] = "idle" \/ crossed \/ rejoined)
==============================================================================
