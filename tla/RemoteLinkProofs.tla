--------------------------- MODULE RemoteLinkProofs ---------------------------
(***************************************************************************)
(* Proofs about RemoteLink, for any number of ends, of threads and of      *)
(* calls, and whoever may be connected to whom.                            *)
(***************************************************************************)
EXTENDS RemoteLink, FiniteSetTheorems, TLAPS

\* Who holds an end: the thread that has put null into its pointer and has not
\* put anything back.  A thread holds its own end, the other one, or both.
HoldsOwn == {"dispatch", "put back", "connect peer", "set own", "order", "wait", "try",
             "let go", "check", "tell", "release", "empty"}
HoldsPeer == {"set own", "set peer", "check", "tell"}

Holds(t, e) == \/ at[t] \in HoldsOwn /\ self[t] = e
               \/ at[t] \in HoldsPeer /\ o[t] = e

Joining == {"connect", "connect peer", "set own", "set peer"}
Leaving == {"order", "wait", "try", "let go", "check", "tell", "release", "flag",
            "dispatch bye"}

\* No end is linked to itself: what the local variables of a thread hold, where it
\* looks at them.
LocalsOK ==
    /\ \A e \in Ends : other[e] # e
    /\ \A t \in Threads :
         /\ at[t] \in Joining \cup Leaving \cup {"dispatch"} => o[t] \in Ends \ {self[t]}
         /\ at[t] = "put back" => o[t] \notin {Null, self[t]}

\* The pointer is a lock: null as long as somebody holds the end, and held by one.
Locking ==
    \A t \in Threads, e \in Ends :
        Holds(t, e) => other[e] = Null /\ \A u \in Threads : Holds(u, e) => u = t

\* Threads that connect have ends of their own, but for the two that connect a
\* pair from its two sides.
Crossing == \A t, u \in Clients :
    /\ t # u /\ at[t] \in Joining /\ at[u] \in Joining
    /\ {self[t], o[t]} \cap {self[u], o[u]} # {}
    => self[u] = o[t] /\ o[u] = self[t]

\* Client t is about to queue the disconnect operation of e.
Queues(t, e) == at[t] = "dispatch bye" /\ o[t] = e

\* A sequence of operations with at most one disconnect operation in it.
Once(s) == \A i, j \in DOMAIN s : s[i] = Bye /\ s[j] = Bye => i = j

\* The disconnect operation of an end is at one place at most: with the client
\* that queues it, in the queue, or with the queue that takes it out; and as long
\* as it is there the flag of the end says so.
ByeOnce == \A e \in Ends :
    /\ Once(queue[e])
    /\ Contains(queue[e], Bye) => dispatched[e]
    /\ \A t \in Clients : Queues(t, e) =>
          /\ dispatched[e] /\ ~ Contains(queue[e], Bye)
          /\ \A u \in Clients : Queues(u, e) => u = t
    /\ at[e] = "undispatch" =>
          /\ dispatched[e] /\ ~ Contains(queue[e], Bye)
          /\ \A t \in Clients : ~ Queues(t, e)
------------------------------------------------------------------------------
\* L[e] is the end that e is linked to, also while somebody holds e and its pointer
\* does not say so: the thread that holds it knows.  An end that a failed
\* assertion left behind keeps the link that it had.
KeepsLink == {"dispatch", "put back", "order", "wait", "try", "let go", "check", "tell"}
HasNoLink == {"connect peer", "set own", "release", "empty"}

Peer(x) == IF x \in Ends THEN x ELSE Null

Knows(t, L) ==
    /\ at[t] \in KeepsLink => L[self[t]] = Peer(o[t])
    /\ at[t] \in HasNoLink => L[self[t]] = Null
    /\ at[t] = "set own" => L[o[t]] = Null
    /\ at[t] = "set peer" => L[o[t]] = self[t]
    /\ at[t] \in Joining => L[self[t]] \in {Null, o[t]} /\ L[o[t]] \in {Null, self[t]}

Matched(L) ==
    /\ L \in [Ends -> Ends \cup {Null}]
    /\ \A e \in Ends : L[e] # Null => L[L[e]] = e
    /\ \A e \in Ends : other[e] # Null => L[e] = Peer(other[e])
    /\ \A t \in Threads : Knows(t, L)

\* No operation stands behind the disconnect operation.
OpsFirst(s) == \A i, j \in DOMAIN s : s[i] = Bye /\ i < j => s[j] # Op

Linking == {"connect peer", "set own", "set peer"}
Executing == {"undispatch", "execute", "empty", "next", "told"}

\* As long as good-bye is to be said to an end it is not linked, and nobody links
\* it; so nothing is sent to it.
Parted(L) == \A e \in Ends :
    /\ Pending(e) =>
         /\ L[e] = Null
         /\ \A t \in Clients : at[t] \in Linking => e # self[t] /\ e # o[t]
    /\ OpsFirst(queue[e])
    /\ at[e] \in Executing => ~ Contains(queue[e], Op)

\* The invariant that the steps keep.
LinkInv ==
    /\ TypeOK /\ LocalsOK /\ Locking /\ Crossing /\ ByeOnce
    /\ \E L : Matched(L) /\ (~ rejoined => Parted(L))
------------------------------------------------------------------------------
\* The marks are no addresses.
LEMMA Marks ==
    /\ Null # Empty /\ Null # Disconnected /\ Empty # Disconnected
    /\ \A e \in Ends : e # Null /\ e # Empty /\ e # Disconnected
BY EndsAssumption DEF Null, Empty, Disconnected

\* A queue that takes in an operation, and one that gives its first one away.
LEMMA QueueGrows ==
    ASSUME NEW s \in Seq({Op, Bye}), NEW x \in {Op, Bye}
    PROVE  /\ Append(s, x) \in Seq({Op, Bye})
           /\ \A y \in {Op, Bye} : Contains(Append(s, x), y) <=> Contains(s, y) \/ x = y
           /\ Once(s) /\ (x = Bye => ~ Contains(s, Bye)) => Once(Append(s, x))
           /\ OpsFirst(s) /\ (x = Op => ~ Contains(s, Bye)) => OpsFirst(Append(s, x))
<1> DEFINE a == Append(s, x)
<1>1. /\ a \in Seq({Op, Bye}) /\ Len(s) \in Nat /\ Len(a) = Len(s) + 1
      /\ DOMAIN s = 1 .. Len(s) /\ DOMAIN a = 1 .. Len(s) + 1
      /\ \A i \in 1 .. Len(s) : a[i] = s[i]
      /\ a[Len(s) + 1] = x
  OBVIOUS
<1> HIDE DEF a
<1>2. \A i \in DOMAIN a : i = Len(s) + 1 \/ i \in DOMAIN s
  BY <1>1
<1>3. \A y : Contains(s, y) <=> \E i \in DOMAIN s : s[i] = y
  BY <1>1 DEF Contains
<1>4. \A y : Contains(a, y) <=> \E i \in DOMAIN a : a[i] = y
  BY <1>1 DEF Contains
<1>5. \A y : Contains(a, y) <=> Contains(s, y) \/ x = y
  <2>1. ASSUME NEW y PROVE Contains(s, y) => Contains(a, y)
    BY <1>1, <1>3, <1>4
  <2>2. ASSUME NEW y PROVE Contains(a, y) => Contains(s, y) \/ x = y
    BY <1>1, <1>2, <1>3, <1>4
  <2>3. Contains(a, x)
    BY <1>1, <1>4
  <2>4. QED
    BY <2>1, <2>2, <2>3
<1>6. ASSUME Once(s), x = Bye => ~ Contains(s, Bye) PROVE Once(a)
  BY <1>1, <1>2, <1>3, <1>6 DEF Once
<1>7. ASSUME OpsFirst(s), x = Op => ~ Contains(s, Bye) PROVE OpsFirst(a)
  <2> SUFFICES ASSUME NEW i \in DOMAIN a, NEW j \in DOMAIN a, a[i] = Bye, i < j
               PROVE  a[j] # Op
    BY DEF OpsFirst
  <2>1. i \in DOMAIN s /\ s[i] = Bye
    BY <1>1, <1>2
  <2>2. CASE j \in DOMAIN s
    BY <1>1, <1>7, <2>1, <2>2 DEF OpsFirst
  <2>3. CASE j = Len(s) + 1
    BY <1>1, <1>3, <1>7, <2>1, <2>3
  <2>4. QED
    BY <1>2, <2>2, <2>3
<1>8. QED
  BY <1>1, <1>5, <1>6, <1>7 DEF a

LEMMA QueueShrinks ==
    ASSUME NEW s \in Seq({Op, Bye}), s # <<>>
    PROVE  /\ Tail(s) \in Seq({Op, Bye}) /\ Head(s) \in {Op, Bye}
           /\ \A y \in {Op, Bye} : Contains(s, y) <=> Contains(Tail(s), y) \/ Head(s) = y
           /\ Once(s) => Once(Tail(s)) /\ (Head(s) = Bye => ~ Contains(Tail(s), Bye))
           /\ OpsFirst(s) => OpsFirst(Tail(s)) /\ (Head(s) = Bye => ~ Contains(Tail(s), Op))
<1> DEFINE a == Tail(s)
<1>1. /\ a \in Seq({Op, Bye}) /\ Head(s) \in {Op, Bye} /\ Len(a) \in Nat /\ Len(s) = Len(a) + 1
      /\ DOMAIN a = 1 .. Len(a) /\ DOMAIN s = 1 .. Len(a) + 1
      /\ \A i \in 1 .. Len(a) : a[i] = s[i + 1]
      /\ Head(s) = s[1]
  OBVIOUS
<1> HIDE DEF a
<1>2. \A i \in DOMAIN a : i + 1 \in DOMAIN s /\ a[i] = s[i + 1] /\ i + 1 # 1 /\ 1 < i + 1
  BY <1>1
<1>3. \A i \in DOMAIN s : i = 1 \/ (i - 1 \in DOMAIN a /\ i = (i - 1) + 1)
  BY <1>1
<1>4. 1 \in DOMAIN s
  BY <1>1
<1>5. \A y : Contains(s, y) <=> \E i \in DOMAIN s : s[i] = y
  BY <1>1 DEF Contains
<1>6. \A y : Contains(a, y) <=> \E i \in DOMAIN a : a[i] = y
  BY <1>1 DEF Contains
<1>7. ASSUME NEW y PROVE Contains(s, y) <=> Contains(a, y) \/ Head(s) = y
  <2>1. Contains(a, y) => Contains(s, y)
    BY <1>2, <1>5, <1>6
  <2>2. Contains(s, y) => Contains(a, y) \/ Head(s) = y
    BY <1>1, <1>2, <1>3, <1>5, <1>6
  <2>3. QED
    BY <1>1, <1>4, <1>5, <2>1, <2>2
<1>8. ASSUME Once(s) PROVE Once(a) /\ (Head(s) = Bye => ~ Contains(a, Bye))
  <2>1. Once(a)
    BY <1>1, <1>2, <1>8 DEF Once
  <2>2. QED
    BY <1>1, <1>2, <1>4, <1>6, <1>8, <2>1 DEF Once
<1>9. ASSUME OpsFirst(s) PROVE OpsFirst(a) /\ (Head(s) = Bye => ~ Contains(a, Op))
  <2>1. OpsFirst(a)
    BY <1>1, <1>2, <1>9 DEF OpsFirst
  <2>2. QED
    BY <1>1, <1>2, <1>4, <1>6, <1>9, <2>1 DEF OpsFirst
<1>10. QED
  BY <1>1, <1>7, <1>8, <1>9 DEF a
------------------------------------------------------------------------------
\* What a step does to the types and to the local variables: most of it is where a
\* thread goes.
LEMMA LabelsKept ==
    ASSUME TypeOK, LocalsOK, NEW t \in Threads, NEW l,
           t \in Clients => l \in ClientLabels, t \in Ends => l \in EndLabels,
           GoTo(t, l)
    PROVE  /\ at' \in [Threads -> ClientLabels \cup EndLabels]
           /\ \A u \in Clients : at'[u] \in ClientLabels
           /\ \A e \in Ends : at'[e] \in EndLabels
<1>1. /\ at \in [Threads -> ClientLabels \cup EndLabels]
      /\ \A u \in Clients : at[u] \in ClientLabels
      /\ \A e \in Ends : at[e] \in EndLabels
  BY DEF TypeOK
<1>2. t \in Clients \/ t \in Ends
  BY DEF Threads
<1>3. at' = [at EXCEPT ![t] = l]
  BY DEF GoTo
<1>4. QED
  BY <1>1, <1>2, <1>3 DEF Threads

LEMMA LocalsKept ==
    ASSUME LocalsOK, TypeOK, NEW t \in Threads, NEW l, GoTo(t, l),
           \A u \in Threads \ {t} : self'[u] = self[u] /\ o'[u] = o[u],
           l \in Joining \cup Leaving \cup {"dispatch"} => o'[t] \in Ends \ {self'[t]},
           l = "put back" => o'[t] \notin {Null, self'[t]},
           \A e \in Ends : other'[e] # e
    PROVE  LocalsOK'
<1>1. /\ at \in [Threads -> ClientLabels \cup EndLabels]
      /\ at' = [at EXCEPT ![t] = l]
  BY DEF TypeOK, GoTo
<1>2. at'[t] = l /\ \A u \in Threads \ {t} : at'[u] = at[u]
  BY <1>1
<1> HIDE DEF Joining, Leaving
<1>3. QED
  BY <1>2 DEF LocalsOK

LEMMA PointersKept ==
    ASSUME TypeOK, LocalsOK, NEW f \in Ends,
           NEW x \in Ends \cup {Null, Empty, Disconnected}, x # f,
           other' = [other EXCEPT ![f] = x]
    PROVE  /\ other' \in [Ends -> Ends \cup {Null, Empty, Disconnected}]
           /\ \A e \in Ends : other'[e] # e
BY DEF TypeOK, LocalsOK

\* Every step keeps the types and what the local variables hold.
LEMMA TypesKept ==
    ASSUME TypeOK, LocalsOK, Next
    PROVE  TypeOK' /\ LocalsOK'
<1> USE EndsAssumption, Marks DEF Threads
<1>1. ASSUME NEW t \in Clients, Call(t) PROVE TypeOK' /\ LocalsOK'
  <2>1. ASSUME NEW e \in Ends, NEW method \in {"send", "disconnect"}, CallMethod(t, e, method)
        PROVE  TypeOK' /\ LocalsOK'
    <3>1. GoTo(t, method) /\ method \in ClientLabels
      BY <2>1 DEF CallMethod, ClientLabels
    <3>2. TypeOK'
      <4>1. /\ at' \in [Threads -> ClientLabels \cup EndLabels]
            /\ \A u \in Clients : at'[u] \in ClientLabels
            /\ \A f \in Ends : at'[f] \in EndLabels
        BY <3>1, LabelsKept
      <4>2. calls' \in [Clients -> 0 .. Calls]
        BY <2>1 DEF CallMethod, TypeOK
      <4>3. self' \in [Threads -> Ends] /\ \A f \in Ends : self'[f] = f
        BY <2>1 DEF CallMethod, TypeOK
      <4>4. QED
        BY <2>1, <4>1, <4>2, <4>3 DEF CallMethod, TypeOK
    <3>3. \A u \in Threads \ {t} : self'[u] = self[u] /\ o'[u] = o[u]
      BY <2>1 DEF CallMethod, TypeOK
    <3>4. LocalsOK'
      BY <2>1, <3>1, <3>3, LocalsKept DEF CallMethod, LocalsOK, Joining, Leaving
    <3>5. QED
      BY <3>2, <3>4
  <2>2. ASSUME NEW a \in Ends, NEW b \in Ends, CallConnect(t, a, b)
        PROVE  TypeOK' /\ LocalsOK'
    <3>1. /\ GoTo(t, "connect") /\ "connect" \in ClientLabels
          /\ a # b /\ crossed' \in BOOLEAN
          /\ calls[t] > 0 /\ calls' = [calls EXCEPT ![t] = calls[t] - 1]
          /\ self' = [self EXCEPT ![t] = a] /\ o' = [o EXCEPT ![t] = b]
          /\ UNCHANGED <<other, dispatched, queue, rejoined>>
      BY <2>2 DEF CallConnect, MayConnect, ClientLabels, TypeOK
    <3>2. /\ at' \in [Threads -> ClientLabels \cup EndLabels]
          /\ \A u \in Clients : at'[u] \in ClientLabels
          /\ \A e \in Ends : at'[e] \in EndLabels
      BY <3>1, LabelsKept
    <3>3. TypeOK'
      <4>1. calls' \in [Clients -> 0 .. Calls]
        BY <3>1 DEF TypeOK
      <4>2. self' \in [Threads -> Ends] /\ \A e \in Ends : self'[e] = e
        BY <3>1 DEF TypeOK
      <4>3. o' \in [Threads -> Ends \cup {Null, Empty, Disconnected}]
        BY <3>1 DEF TypeOK
      <4>4. QED
        BY <3>1, <3>2, <4>1, <4>2, <4>3 DEF TypeOK
    <3>4. /\ \A u \in Threads \ {t} : self'[u] = self[u] /\ o'[u] = o[u]
          /\ self'[t] = a /\ o'[t] = b /\ b \in Ends \ {a}
      BY <3>1 DEF TypeOK
    <3>5. \A e \in Ends : other'[e] # e
      BY <3>1 DEF LocalsOK
    <3>6. LocalsOK'
      BY ONLY TypeOK, LocalsOK, t \in Threads, <3>1, <3>4, <3>5, LocalsKept
         DEF Joining, Leaving
    <3>7. QED
      BY <3>3, <3>6
  <2>3. QED
    BY <1>1, <2>1, <2>2 DEF Call
<1>2. ASSUME NEW t \in Clients, SendTake(t) PROVE TypeOK' /\ LocalsOK'
  <2>1. PICK l \in {"dispatch", "put back"} : GoTo(t, l)
    BY <1>2 DEF SendTake, Fail
  <2>2. l \in ClientLabels
    BY DEF ClientLabels
  <2>3. other' = [other EXCEPT ![self[t]] = Null]
    BY <1>2 DEF SendTake, Take
  <2>4. /\ other' \in [Ends -> Ends \cup {Null, Empty, Disconnected}]
        /\ \A e \in Ends : other'[e] # e
    <3>1. self[t] \in Ends /\ Null \in Ends \cup {Null, Empty, Disconnected} /\ Null # self[t]
      BY <1>2 DEF SendTake, TypeOK, LocalsOK, Joining, Leaving
    <3>2. QED
      BY <2>3, <3>1, PointersKept
  <2>5. TypeOK'
    BY <1>2, <2>1, <2>2, <2>4, LabelsKept DEF SendTake, TypeOK, Fail
  <2>6. LocalsOK'
    <3>1. /\ \A u \in Threads \ {t} : self'[u] = self[u] /\ o'[u] = o[u]
          /\ self'[t] = self[t] /\ o'[t] = other[self[t]]
          /\ other[self[t]] \notin {Null, self[t]}
      BY <1>2 DEF SendTake, TypeOK, LocalsOK, Take, Held
    <3>2. l = "order" \/ l = "dispatch" => other[self[t]] \in Ends
      BY <1>2, <2>1 DEF SendTake, GoTo, TypeOK
    <3>3. QED
      BY <2>1, <2>4, <3>1, <3>2, LocalsKept DEF Joining, Leaving
  <2>7. QED
    BY <2>5, <2>6
<1>3. ASSUME NEW t \in Clients, Send(t) PROVE TypeOK' /\ LocalsOK'
  <2>1. PICK l \in {"put back"} : GoTo(t, l)
    BY <1>3 DEF Send, Fail
  <2>2. l \in ClientLabels
    BY DEF ClientLabels
  <2>3. UNCHANGED other
    BY <1>3 DEF Send, Fail
  <2>4. /\ other' \in [Ends -> Ends \cup {Null, Empty, Disconnected}]
        /\ \A e \in Ends : other'[e] # e
    BY <2>3 DEF TypeOK, LocalsOK
  <2>5. TypeOK'
    BY <1>3, <2>1, <2>2, <2>4, LabelsKept, QueueGrows DEF Send, TypeOK, Fail
  <2>6. LocalsOK'
    <3>1. UNCHANGED <<self, o>>
      BY <1>3 DEF Send, Fail
    <3>2. /\ at[t] \in Joining \cup Leaving \cup {"dispatch"} => o[t] \in Ends \ {self[t]}
          /\ at[t] = "put back" => o[t] \notin {Null, self[t]}
      BY DEF LocalsOK
    <3>3. QED
      BY <1>3, <2>1, <2>4, <3>1, <3>2, LocalsKept DEF Send, Joining, Leaving
  <2>7. QED
    BY <2>5, <2>6
<1>4. ASSUME NEW t \in Clients, PutBack(t) PROVE TypeOK' /\ LocalsOK'
  <2>1. PICK l \in {"idle"} : GoTo(t, l)
    BY <1>4 DEF PutBack, Fail
  <2>2. l \in ClientLabels
    BY DEF ClientLabels
  <2>3. other' = [other EXCEPT ![self[t]] = o[t]]
    BY <1>4 DEF PutBack, Take
  <2>4. /\ other' \in [Ends -> Ends \cup {Null, Empty, Disconnected}]
        /\ \A e \in Ends : other'[e] # e
    <3>1. self[t] \in Ends /\ o[t] \in Ends \cup {Null, Empty, Disconnected} /\ o[t] # self[t]
      BY <1>4 DEF PutBack, TypeOK, LocalsOK, Joining, Leaving
    <3>2. QED
      BY <2>3, <3>1, PointersKept
  <2>5. TypeOK'
    BY <1>4, <2>1, <2>2, <2>4, LabelsKept DEF PutBack, TypeOK, Fail
  <2>6. LocalsOK'
    <3>1. UNCHANGED <<self, o>>
      BY <1>4 DEF PutBack, Fail
    <3>2. /\ at[t] \in Joining \cup Leaving \cup {"dispatch"} => o[t] \in Ends \ {self[t]}
          /\ at[t] = "put back" => o[t] \notin {Null, self[t]}
      BY DEF LocalsOK
    <3>3. QED
      BY <1>4, <2>1, <2>4, <3>1, <3>2, LocalsKept DEF PutBack, Joining, Leaving
  <2>7. QED
    BY <2>5, <2>6
<1>5. ASSUME NEW t \in Clients, ConnectTake(t) PROVE TypeOK' /\ LocalsOK'
  <2>1. PICK l \in {"idle", "connect peer"} : GoTo(t, l)
    BY <1>5 DEF ConnectTake, Fail
  <2>2. l \in ClientLabels
    BY DEF ClientLabels
  <2>3. other' = [other EXCEPT ![self[t]] = Null]
    BY <1>5 DEF ConnectTake, Take
  <2>4. /\ other' \in [Ends -> Ends \cup {Null, Empty, Disconnected}]
        /\ \A e \in Ends : other'[e] # e
    <3>1. self[t] \in Ends /\ Null \in Ends \cup {Null, Empty, Disconnected} /\ Null # self[t]
      BY <1>5 DEF ConnectTake, TypeOK, LocalsOK, Joining, Leaving
    <3>2. QED
      BY <2>3, <3>1, PointersKept
  <2>5. TypeOK'
    BY <1>5, <2>1, <2>2, <2>4, LabelsKept DEF ConnectTake, TypeOK, Fail
  <2>6. LocalsOK'
    <3>1. UNCHANGED <<self, o>>
      BY <1>5 DEF ConnectTake, Fail
    <3>2. /\ at[t] \in Joining \cup Leaving \cup {"dispatch"} => o[t] \in Ends \ {self[t]}
          /\ at[t] = "put back" => o[t] \notin {Null, self[t]}
      BY DEF LocalsOK
    <3>3. QED
      BY <1>5, <2>1, <2>4, <3>1, <3>2, LocalsKept DEF ConnectTake, Joining, Leaving
  <2>7. QED
    BY <2>5, <2>6
<1>6. ASSUME NEW t \in Clients, ConnectTakePeer(t) PROVE TypeOK' /\ LocalsOK'
  <2>1. PICK l \in {"idle", "set own"} : GoTo(t, l)
    BY <1>6 DEF ConnectTakePeer, Fail
  <2>2. l \in ClientLabels
    BY DEF ClientLabels
  <2>3. other' = [other EXCEPT ![o[t]] = Null]
    BY <1>6 DEF ConnectTakePeer, Take
  <2>4. /\ other' \in [Ends -> Ends \cup {Null, Empty, Disconnected}]
        /\ \A e \in Ends : other'[e] # e
    <3>1. o[t] \in Ends /\ Null \in Ends \cup {Null, Empty, Disconnected} /\ Null # o[t]
      BY <1>6 DEF ConnectTakePeer, TypeOK, LocalsOK, Joining, Leaving
    <3>2. QED
      BY <2>3, <3>1, PointersKept
  <2>5. TypeOK'
    BY <1>6, <2>1, <2>2, <2>4, LabelsKept DEF ConnectTakePeer, TypeOK, Fail
  <2>6. LocalsOK'
    <3>1. UNCHANGED <<self, o>>
      BY <1>6 DEF ConnectTakePeer, Fail
    <3>2. /\ at[t] \in Joining \cup Leaving \cup {"dispatch"} => o[t] \in Ends \ {self[t]}
          /\ at[t] = "put back" => o[t] \notin {Null, self[t]}
      BY DEF LocalsOK
    <3>3. QED
      BY <1>6, <2>1, <2>4, <3>1, <3>2, LocalsKept DEF ConnectTakePeer, Joining, Leaving
  <2>7. QED
    BY <2>5, <2>6
<1>7. ASSUME NEW t \in Clients, ConnectOwn(t) PROVE TypeOK' /\ LocalsOK'
  <2>1. PICK l \in {"set peer"} : GoTo(t, l)
    BY <1>7 DEF ConnectOwn, Fail
  <2>2. l \in ClientLabels
    BY DEF ClientLabels
  <2>3. other' = [other EXCEPT ![self[t]] = o[t]]
    BY <1>7 DEF ConnectOwn, Take
  <2>4. /\ other' \in [Ends -> Ends \cup {Null, Empty, Disconnected}]
        /\ \A e \in Ends : other'[e] # e
    <3>1. self[t] \in Ends /\ o[t] \in Ends \cup {Null, Empty, Disconnected} /\ o[t] # self[t]
      BY <1>7 DEF ConnectOwn, TypeOK, LocalsOK, Joining, Leaving
    <3>2. QED
      BY <2>3, <3>1, PointersKept
  <2>5. TypeOK'
    BY <1>7, <2>1, <2>2, <2>4, LabelsKept DEF ConnectOwn, TypeOK, Fail
  <2>6. LocalsOK'
    <3>1. UNCHANGED <<self, o>>
      BY <1>7 DEF ConnectOwn, Fail
    <3>2. /\ at[t] \in Joining \cup Leaving \cup {"dispatch"} => o[t] \in Ends \ {self[t]}
          /\ at[t] = "put back" => o[t] \notin {Null, self[t]}
      BY DEF LocalsOK
    <3>3. QED
      BY <1>7, <2>1, <2>4, <3>1, <3>2, LocalsKept DEF ConnectOwn, Joining, Leaving
  <2>7. QED
    BY <2>5, <2>6
<1>8. ASSUME NEW t \in Clients, ConnectPeer(t) PROVE TypeOK' /\ LocalsOK'
  <2>1. PICK l \in {"idle"} : GoTo(t, l)
    BY <1>8 DEF ConnectPeer, Fail
  <2>2. l \in ClientLabels
    BY DEF ClientLabels
  <2>3. other' = [other EXCEPT ![o[t]] = self[t]]
    BY <1>8 DEF ConnectPeer, Take
  <2>4. /\ other' \in [Ends -> Ends \cup {Null, Empty, Disconnected}]
        /\ \A e \in Ends : other'[e] # e
    <3>1. o[t] \in Ends /\ self[t] \in Ends \cup {Null, Empty, Disconnected} /\ self[t] # o[t]
      BY <1>8 DEF ConnectPeer, TypeOK, LocalsOK, Joining, Leaving
    <3>2. QED
      BY <2>3, <3>1, PointersKept
  <2>5. TypeOK'
    BY <1>8, <2>1, <2>2, <2>4, LabelsKept DEF ConnectPeer, TypeOK, Fail
  <2>6. LocalsOK'
    <3>1. UNCHANGED <<self, o>>
      BY <1>8 DEF ConnectPeer, Fail
    <3>2. /\ at[t] \in Joining \cup Leaving \cup {"dispatch"} => o[t] \in Ends \ {self[t]}
          /\ at[t] = "put back" => o[t] \notin {Null, self[t]}
      BY DEF LocalsOK
    <3>3. QED
      BY <1>8, <2>1, <2>4, <3>1, <3>2, LocalsKept DEF ConnectPeer, Joining, Leaving
  <2>7. QED
    BY <2>5, <2>6
<1>9. ASSUME NEW t \in Clients, DisconnectTake(t) PROVE TypeOK' /\ LocalsOK'
  <2>1. PICK l \in {"order", "put back"} : GoTo(t, l)
    BY <1>9 DEF DisconnectTake, Fail
  <2>2. l \in ClientLabels
    BY DEF ClientLabels
  <2>3. other' = [other EXCEPT ![self[t]] = Null]
    BY <1>9 DEF DisconnectTake, Take
  <2>4. /\ other' \in [Ends -> Ends \cup {Null, Empty, Disconnected}]
        /\ \A e \in Ends : other'[e] # e
    <3>1. self[t] \in Ends /\ Null \in Ends \cup {Null, Empty, Disconnected} /\ Null # self[t]
      BY <1>9 DEF DisconnectTake, TypeOK, LocalsOK, Joining, Leaving
    <3>2. QED
      BY <2>3, <3>1, PointersKept
  <2>5. TypeOK'
    BY <1>9, <2>1, <2>2, <2>4, LabelsKept DEF DisconnectTake, TypeOK, Fail
  <2>6. LocalsOK'
    <3>1. /\ \A u \in Threads \ {t} : self'[u] = self[u] /\ o'[u] = o[u]
          /\ self'[t] = self[t] /\ o'[t] = other[self[t]]
          /\ other[self[t]] \notin {Null, self[t]}
      BY <1>9 DEF DisconnectTake, TypeOK, LocalsOK, Take, Held
    <3>2. l = "order" \/ l = "dispatch" => other[self[t]] \in Ends
      BY <1>9, <2>1 DEF DisconnectTake, GoTo, TypeOK
    <3>3. QED
      BY <2>1, <2>4, <3>1, <3>2, LocalsKept DEF Joining, Leaving
  <2>7. QED
    BY <2>5, <2>6
<1>10. ASSUME NEW t \in Clients, DisconnectOrder(t) PROVE TypeOK' /\ LocalsOK'
  <2>1. PICK l \in {"idle", "wait", "try"} : GoTo(t, l)
    BY <1>10 DEF DisconnectOrder, Fail
  <2>2. l \in ClientLabels
    BY DEF ClientLabels
  <2>3. UNCHANGED other
    BY <1>10 DEF DisconnectOrder, Fail
  <2>4. /\ other' \in [Ends -> Ends \cup {Null, Empty, Disconnected}]
        /\ \A e \in Ends : other'[e] # e
    BY <2>3 DEF TypeOK, LocalsOK
  <2>5. TypeOK'
    BY <1>10, <2>1, <2>2, <2>4, LabelsKept DEF DisconnectOrder, TypeOK, Fail
  <2>6. LocalsOK'
    <3>1. UNCHANGED <<self, o>>
      BY <1>10 DEF DisconnectOrder, Fail
    <3>2. /\ at[t] \in Joining \cup Leaving \cup {"dispatch"} => o[t] \in Ends \ {self[t]}
          /\ at[t] = "put back" => o[t] \notin {Null, self[t]}
      BY DEF LocalsOK
    <3>3. QED
      BY <1>10, <2>1, <2>4, <3>1, <3>2, LocalsKept DEF DisconnectOrder, Joining, Leaving
  <2>7. QED
    BY <2>5, <2>6
<1>11. ASSUME NEW t \in Clients, DisconnectWait(t) PROVE TypeOK' /\ LocalsOK'
  <2>1. PICK l \in {"check"} : GoTo(t, l)
    BY <1>11 DEF DisconnectWait, Fail
  <2>2. l \in ClientLabels
    BY DEF ClientLabels
  <2>3. other' = [other EXCEPT ![o[t]] = Null]
    BY <1>11 DEF DisconnectWait, Take
  <2>4. /\ other' \in [Ends -> Ends \cup {Null, Empty, Disconnected}]
        /\ \A e \in Ends : other'[e] # e
    <3>1. o[t] \in Ends /\ Null \in Ends \cup {Null, Empty, Disconnected} /\ Null # o[t]
      BY <1>11 DEF DisconnectWait, TypeOK, LocalsOK, Joining, Leaving
    <3>2. QED
      BY <2>3, <3>1, PointersKept
  <2>5. TypeOK'
    BY <1>11, <2>1, <2>2, <2>4, LabelsKept DEF DisconnectWait, TypeOK, Fail
  <2>6. LocalsOK'
    <3>1. UNCHANGED <<self, o>>
      BY <1>11 DEF DisconnectWait, Fail
    <3>2. /\ at[t] \in Joining \cup Leaving \cup {"dispatch"} => o[t] \in Ends \ {self[t]}
          /\ at[t] = "put back" => o[t] \notin {Null, self[t]}
      BY DEF LocalsOK
    <3>3. QED
      BY <1>11, <2>1, <2>4, <3>1, <3>2, LocalsKept DEF DisconnectWait, Joining, Leaving
  <2>7. QED
    BY <2>5, <2>6
<1>12. ASSUME NEW t \in Clients, DisconnectTry(t) PROVE TypeOK' /\ LocalsOK'
  <2>1. PICK l \in {"let go", "check"} : GoTo(t, l)
    BY <1>12 DEF DisconnectTry, Fail
  <2>2. l \in ClientLabels
    BY DEF ClientLabels
  <2>3. UNCHANGED other \/ other' = [other EXCEPT ![o[t]] = Null]
    BY <1>12 DEF DisconnectTry, Take
  <2>4. /\ other' \in [Ends -> Ends \cup {Null, Empty, Disconnected}]
        /\ \A e \in Ends : other'[e] # e
    <3>1. o[t] \in Ends /\ Null \in Ends \cup {Null, Empty, Disconnected} /\ Null # o[t]
      BY <1>12 DEF DisconnectTry, TypeOK, LocalsOK, Joining, Leaving
    <3>2. QED
      <4>1. CASE UNCHANGED other
        BY <4>1 DEF TypeOK, LocalsOK
      <4>2. CASE other' = [other EXCEPT ![o[t]] = Null]
        BY <3>1, <4>2, PointersKept
      <4>3. QED
        BY <2>3, <4>1, <4>2
  <2>5. TypeOK'
    BY <1>12, <2>1, <2>2, <2>4, LabelsKept DEF DisconnectTry, TypeOK, Fail
  <2>6. LocalsOK'
    <3>1. UNCHANGED <<self, o>>
      BY <1>12 DEF DisconnectTry, Fail
    <3>2. /\ at[t] \in Joining \cup Leaving \cup {"dispatch"} => o[t] \in Ends \ {self[t]}
          /\ at[t] = "put back" => o[t] \notin {Null, self[t]}
      BY DEF LocalsOK
    <3>3. QED
      BY <1>12, <2>1, <2>4, <3>1, <3>2, LocalsKept DEF DisconnectTry, Joining, Leaving
  <2>7. QED
    BY <2>5, <2>6
<1>13. ASSUME NEW t \in Clients, DisconnectLetGo(t) PROVE TypeOK' /\ LocalsOK'
  <2>1. PICK l \in {"disconnect"} : GoTo(t, l)
    BY <1>13 DEF DisconnectLetGo, Fail
  <2>2. l \in ClientLabels
    BY DEF ClientLabels
  <2>3. other' = [other EXCEPT ![self[t]] = o[t]]
    BY <1>13 DEF DisconnectLetGo, Take
  <2>4. /\ other' \in [Ends -> Ends \cup {Null, Empty, Disconnected}]
        /\ \A e \in Ends : other'[e] # e
    <3>1. self[t] \in Ends /\ o[t] \in Ends \cup {Null, Empty, Disconnected} /\ o[t] # self[t]
      BY <1>13 DEF DisconnectLetGo, TypeOK, LocalsOK, Joining, Leaving
    <3>2. QED
      BY <2>3, <3>1, PointersKept
  <2>5. TypeOK'
    BY <1>13, <2>1, <2>2, <2>4, LabelsKept DEF DisconnectLetGo, TypeOK, Fail
  <2>6. LocalsOK'
    <3>1. UNCHANGED <<self, o>>
      BY <1>13 DEF DisconnectLetGo, Fail
    <3>2. /\ at[t] \in Joining \cup Leaving \cup {"dispatch"} => o[t] \in Ends \ {self[t]}
          /\ at[t] = "put back" => o[t] \notin {Null, self[t]}
      BY DEF LocalsOK
    <3>3. QED
      BY <1>13, <2>1, <2>4, <3>1, <3>2, LocalsKept DEF DisconnectLetGo, Joining, Leaving
  <2>7. QED
    BY <2>5, <2>6
<1>14. ASSUME NEW t \in Clients, DisconnectCheck(t) PROVE TypeOK' /\ LocalsOK'
  <2>1. PICK l \in {"idle", "tell"} : GoTo(t, l)
    BY <1>14 DEF DisconnectCheck, Fail
  <2>2. l \in ClientLabels
    BY DEF ClientLabels
  <2>3. UNCHANGED other
    BY <1>14 DEF DisconnectCheck, Fail
  <2>4. /\ other' \in [Ends -> Ends \cup {Null, Empty, Disconnected}]
        /\ \A e \in Ends : other'[e] # e
    BY <2>3 DEF TypeOK, LocalsOK
  <2>5. TypeOK'
    BY <1>14, <2>1, <2>2, <2>4, LabelsKept DEF DisconnectCheck, TypeOK, Fail
  <2>6. LocalsOK'
    <3>1. UNCHANGED <<self, o>>
      BY <1>14 DEF DisconnectCheck, Fail
    <3>2. /\ at[t] \in Joining \cup Leaving \cup {"dispatch"} => o[t] \in Ends \ {self[t]}
          /\ at[t] = "put back" => o[t] \notin {Null, self[t]}
      BY DEF LocalsOK
    <3>3. QED
      BY <1>14, <2>1, <2>4, <3>1, <3>2, LocalsKept DEF DisconnectCheck, Joining, Leaving
  <2>7. QED
    BY <2>5, <2>6
<1>15. ASSUME NEW t \in Clients, DisconnectTell(t) PROVE TypeOK' /\ LocalsOK'
  <2>1. PICK l \in {"release"} : GoTo(t, l)
    BY <1>15 DEF DisconnectTell, Fail
  <2>2. l \in ClientLabels
    BY DEF ClientLabels
  <2>3. other' = [other EXCEPT ![o[t]] = Disconnected]
    BY <1>15 DEF DisconnectTell, Take
  <2>4. /\ other' \in [Ends -> Ends \cup {Null, Empty, Disconnected}]
        /\ \A e \in Ends : other'[e] # e
    <3>1. /\ o[t] \in Ends /\ Disconnected # o[t]
          /\ Disconnected \in Ends \cup {Null, Empty, Disconnected}
      BY <1>15 DEF DisconnectTell, TypeOK, LocalsOK, Joining, Leaving
    <3>2. QED
      BY <2>3, <3>1, PointersKept
  <2>5. TypeOK'
    BY <1>15, <2>1, <2>2, <2>4, LabelsKept DEF DisconnectTell, TypeOK, Fail
  <2>6. LocalsOK'
    <3>1. UNCHANGED <<self, o>>
      BY <1>15 DEF DisconnectTell, Fail
    <3>2. /\ at[t] \in Joining \cup Leaving \cup {"dispatch"} => o[t] \in Ends \ {self[t]}
          /\ at[t] = "put back" => o[t] \notin {Null, self[t]}
      BY DEF LocalsOK
    <3>3. QED
      BY <1>15, <2>1, <2>4, <3>1, <3>2, LocalsKept DEF DisconnectTell, Joining, Leaving
  <2>7. QED
    BY <2>5, <2>6
<1>16. ASSUME NEW t \in Clients, DisconnectRelease(t) PROVE TypeOK' /\ LocalsOK'
  <2>1. PICK l \in {"flag"} : GoTo(t, l)
    BY <1>16 DEF DisconnectRelease, Fail
  <2>2. l \in ClientLabels
    BY DEF ClientLabels
  <2>3. other' = [other EXCEPT ![self[t]] = Empty]
    BY <1>16 DEF DisconnectRelease, Take
  <2>4. /\ other' \in [Ends -> Ends \cup {Null, Empty, Disconnected}]
        /\ \A e \in Ends : other'[e] # e
    <3>1. self[t] \in Ends /\ Empty \in Ends \cup {Null, Empty, Disconnected} /\ Empty # self[t]
      BY <1>16 DEF DisconnectRelease, TypeOK, LocalsOK, Joining, Leaving
    <3>2. QED
      BY <2>3, <3>1, PointersKept
  <2>5. TypeOK'
    BY <1>16, <2>1, <2>2, <2>4, LabelsKept DEF DisconnectRelease, TypeOK, Fail
  <2>6. LocalsOK'
    <3>1. UNCHANGED <<self, o>>
      BY <1>16 DEF DisconnectRelease, Fail
    <3>2. /\ at[t] \in Joining \cup Leaving \cup {"dispatch"} => o[t] \in Ends \ {self[t]}
          /\ at[t] = "put back" => o[t] \notin {Null, self[t]}
      BY DEF LocalsOK
    <3>3. QED
      BY <1>16, <2>1, <2>4, <3>1, <3>2, LocalsKept DEF DisconnectRelease, Joining,
                                                       Leaving
  <2>7. QED
    BY <2>5, <2>6
<1>17. ASSUME NEW t \in Clients, DisconnectFlag(t) PROVE TypeOK' /\ LocalsOK'
  <2>1. PICK l \in {"dispatch bye", "idle"} : GoTo(t, l)
    BY <1>17 DEF DisconnectFlag, Fail
  <2>2. l \in ClientLabels
    BY DEF ClientLabels
  <2>3. UNCHANGED other
    BY <1>17 DEF DisconnectFlag, Fail
  <2>4. /\ other' \in [Ends -> Ends \cup {Null, Empty, Disconnected}]
        /\ \A e \in Ends : other'[e] # e
    BY <2>3 DEF TypeOK, LocalsOK
  <2>5. TypeOK'
    BY <1>17, <2>1, <2>2, <2>4, LabelsKept DEF DisconnectFlag, TypeOK, Fail
  <2>6. LocalsOK'
    <3>1. UNCHANGED <<self, o>>
      BY <1>17 DEF DisconnectFlag, Fail
    <3>2. /\ at[t] \in Joining \cup Leaving \cup {"dispatch"} => o[t] \in Ends \ {self[t]}
          /\ at[t] = "put back" => o[t] \notin {Null, self[t]}
      BY DEF LocalsOK
    <3>3. QED
      BY <1>17, <2>1, <2>4, <3>1, <3>2, LocalsKept DEF DisconnectFlag, Joining, Leaving
  <2>7. QED
    BY <2>5, <2>6
<1>18. ASSUME NEW t \in Clients, DisconnectDispatch(t) PROVE TypeOK' /\ LocalsOK'
  <2>1. PICK l \in {"idle"} : GoTo(t, l)
    BY <1>18 DEF DisconnectDispatch, Fail
  <2>2. l \in ClientLabels
    BY DEF ClientLabels
  <2>3. UNCHANGED other
    BY <1>18 DEF DisconnectDispatch, Fail
  <2>4. /\ other' \in [Ends -> Ends \cup {Null, Empty, Disconnected}]
        /\ \A d \in Ends : other'[d] # d
    BY <2>3 DEF TypeOK, LocalsOK
  <2>5. TypeOK'
    BY <1>18, <2>1, <2>2, <2>4, LabelsKept, QueueGrows
       DEF DisconnectDispatch, TypeOK, Fail
  <2>6. LocalsOK'
    <3>1. UNCHANGED <<self, o>>
      BY <1>18 DEF DisconnectDispatch, Fail
    <3>2. /\ at[t] \in Joining \cup Leaving \cup {"dispatch"} => o[t] \in Ends \ {self[t]}
          /\ at[t] = "put back" => o[t] \notin {Null, self[t]}
      BY DEF LocalsOK
    <3>3. QED
      BY <1>18, <2>1, <2>4, <3>1, <3>2, LocalsKept DEF DisconnectDispatch, Joining,
                                                       Leaving
  <2>7. QED
    BY <2>5, <2>6
<1>19. ASSUME NEW e \in Ends, Run(e) PROVE TypeOK' /\ LocalsOK'
  <2>1. PICK l \in {"idle", "undispatch"} : GoTo(e, l)
    BY <1>19 DEF Run, Fail
  <2>2. l \in EndLabels
    BY DEF EndLabels
  <2>3. UNCHANGED other
    BY <1>19 DEF Run, Fail
  <2>4. /\ other' \in [Ends -> Ends \cup {Null, Empty, Disconnected}]
        /\ \A d \in Ends : other'[d] # d
    BY <2>3 DEF TypeOK, LocalsOK
  <2>5. TypeOK'
    BY <1>19, <2>1, <2>2, <2>4, LabelsKept, QueueShrinks DEF Run, TypeOK, Fail
  <2>6. LocalsOK'
    <3>1. UNCHANGED <<self, o>>
      BY <1>19 DEF Run, Fail
    <3>2. /\ at[e] \in Joining \cup Leaving \cup {"dispatch"} => o[e] \in Ends \ {self[e]}
          /\ at[e] = "put back" => o[e] \notin {Null, self[e]}
      BY DEF LocalsOK
    <3>3. QED
      BY <1>19, <2>1, <2>4, <3>1, <3>2, LocalsKept DEF Run, Joining, Leaving
  <2>7. QED
    BY <2>5, <2>6
<1>20. ASSUME NEW e \in Ends, ExecuteUndispatch(e) PROVE TypeOK' /\ LocalsOK'
  <2>1. PICK l \in {"execute"} : GoTo(e, l)
    BY <1>20 DEF ExecuteUndispatch, Fail
  <2>2. l \in EndLabels
    BY DEF EndLabels
  <2>3. UNCHANGED other
    BY <1>20 DEF ExecuteUndispatch, Fail
  <2>4. /\ other' \in [Ends -> Ends \cup {Null, Empty, Disconnected}]
        /\ \A d \in Ends : other'[d] # d
    BY <2>3 DEF TypeOK, LocalsOK
  <2>5. TypeOK'
    BY <1>20, <2>1, <2>2, <2>4, LabelsKept DEF ExecuteUndispatch, TypeOK, Fail
  <2>6. LocalsOK'
    <3>1. UNCHANGED <<self, o>>
      BY <1>20 DEF ExecuteUndispatch, Fail
    <3>2. /\ at[e] \in Joining \cup Leaving \cup {"dispatch"} => o[e] \in Ends \ {self[e]}
          /\ at[e] = "put back" => o[e] \notin {Null, self[e]}
      BY DEF LocalsOK
    <3>3. QED
      BY <1>20, <2>1, <2>4, <3>1, <3>2, LocalsKept DEF ExecuteUndispatch, Joining,
                                                       Leaving
  <2>7. QED
    BY <2>5, <2>6
<1>21. ASSUME NEW e \in Ends, ExecuteTake(e) PROVE TypeOK' /\ LocalsOK'
  <2>1. PICK l \in {"empty", "put back"} : GoTo(e, l)
    BY <1>21 DEF ExecuteTake, Fail
  <2>2. l \in EndLabels
    BY DEF EndLabels
  <2>3. other' = [other EXCEPT ![self[e]] = Null]
    BY <1>21 DEF ExecuteTake, Take, TypeOK
  <2>4. /\ other' \in [Ends -> Ends \cup {Null, Empty, Disconnected}]
        /\ \A d \in Ends : other'[d] # d
    <3>1. self[e] \in Ends /\ Null \in Ends \cup {Null, Empty, Disconnected} /\ Null # self[e]
      BY <1>21 DEF ExecuteTake, TypeOK, LocalsOK, Joining, Leaving
    <3>2. QED
      BY <2>3, <3>1, PointersKept
  <2>5. TypeOK'
    BY <1>21, <2>1, <2>2, <2>4, LabelsKept DEF ExecuteTake, TypeOK, Fail
  <2>6. LocalsOK'
    <3>1. /\ \A u \in Threads \ {e} : self'[u] = self[u] /\ o'[u] = o[u]
          /\ self'[e] = self[e] /\ o'[e] = other[self[e]]
          /\ other[self[e]] \notin {Null, self[e]}
      BY <1>21 DEF ExecuteTake, TypeOK, LocalsOK, Take, Held
    <3>2. l = "order" \/ l = "dispatch" => other[self[e]] \in Ends
      BY <1>21, <2>1 DEF ExecuteTake, GoTo, TypeOK
    <3>3. QED
      BY <2>1, <2>4, <3>1, <3>2, LocalsKept DEF Joining, Leaving
  <2>7. QED
    BY <2>5, <2>6
<1>22. ASSUME NEW e \in Ends, ExecuteEmpty(e) PROVE TypeOK' /\ LocalsOK'
  <2>1. PICK l \in {"next"} : GoTo(e, l)
    BY <1>22 DEF ExecuteEmpty, Fail
  <2>2. l \in EndLabels
    BY DEF EndLabels
  <2>3. other' = [other EXCEPT ![self[e]] = Empty]
    BY <1>22 DEF ExecuteEmpty, Take, TypeOK
  <2>4. /\ other' \in [Ends -> Ends \cup {Null, Empty, Disconnected}]
        /\ \A d \in Ends : other'[d] # d
    <3>1. self[e] \in Ends /\ Empty \in Ends \cup {Null, Empty, Disconnected} /\ Empty # self[e]
      BY <1>22 DEF ExecuteEmpty, TypeOK, LocalsOK, Joining, Leaving
    <3>2. QED
      BY <2>3, <3>1, PointersKept
  <2>5. TypeOK'
    BY <1>22, <2>1, <2>2, <2>4, LabelsKept DEF ExecuteEmpty, TypeOK, Fail
  <2>6. LocalsOK'
    <3>1. UNCHANGED <<self, o>>
      BY <1>22 DEF ExecuteEmpty, Fail
    <3>2. /\ at[e] \in Joining \cup Leaving \cup {"dispatch"} => o[e] \in Ends \ {self[e]}
          /\ at[e] = "put back" => o[e] \notin {Null, self[e]}
      BY DEF LocalsOK
    <3>3. QED
      BY <1>22, <2>1, <2>4, <3>1, <3>2, LocalsKept DEF ExecuteEmpty, Joining, Leaving
  <2>7. QED
    BY <2>5, <2>6
<1>23. ASSUME NEW e \in Ends, ExecuteNext(e) PROVE TypeOK' /\ LocalsOK'
  <2>1. PICK l \in {"idle", "told"} : GoTo(e, l)
    BY <1>23 DEF ExecuteNext, Fail
  <2>2. l \in EndLabels
    BY DEF EndLabels
  <2>3. UNCHANGED other
    BY <1>23 DEF ExecuteNext, Fail
  <2>4. /\ other' \in [Ends -> Ends \cup {Null, Empty, Disconnected}]
        /\ \A d \in Ends : other'[d] # d
    BY <2>3 DEF TypeOK, LocalsOK
  <2>5. TypeOK'
    BY <1>23, <2>1, <2>2, <2>4, LabelsKept DEF ExecuteNext, TypeOK, Fail
  <2>6. LocalsOK'
    <3>1. UNCHANGED <<self, o>>
      BY <1>23 DEF ExecuteNext, Fail
    <3>2. /\ at[e] \in Joining \cup Leaving \cup {"dispatch"} => o[e] \in Ends \ {self[e]}
          /\ at[e] = "put back" => o[e] \notin {Null, self[e]}
      BY DEF LocalsOK
    <3>3. QED
      BY <1>23, <2>1, <2>4, <3>1, <3>2, LocalsKept DEF ExecuteNext, Joining, Leaving
  <2>7. QED
    BY <2>5, <2>6
<1>24. ASSUME NEW e \in Ends, ExecuteDisconnected(e) PROVE TypeOK' /\ LocalsOK'
  <2>1. PICK l \in {"idle"} : GoTo(e, l)
    BY <1>24 DEF ExecuteDisconnected, Fail
  <2>2. l \in EndLabels
    BY DEF EndLabels
  <2>3. UNCHANGED other
    BY <1>24 DEF ExecuteDisconnected, Fail
  <2>4. /\ other' \in [Ends -> Ends \cup {Null, Empty, Disconnected}]
        /\ \A d \in Ends : other'[d] # d
    BY <2>3 DEF TypeOK, LocalsOK
  <2>5. TypeOK'
    BY <1>24, <2>1, <2>2, <2>4, LabelsKept DEF ExecuteDisconnected, TypeOK, Fail
  <2>6. LocalsOK'
    <3>1. UNCHANGED <<self, o>>
      BY <1>24 DEF ExecuteDisconnected, Fail
    <3>2. /\ at[e] \in Joining \cup Leaving \cup {"dispatch"} => o[e] \in Ends \ {self[e]}
          /\ at[e] = "put back" => o[e] \notin {Null, self[e]}
      BY DEF LocalsOK
    <3>3. QED
      BY <1>24, <2>1, <2>4, <3>1, <3>2, LocalsKept DEF ExecuteDisconnected, Joining,
                                                       Leaving
  <2>7. QED
    BY <2>5, <2>6
<1>25. ASSUME NEW e \in Ends, PutBack(e) PROVE TypeOK' /\ LocalsOK'
  <2>1. PICK l \in {"idle"} : GoTo(e, l)
    BY <1>25 DEF PutBack, Fail
  <2>2. l \in EndLabels
    BY DEF EndLabels
  <2>3. other' = [other EXCEPT ![self[e]] = o[e]]
    BY <1>25 DEF PutBack, Take
  <2>4. /\ other' \in [Ends -> Ends \cup {Null, Empty, Disconnected}]
        /\ \A d \in Ends : other'[d] # d
    <3>1. self[e] \in Ends /\ o[e] \in Ends \cup {Null, Empty, Disconnected} /\ o[e] # self[e]
      BY <1>25 DEF PutBack, TypeOK, LocalsOK, Joining, Leaving
    <3>2. QED
      BY <2>3, <3>1, PointersKept
  <2>5. TypeOK'
    BY <1>25, <2>1, <2>2, <2>4, LabelsKept DEF PutBack, TypeOK, Fail
  <2>6. LocalsOK'
    <3>1. UNCHANGED <<self, o>>
      BY <1>25 DEF PutBack, Fail
    <3>2. /\ at[e] \in Joining \cup Leaving \cup {"dispatch"} => o[e] \in Ends \ {self[e]}
          /\ at[e] = "put back" => o[e] \notin {Null, self[e]}
      BY DEF LocalsOK
    <3>3. QED
      BY <1>25, <2>1, <2>4, <3>1, <3>2, LocalsKept DEF PutBack, Joining, Leaving
  <2>7. QED
    BY <2>5, <2>6
<1>26. QED
  BY <1>1, <1>2, <1>3, <1>4, <1>5, <1>6, <1>7, <1>8, <1>9, <1>10, <1>11, <1>12, <1>13,
     <1>14, <1>15, <1>16, <1>17, <1>18, <1>19, <1>20, <1>21, <1>22, <1>23, <1>24,
     <1>25
     DEF Next, Acts, Executes
------------------------------------------------------------------------------
\* Who does not act stays where he is.
Stays(t) == \A u \in Threads \ {t} : at'[u] = at[u] /\ self'[u] = self[u] /\ o'[u] = o[u]

LEMMA OneActs ==
    ASSUME TypeOK, NEW t \in Threads, Call(t) \/ Acts(t) \/ Executes(t)
    PROVE  Stays(t)
<1> USE DEF TypeOK, Stays, GoTo
<1>1. ASSUME Call(t) PROVE Stays(t)
  BY <1>1 DEF Call, CallMethod, CallConnect
<1>2. ASSUME SendTake(t) PROVE Stays(t)
  BY <1>2 DEF SendTake, Fail
<1>3. ASSUME Send(t) PROVE Stays(t)
  BY <1>3 DEF Send, Fail
<1>4. ASSUME PutBack(t) PROVE Stays(t)
  BY <1>4 DEF PutBack, Fail
<1>5. ASSUME ConnectTake(t) PROVE Stays(t)
  BY <1>5 DEF ConnectTake, Fail
<1>6. ASSUME ConnectTakePeer(t) PROVE Stays(t)
  BY <1>6 DEF ConnectTakePeer, Fail
<1>7. ASSUME ConnectOwn(t) PROVE Stays(t)
  BY <1>7 DEF ConnectOwn, Fail
<1>8. ASSUME ConnectPeer(t) PROVE Stays(t)
  BY <1>8 DEF ConnectPeer, Fail
<1>9. ASSUME DisconnectTake(t) PROVE Stays(t)
  BY <1>9 DEF DisconnectTake, Fail
<1>10. ASSUME DisconnectOrder(t) PROVE Stays(t)
  BY <1>10 DEF DisconnectOrder, Fail
<1>11. ASSUME DisconnectWait(t) PROVE Stays(t)
  BY <1>11 DEF DisconnectWait, Fail
<1>12. ASSUME DisconnectTry(t) PROVE Stays(t)
  BY <1>12 DEF DisconnectTry, Fail
<1>13. ASSUME DisconnectLetGo(t) PROVE Stays(t)
  BY <1>13 DEF DisconnectLetGo, Fail
<1>14. ASSUME DisconnectCheck(t) PROVE Stays(t)
  BY <1>14 DEF DisconnectCheck, Fail
<1>15. ASSUME DisconnectTell(t) PROVE Stays(t)
  BY <1>15 DEF DisconnectTell, Fail
<1>16. ASSUME DisconnectRelease(t) PROVE Stays(t)
  BY <1>16 DEF DisconnectRelease, Fail
<1>17. ASSUME DisconnectFlag(t) PROVE Stays(t)
  BY <1>17 DEF DisconnectFlag, Fail
<1>18. ASSUME DisconnectDispatch(t) PROVE Stays(t)
  BY <1>18 DEF DisconnectDispatch, Fail
<1>19. ASSUME Run(t) PROVE Stays(t)
  BY <1>19 DEF Run, Fail
<1>20. ASSUME ExecuteUndispatch(t) PROVE Stays(t)
  BY <1>20 DEF ExecuteUndispatch, Fail
<1>21. ASSUME ExecuteTake(t) PROVE Stays(t)
  BY <1>21 DEF ExecuteTake, Fail
<1>22. ASSUME ExecuteEmpty(t) PROVE Stays(t)
  BY <1>22 DEF ExecuteEmpty, Fail
<1>23. ASSUME ExecuteNext(t) PROVE Stays(t)
  BY <1>23 DEF ExecuteNext, Fail
<1>24. ASSUME ExecuteDisconnected(t) PROVE Stays(t)
  BY <1>24 DEF ExecuteDisconnected, Fail
<1>25. QED
  BY <1>1, <1>2, <1>3, <1>4, <1>5, <1>6, <1>7, <1>8, <1>9, <1>10, <1>11, <1>12, <1>13,
     <1>14, <1>15, <1>16, <1>17, <1>18, <1>19, <1>20, <1>21, <1>22, <1>23, <1>24
     DEF Acts, Executes

\* A thread takes ends that nobody holds, and gives back what it holds.
TakesAndGives(t) == \A e \in Ends :
    /\ Holds(t, e)' => other'[e] = Null /\ (Holds(t, e) \/ other[e] # Null)
    /\ other'[e] # other[e] => Holds(t, e) \/ other[e] # Null

LEMMA LockingKept ==
    ASSUME TypeOK, LocalsOK, Locking, Next
    PROVE  Locking'
<1>1. ASSUME NEW t \in Threads, Stays(t), TakesAndGives(t) PROVE Locking'
  <2> SUFFICES ASSUME NEW u \in Threads, NEW e \in Ends, Holds(u, e)'
               PROVE  other'[e] = Null /\ \A v \in Threads : Holds(v, e)' => v = u
    BY DEF Locking
  <2>1. \A v \in Threads : v # t => (Holds(v, e)' <=> Holds(v, e))
    BY <1>1 DEF Stays, Holds
  <2>2. CASE u = t
    BY <1>1, <2>1, <2>2 DEF TakesAndGives, Locking
  <2>3. CASE u # t
    BY <1>1, <2>1, <2>3 DEF TakesAndGives, Locking
  <2>4. QED
    BY <2>2, <2>3
<1>0. \A t \in Threads, e \in Ends : Holds(t, e) => other[e] = Null
  BY DEF Locking
<1> USE Marks DEF Holds, HoldsOwn, HoldsPeer, GoTo
<1>2. ASSUME NEW t \in Clients, Call(t) PROVE TakesAndGives(t)
  BY <1>2, ZenonT(60) DEF Call, CallMethod, CallConnect, TypeOK, Threads, TakesAndGives
<1>3. ASSUME NEW t \in Clients, SendTake(t) PROVE TakesAndGives(t)
  BY <1>0, <1>3 DEF SendTake, Take, Held, Fail, TypeOK, LocalsOK, Joining, Leaving,
                    Threads, TakesAndGives
<1>4. ASSUME NEW t \in Clients, Send(t) PROVE TakesAndGives(t)
  BY <1>0, <1>4 DEF Send, Take, Held, Fail, TypeOK, LocalsOK, Joining, Leaving,
                    Threads, TakesAndGives
<1>5. ASSUME NEW t \in Clients, PutBack(t) PROVE TakesAndGives(t)
  BY <1>0, <1>5 DEF PutBack, Take, Held, Fail, TypeOK, LocalsOK, Joining, Leaving,
                    Threads, TakesAndGives
<1>6. ASSUME NEW t \in Clients, ConnectTake(t) PROVE TakesAndGives(t)
  BY <1>0, <1>6 DEF ConnectTake, Take, Held, Fail, TypeOK, LocalsOK, Joining, Leaving,
                    Threads, TakesAndGives
<1>7. ASSUME NEW t \in Clients, ConnectTakePeer(t) PROVE TakesAndGives(t)
  BY <1>0, <1>7 DEF ConnectTakePeer, Take, Held, Fail, TypeOK, LocalsOK, Joining,
                    Leaving, Threads, TakesAndGives
<1>8. ASSUME NEW t \in Clients, ConnectOwn(t) PROVE TakesAndGives(t)
  <2>1. /\ at[t] = "set own" /\ at'[t] = "set peer" /\ UNCHANGED <<self, o>>
        /\ self[t] \in Ends /\ other' = [other EXCEPT ![self[t]] = o[t]]
    BY <1>8 DEF ConnectOwn, TypeOK, Threads
  <2>2. /\ Holds(t, self[t]) /\ \A e \in Ends : Holds(t, e)' <=> e = o[t]
        /\ Holds(t, o[t]) /\ o[t] # self[t]
    BY <2>1 DEF LocalsOK, Joining, Threads
  <2>3. QED
    BY <1>0, <2>1, <2>2, ZenonT(60) DEF TakesAndGives, TypeOK, Threads
<1>9. ASSUME NEW t \in Clients, ConnectPeer(t) PROVE TakesAndGives(t)
  BY <1>0, <1>9 DEF ConnectPeer, Take, Held, Fail, TypeOK, LocalsOK, Joining, Leaving,
                    Threads, TakesAndGives
<1>10. ASSUME NEW t \in Clients, DisconnectTake(t) PROVE TakesAndGives(t)
  BY <1>0, <1>10 DEF DisconnectTake, Take, Held, Fail, TypeOK, LocalsOK, Joining,
                     Leaving, Threads, TakesAndGives
<1>11. ASSUME NEW t \in Clients, DisconnectOrder(t) PROVE TakesAndGives(t)
  <2>1. /\ at[t] = "order" /\ at'[t] \in {"idle", "wait", "try"}
        /\ UNCHANGED <<other, self, o>>
    BY <1>11 DEF DisconnectOrder, Fail, TypeOK, Threads
  <2>2. \A e \in Ends : Holds(t, e)' => Holds(t, e)
    BY <2>1
  <2>3. QED
    BY <1>0, <2>1, <2>2 DEF TakesAndGives, Threads
<1>12. ASSUME NEW t \in Clients, DisconnectWait(t) PROVE TakesAndGives(t)
  BY <1>0, <1>12 DEF DisconnectWait, Take, Held, Fail, TypeOK, LocalsOK, Joining,
                     Leaving, Threads, TakesAndGives
<1>13. ASSUME NEW t \in Clients, DisconnectTry(t) PROVE TakesAndGives(t)
  <2>1. /\ at[t] = "try" /\ UNCHANGED <<self, o>> /\ o[t] \in Ends
        /\ \/ at'[t] = "let go" /\ UNCHANGED other
           \/ /\ at'[t] = "check" /\ other[o[t]] # Null
              /\ other' = [other EXCEPT ![o[t]] = Null]
    BY <1>13 DEF DisconnectTry, Take, Held, TypeOK, LocalsOK, Leaving, Threads
  <2>2. CASE at'[t] = "let go" /\ UNCHANGED other
    BY <1>0, <2>1, <2>2 DEF TakesAndGives, Threads
  <2>3. CASE /\ at'[t] = "check" /\ other[o[t]] # Null
             /\ other' = [other EXCEPT ![o[t]] = Null]
    <3>1. \A e \in Ends : Holds(t, e)' => Holds(t, e) \/ e = o[t]
      BY <2>1
    <3>2. QED
      BY <1>0, <2>1, <2>3, <3>1, ZenonT(60) DEF TakesAndGives, TypeOK, Threads
  <2>4. QED
    BY <2>1, <2>2, <2>3
<1>14. ASSUME NEW t \in Clients, DisconnectLetGo(t) PROVE TakesAndGives(t)
  BY <1>0, <1>14 DEF DisconnectLetGo, Take, Held, Fail, TypeOK, LocalsOK, Joining,
                     Leaving, Threads, TakesAndGives
<1>15. ASSUME NEW t \in Clients, DisconnectCheck(t) PROVE TakesAndGives(t)
  BY <1>0, <1>15, ZenonT(60) DEF DisconnectCheck, Take, Held, Fail, TypeOK, LocalsOK, Joining,
                     Leaving, Threads, TakesAndGives
<1>16. ASSUME NEW t \in Clients, DisconnectTell(t) PROVE TakesAndGives(t)
  <2>1. /\ at[t] = "tell" /\ at'[t] = "release" /\ UNCHANGED <<self, o>>
        /\ o[t] \in Ends /\ other' = [other EXCEPT ![o[t]] = Disconnected]
    BY <1>16 DEF DisconnectTell, TypeOK, LocalsOK, Leaving, Threads
  <2>2. /\ Holds(t, o[t]) /\ \A e \in Ends : Holds(t, e)' => Holds(t, e) /\ e # o[t]
    BY <2>1 DEF LocalsOK, Leaving, Threads
  <2>3. QED
    BY <1>0, <2>1, <2>2 DEF TakesAndGives, TypeOK, Threads
<1>17. ASSUME NEW t \in Clients, DisconnectRelease(t) PROVE TakesAndGives(t)
  BY <1>0, <1>17 DEF DisconnectRelease, Take, Held, Fail, TypeOK, LocalsOK, Joining,
                     Leaving, Threads, TakesAndGives
<1>18. ASSUME NEW t \in Clients, DisconnectFlag(t) PROVE TakesAndGives(t)
  BY <1>0, <1>18 DEF DisconnectFlag, Take, Held, Fail, TypeOK, LocalsOK, Joining,
                     Leaving, Threads, TakesAndGives
<1>19. ASSUME NEW t \in Clients, DisconnectDispatch(t) PROVE TakesAndGives(t)
  BY <1>0, <1>19 DEF DisconnectDispatch, Take, Held, Fail, TypeOK, LocalsOK, Joining,
                     Leaving, Threads, TakesAndGives
<1>20. ASSUME NEW e \in Ends, Run(e) PROVE TakesAndGives(e)
  BY <1>0, <1>20 DEF Run, Take, Held, Fail, TypeOK, LocalsOK, Joining, Leaving,
                     Threads, TakesAndGives
<1>21. ASSUME NEW e \in Ends, ExecuteUndispatch(e) PROVE TakesAndGives(e)
  BY <1>0, <1>21 DEF ExecuteUndispatch, Take, Held, Fail, TypeOK, LocalsOK, Joining,
                     Leaving, Threads, TakesAndGives
<1>22. ASSUME NEW e \in Ends, ExecuteTake(e) PROVE TakesAndGives(e)
  BY <1>0, <1>22 DEF ExecuteTake, Take, Held, Fail, TypeOK, LocalsOK, Joining,
                     Leaving, Threads, TakesAndGives
<1>23. ASSUME NEW e \in Ends, ExecuteEmpty(e) PROVE TakesAndGives(e)
  BY <1>0, <1>23 DEF ExecuteEmpty, Take, Held, Fail, TypeOK, LocalsOK, Joining,
                     Leaving, Threads, TakesAndGives
<1>24. ASSUME NEW e \in Ends, ExecuteNext(e) PROVE TakesAndGives(e)
  BY <1>0, <1>24 DEF ExecuteNext, Take, Held, Fail, TypeOK, LocalsOK, Joining,
                     Leaving, Threads, TakesAndGives
<1>25. ASSUME NEW e \in Ends, ExecuteDisconnected(e) PROVE TakesAndGives(e)
  BY <1>0, <1>25 DEF ExecuteDisconnected, Take, Held, Fail, TypeOK, LocalsOK, Joining,
                     Leaving, Threads, TakesAndGives
<1>26. ASSUME NEW e \in Ends, PutBack(e) PROVE TakesAndGives(e)
  BY <1>0, <1>26 DEF PutBack, Take, Held, Fail, TypeOK, LocalsOK, Joining, Leaving,
                     Threads, TakesAndGives
<1>27. ASSUME NEW t \in Clients, Acts(t) PROVE TakesAndGives(t)
  BY <1>27, <1>3, <1>4, <1>5, <1>6, <1>7, <1>8, <1>9, <1>10, <1>11, <1>12, <1>13,
     <1>14, <1>15, <1>16, <1>17, <1>18, <1>19
     DEF Acts
<1>28. ASSUME NEW e \in Ends, Executes(e) PROVE TakesAndGives(e)
  BY <1>28, <1>20, <1>21, <1>22, <1>23, <1>24, <1>25, <1>26 DEF Executes
<1>29. QED
  BY <1>1, <1>2, <1>27, <1>28, OneActs DEF Next, Threads
------------------------------------------------------------------------------
\* Who connects what: a call of connect() starts it, and nothing else does.
LEMMA CrossingKept ==
    ASSUME TypeOK, Crossing, Next
    PROVE  Crossing'
<1> USE DEF Joining
<1>1. ASSUME NEW t \in Threads, Stays(t),
             at'[t] \in Joining => at[t] \in Joining /\ self'[t] = self[t] /\ o'[t] = o[t]
      PROVE  Crossing'
  <2>1. \A u \in Clients : at'[u] \in Joining =>
            at[u] \in Joining /\ self'[u] = self[u] /\ o'[u] = o[u]
    BY <1>1 DEF Stays, Threads
  <2>2. QED
    BY <2>1, ZenonT(60) DEF Crossing
<1>2. ASSUME NEW t \in Clients, Call(t) PROVE Crossing'
  <2>1. Stays(t)
    BY <1>2, OneActs DEF Threads
  <2>2. ASSUME NEW e \in Ends, NEW method \in {"send", "disconnect"}, CallMethod(t, e, method)
        PROVE  Crossing'
    BY <1>1, <2>1, <2>2 DEF CallMethod, GoTo, TypeOK, Threads
  <2>3. ASSUME NEW a \in Ends, NEW b \in Ends, CallConnect(t, a, b)
        PROVE  Crossing'
    <3>1. /\ at[t] = "idle" /\ self'[t] = a /\ o'[t] = b
          /\ \A u \in Clients : at[u] \in Joining /\ {self[u], o[u]} \cap {a, b} # {}
                 => self[u] = b /\ o[u] = a
      BY <2>3 DEF CallConnect, MayConnect, Connecting, TypeOK, Threads
    <3>2. \A u \in Clients : u # t => at'[u] = at[u] /\ self'[u] = self[u] /\ o'[u] = o[u]
      BY <2>1 DEF Stays, Threads
    <3> SUFFICES ASSUME NEW u \in Clients, NEW v \in Clients, u # v,
                        at'[u] \in Joining, at'[v] \in Joining,
                        {self'[u], o'[u]} \cap {self'[v], o'[v]} # {}
                 PROVE  self'[v] = o'[u] /\ o'[v] = self'[u]
      BY DEF Crossing
    <3>3. CASE u = t
      BY <3>1, <3>2, <3>3
    <3>4. CASE v = t
      BY <3>1, <3>2, <3>4
    <3>5. CASE u # t /\ v # t
      BY <3>2, <3>5 DEF Crossing
    <3>6. QED
      BY <3>3, <3>4, <3>5
  <2>4. QED
    BY <1>2, <2>2, <2>3 DEF Call
<1>3. ASSUME NEW t \in Clients, Acts(t)
      PROVE  at'[t] \in Joining => at[t] \in Joining /\ self'[t] = self[t] /\ o'[t] = o[t]
  <2> USE DEF TypeOK, Threads, GoTo, Fail
  <2>1. CASE SendTake(t)
    BY <2>1 DEF SendTake
  <2>2. CASE Send(t)
    BY <2>2 DEF Send
  <2>3. CASE PutBack(t)
    BY <2>3 DEF PutBack
  <2>4. CASE ConnectTake(t)
    BY <2>4 DEF ConnectTake
  <2>5. CASE ConnectTakePeer(t)
    BY <2>5 DEF ConnectTakePeer
  <2>6. CASE ConnectOwn(t)
    BY <2>6 DEF ConnectOwn
  <2>7. CASE ConnectPeer(t)
    BY <2>7 DEF ConnectPeer
  <2>8. CASE DisconnectTake(t)
    BY <2>8 DEF DisconnectTake
  <2>9. CASE DisconnectOrder(t)
    BY <2>9 DEF DisconnectOrder
  <2>10. CASE DisconnectWait(t)
    BY <2>10 DEF DisconnectWait
  <2>11. CASE DisconnectTry(t)
    BY <2>11 DEF DisconnectTry
  <2>12. CASE DisconnectLetGo(t)
    BY <2>12 DEF DisconnectLetGo
  <2>13. CASE DisconnectCheck(t)
    BY <2>13 DEF DisconnectCheck
  <2>14. CASE DisconnectTell(t)
    BY <2>14 DEF DisconnectTell
  <2>15. CASE DisconnectRelease(t)
    BY <2>15 DEF DisconnectRelease
  <2>16. CASE DisconnectFlag(t)
    BY <2>16 DEF DisconnectFlag
  <2>17. CASE DisconnectDispatch(t)
    BY <2>17 DEF DisconnectDispatch
  <2>18. QED
    BY <1>3, <2>1, <2>2, <2>3, <2>4, <2>5, <2>6, <2>7, <2>8, <2>9, <2>10, <2>11,
       <2>12, <2>13, <2>14, <2>15, <2>16, <2>17
       DEF Acts
<1>4. ASSUME NEW e \in Ends, Executes(e)
      PROVE  at'[e] \in Joining => at[e] \in Joining /\ self'[e] = self[e] /\ o'[e] = o[e]
  <2> USE DEF TypeOK, Threads, GoTo, Fail
  <2>1. CASE Run(e)
    BY <2>1 DEF Run
  <2>2. CASE ExecuteUndispatch(e)
    BY <2>2 DEF ExecuteUndispatch
  <2>3. CASE ExecuteTake(e)
    BY <2>3 DEF ExecuteTake
  <2>4. CASE ExecuteEmpty(e)
    BY <2>4 DEF ExecuteEmpty
  <2>5. CASE ExecuteNext(e)
    BY <2>5 DEF ExecuteNext
  <2>6. CASE ExecuteDisconnected(e)
    BY <2>6 DEF ExecuteDisconnected
  <2>7. CASE PutBack(e)
    BY <2>7 DEF PutBack
  <2>8. QED
    BY <1>4, <2>1, <2>2, <2>3, <2>4, <2>5, <2>6, <2>7 DEF Executes
<1>5. QED
  BY <1>1, <1>2, <1>3, <1>4, OneActs DEF Next, Threads

\* Who queues the disconnect operation of an end, and who takes it out.
LEMMA ByeKept ==
    ASSUME TypeOK, LocalsOK, ByeOnce, Next
    PROVE  ByeOnce'
<1> USE EndsAssumption DEF Threads
<1>0. \A u \in Clients, e \in Ends : u # e
  OBVIOUS
<1>1. ASSUME NEW t \in Threads, Stays(t), UNCHANGED <<queue, dispatched>>,
             at'[t] \notin {"dispatch bye", "undispatch"}
      PROVE  ByeOnce'
  <2>1. \A u \in Clients, e \in Ends : Queues(u, e)' => Queues(u, e)
    BY <1>1 DEF Stays, Queues
  <2>2. \A e \in Ends : at'[e] = "undispatch" => at[e] = "undispatch"
    BY <1>1 DEF Stays
  <2>3. QED
    BY <1>1, <2>1, <2>2 DEF ByeOnce
<1>2. ASSUME NEW t \in Clients, Send(t), Stays(t) PROVE ByeOnce'
  <2>1. /\ o[t] \in Ends /\ queue' = [queue EXCEPT ![o[t]] = Append(queue[o[t]], Op)]
        /\ at'[t] = "put back" /\ UNCHANGED dispatched
    BY <1>2 DEF Send, GoTo, TypeOK, LocalsOK
  <2>2. \A e \in Ends : /\ Once(queue'[e])
                        /\ Contains(queue'[e], Bye) <=> Contains(queue[e], Bye)
    BY <2>1, QueueGrows, ZenonT(60) DEF ByeOnce, TypeOK, Op, Bye
  <2>3. \A u \in Clients, e \in Ends : Queues(u, e)' => Queues(u, e)
    BY <1>2, <2>1 DEF Stays, Queues
  <2>4. \A e \in Ends : at'[e] = at[e]
    BY <1>0, <1>2 DEF Stays
  <2>5. QED
    <3>1. ASSUME NEW e \in Ends, NEW u \in Clients, Queues(u, e)'
          PROVE  /\ dispatched[e] /\ ~ Contains(queue'[e], Bye)
                 /\ \A v \in Clients : Queues(v, e)' => v = u
      BY <2>2, <2>3, <3>1 DEF ByeOnce
    <3>2. ASSUME NEW e \in Ends, at'[e] = "undispatch"
          PROVE  /\ dispatched[e] /\ ~ Contains(queue'[e], Bye)
                 /\ \A u \in Clients : ~ Queues(u, e)'
      BY <2>2, <2>3, <2>4, <3>2 DEF ByeOnce
    <3>3. QED
      BY <2>1, <2>2, <3>1, <3>2 DEF ByeOnce
<1>3. ASSUME NEW t \in Clients, DisconnectFlag(t), Stays(t) PROVE ByeOnce'
  <2>1. /\ o[t] \in Ends /\ dispatched' = [dispatched EXCEPT ![o[t]] = TRUE]
        /\ UNCHANGED <<queue, o>>
        /\ at'[t] = IF dispatched[o[t]] THEN "idle" ELSE "dispatch bye"
    BY <1>3 DEF DisconnectFlag, NeedsDispatch, GoTo, TypeOK, LocalsOK, Leaving
  <2>2. \A u \in Clients, e \in Ends :
            Queues(u, e)' => Queues(u, e) \/ (u = t /\ e = o[t] /\ ~ dispatched[o[t]])
    BY <1>3, <2>1 DEF Stays, Queues
  <2>3. \A e \in Ends : at'[e] = at[e]
    BY <1>0, <1>3 DEF Stays
  <2>4. dispatched'[o[t]] /\ \A e \in Ends : dispatched[e] => dispatched'[e]
    BY <2>1 DEF TypeOK
  <2>5. ASSUME NEW e \in Ends, ~ dispatched[e]
        PROVE  /\ ~ Contains(queue[e], Bye) /\ at[e] # "undispatch"
               /\ \A u \in Clients : ~ Queues(u, e)
    BY <2>5 DEF ByeOnce
  <2> SUFFICES ASSUME NEW e \in Ends
               PROVE  /\ Once(queue[e])
                      /\ Contains(queue[e], Bye) => dispatched'[e]
                      /\ \A u \in Clients : Queues(u, e)' =>
                            /\ dispatched'[e] /\ ~ Contains(queue[e], Bye)
                            /\ \A v \in Clients : Queues(v, e)' => v = u
                      /\ at[e] = "undispatch" =>
                            /\ dispatched'[e] /\ ~ Contains(queue[e], Bye)
                            /\ \A u \in Clients : ~ Queues(u, e)'
    BY <2>1, <2>3 DEF ByeOnce
  <2>6. CASE dispatched[e]
    BY <2>2, <2>4, <2>6 DEF ByeOnce
  <2>7. CASE ~ dispatched[e]
    BY <2>2, <2>4, <2>5, <2>7 DEF ByeOnce
  <2>8. QED
    BY <2>6, <2>7
<1>4. ASSUME NEW t \in Clients, DisconnectDispatch(t), Stays(t) PROVE ByeOnce'
  <2>1. /\ o[t] \in Ends /\ Queues(t, o[t])
        /\ queue' = [queue EXCEPT ![o[t]] = Append(queue[o[t]], Bye)]
        /\ at'[t] = "idle" /\ UNCHANGED dispatched
    BY <1>4 DEF DisconnectDispatch, GoTo, TypeOK, LocalsOK, Leaving, Queues
  <2>2. \A e \in Ends : Once(queue'[e])
                       /\ (Contains(queue'[e], Bye) <=> Contains(queue[e], Bye) \/ e = o[t])
    BY <2>1, QueueGrows, ZenonT(60) DEF ByeOnce, TypeOK, Op, Bye
  <2>3. \A u \in Clients, e \in Ends : Queues(u, e)' => Queues(u, e) /\ u # t
    BY <1>4, <2>1 DEF Stays, Queues
  <2>4. \A e \in Ends : at'[e] = at[e]
    BY <1>0, <1>4 DEF Stays
  <2>5. QED
    BY <2>1, <2>2, <2>3, <2>4 DEF ByeOnce
<1>5. ASSUME NEW e \in Ends, Run(e), Stays(e) PROVE ByeOnce'
  <2>1. /\ queue[e] # <<>> /\ queue' = [queue EXCEPT ![e] = Tail(queue[e])]
        /\ at'[e] = IF Head(queue[e]) = Bye THEN "undispatch" ELSE "idle"
        /\ UNCHANGED dispatched
    BY <1>5 DEF Run, GoTo, TypeOK
  <2>2. /\ \A f \in Ends : Once(queue'[f])
                         /\ (Contains(queue'[f], Bye) => Contains(queue[f], Bye))
        /\ Head(queue[e]) = Bye => Contains(queue[e], Bye) /\ ~ Contains(queue'[e], Bye)
    <3>1. /\ queue'[e] = Tail(queue[e]) /\ queue[e] \in Seq({Op, Bye})
          /\ \A f \in Ends : f # e => queue'[f] = queue[f]
      BY <2>1 DEF TypeOK
    <3>2. /\ Once(queue'[e]) /\ (Contains(queue'[e], Bye) => Contains(queue[e], Bye))
          /\ Head(queue[e]) = Bye => Contains(queue[e], Bye) /\ ~ Contains(queue'[e], Bye)
      BY <2>1, <3>1, QueueShrinks DEF ByeOnce
    <3>3. QED
      BY <3>1, <3>2 DEF ByeOnce
  <2>3. \A u \in Clients, f \in Ends : Queues(u, f)' <=> Queues(u, f)
    <3>1. \A u \in Clients : u # e /\ u \in Threads
      BY <1>0
    <3>2. QED
      BY <1>5, <3>1 DEF Stays, Queues
  <2>4. \A f \in Ends : f # e => at'[f] = at[f]
    BY <1>5 DEF Stays
  <2>5. QED
    BY <2>1, <2>2, <2>3, <2>4 DEF ByeOnce
<1>6. ASSUME NEW e \in Ends, ExecuteUndispatch(e), Stays(e) PROVE ByeOnce'
  <2>1. /\ at[e] = "undispatch" /\ at'[e] = "execute" /\ UNCHANGED queue
        /\ dispatched' = [dispatched EXCEPT ![e] = FALSE]
    BY <1>6 DEF ExecuteUndispatch, GoTo, TypeOK
  <2>2. \A u \in Clients : u # e /\ u \in Threads
    BY <1>0
  <2>3. \A u \in Clients, f \in Ends : Queues(u, f)' <=> Queues(u, f)
    BY <1>6, <2>2 DEF Stays, Queues
  <2>4. \A f \in Ends : f # e => at'[f] = at[f] /\ dispatched'[f] = dispatched[f]
    BY <1>6, <2>1 DEF Stays, TypeOK
  <2>5. QED
    BY <2>1, <2>3, <2>4 DEF ByeOnce
<1>7. ASSUME NEW t \in Clients,
             \/ SendTake(t) \/ PutBack(t) \/ ConnectTake(t) \/ ConnectTakePeer(t)
             \/ ConnectOwn(t) \/ ConnectPeer(t) \/ DisconnectTake(t) \/ DisconnectOrder(t)
             \/ DisconnectWait(t) \/ DisconnectTry(t) \/ DisconnectLetGo(t) \/ DisconnectCheck(t)
             \/ DisconnectTell(t) \/ DisconnectRelease(t)
      PROVE  UNCHANGED <<queue, dispatched>> /\ at'[t] \notin {"dispatch bye", "undispatch"}
  <2> USE DEF TypeOK, GoTo, Fail
  <2>1. CASE SendTake(t)
    BY <2>1 DEF SendTake
  <2>2. CASE PutBack(t)
    BY <2>2 DEF PutBack
  <2>3. CASE ConnectTake(t)
    BY <2>3 DEF ConnectTake
  <2>4. CASE ConnectTakePeer(t)
    BY <2>4 DEF ConnectTakePeer
  <2>5. CASE ConnectOwn(t)
    BY <2>5 DEF ConnectOwn
  <2>6. CASE ConnectPeer(t)
    BY <2>6 DEF ConnectPeer
  <2>7. CASE DisconnectTake(t)
    BY <2>7 DEF DisconnectTake
  <2>8. CASE DisconnectOrder(t)
    BY <2>8 DEF DisconnectOrder
  <2>9. CASE DisconnectWait(t)
    BY <2>9 DEF DisconnectWait
  <2>10. CASE DisconnectTry(t)
    BY <2>10 DEF DisconnectTry
  <2>11. CASE DisconnectLetGo(t)
    BY <2>11 DEF DisconnectLetGo
  <2>12. CASE DisconnectCheck(t)
    BY <2>12 DEF DisconnectCheck
  <2>13. CASE DisconnectTell(t)
    BY <2>13 DEF DisconnectTell
  <2>14. CASE DisconnectRelease(t)
    BY <2>14 DEF DisconnectRelease
  <2>15. QED
    BY <1>7, <2>1, <2>2, <2>3, <2>4, <2>5, <2>6, <2>7, <2>8, <2>9, <2>10, <2>11,
       <2>12, <2>13, <2>14
<1>8. ASSUME NEW e \in Ends,
             \/ ExecuteTake(e) \/ ExecuteEmpty(e) \/ ExecuteNext(e) \/ ExecuteDisconnected(e)
             \/ PutBack(e)
      PROVE  UNCHANGED <<queue, dispatched>> /\ at'[e] \notin {"dispatch bye", "undispatch"}
  <2> USE DEF TypeOK, GoTo, Fail
  <2>1. CASE ExecuteTake(e)
    BY <2>1 DEF ExecuteTake
  <2>2. CASE ExecuteEmpty(e)
    BY <2>2 DEF ExecuteEmpty
  <2>3. CASE ExecuteNext(e)
    BY <2>3 DEF ExecuteNext
  <2>4. CASE ExecuteDisconnected(e)
    BY <2>4 DEF ExecuteDisconnected
  <2>5. CASE PutBack(e)
    BY <2>5 DEF PutBack
  <2>6. QED
    BY <1>8, <2>1, <2>2, <2>3, <2>4, <2>5
<1>9. ASSUME NEW t \in Clients, Call(t)
      PROVE  UNCHANGED <<queue, dispatched>> /\ at'[t] \notin {"dispatch bye", "undispatch"}
  BY <1>9 DEF Call, CallMethod, CallConnect, GoTo, TypeOK
<1>10. ASSUME NEW t \in Clients, Acts(t) PROVE ByeOnce'
  BY <1>1, <1>2, <1>3, <1>4, <1>7, <1>10, OneActs DEF Acts
<1>11. ASSUME NEW e \in Ends, Executes(e) PROVE ByeOnce'
  BY <1>1, <1>5, <1>6, <1>8, <1>11, OneActs DEF Executes
<1>12. QED
  BY <1>1, <1>9, <1>10, <1>11, OneActs DEF Next
------------------------------------------------------------------------------
\* The links stay as they are in a step in which nobody links or unlinks.
Agrees(t, L) ==
    /\ \A e \in Ends : other'[e] # Null => L[e] = Peer(other'[e])
    /\ Knows(t, L)'

LEMMA LinksKept ==
    ASSUME TypeOK, LocalsOK, NEW L, Matched(L), Next,
           \A t \in Clients : ~ ConnectOwn(t) /\ ~ DisconnectTell(t)
    PROVE  Matched(L)'
<1>0. ASSUME NEW t \in Threads PROVE Knows(t, L)
  BY DEF Matched
<1>1. ASSUME NEW t \in Threads, Stays(t), Agrees(t, L) PROVE Matched(L)'
  <2>1. ASSUME NEW u \in Threads, u # t PROVE Knows(u, L)'
    BY <1>0, <1>1, <2>1 DEF Stays, Knows
  <2>2. QED
    BY <1>1, <2>1 DEF Matched, Agrees
<1>2. ASSUME NEW t \in Clients, Call(t) PROVE Agrees(t, L)
  <2>1. ASSUME NEW e \in Ends, NEW method \in {"send", "disconnect"}, CallMethod(t, e, method)
        PROVE  Agrees(t, L)
    BY <2>1 DEF CallMethod, GoTo, TypeOK, Threads, Agrees, Knows, Matched, KeepsLink,
                HasNoLink,
                Joining
  <2>2. ASSUME NEW a \in Ends, NEW b \in Ends, CallConnect(t, a, b)
        PROVE  Agrees(t, L)
    <3>1. L[a] = Null /\ L[b] = Null
      BY <2>2, Marks DEF CallConnect, MayConnect, Matched, Peer
    <3>2. QED
      BY <2>2, <3>1 DEF CallConnect, GoTo, TypeOK, Threads, Agrees, Knows, Matched,
                        KeepsLink,
                        HasNoLink, Joining
  <2>3. QED
    BY <1>2, <2>1, <2>2 DEF Call
<1>3. ASSUME NEW t \in Clients, Acts(t) PROVE Agrees(t, L)
  <2>0. t \in Threads /\ Knows(t, L)
    BY <1>0 DEF Threads
  <2>01. \A e \in Ends : other[e] # Null => L[e] = Peer(other[e])
    BY DEF Matched
  <2> USE Marks, <2>01
  <2>1. CASE SendTake(t)
    <3>1. /\ self'[t] = self[t] /\ o'[t] = other[self[t]]
          /\ other' = [other EXCEPT ![self[t]] = Null]
          /\ at'[t] \in {"dispatch", "put back"}
      BY <2>0, <2>1 DEF SendTake, Take, Fail, GoTo, TypeOK
    <3>2. \A f \in Ends : other'[f] # Null => L[f] = Peer(other'[f])
      BY <2>0, <2>1, <3>1 DEF SendTake, TypeOK, LocalsOK, Knows, KeepsLink, HasNoLink,
                              Leaving, Joining, Peer
    <3>3. Knows(t, L)'
      BY <2>0, <2>1, <3>1 DEF SendTake, Take, Held, GoTo, TypeOK, LocalsOK, Leaving,
                              Knows, KeepsLink, HasNoLink, Joining, Peer
    <3>4. QED
      BY <3>2, <3>3 DEF Agrees
  <2>2. CASE Send(t)
    <3>1. /\ self'[t] = self[t] /\ o'[t] = o[t]
          /\ UNCHANGED other
          /\ at'[t] \in {"put back"}
      BY <2>0, <2>2 DEF Send, Take, Fail, GoTo, TypeOK
    <3>2. \A f \in Ends : other'[f] # Null => L[f] = Peer(other'[f])
      BY <2>0, <2>2, <3>1 DEF Send, TypeOK, LocalsOK, Knows, KeepsLink, HasNoLink,
                              Leaving, Joining, Peer
    <3>3. Knows(t, L)'
      BY <2>0, <2>2, <3>1 DEF Send, Take, Held, GoTo, TypeOK, LocalsOK, Leaving,
                              Knows, KeepsLink, HasNoLink, Joining, Peer
    <3>4. QED
      BY <3>2, <3>3 DEF Agrees
  <2>3. CASE PutBack(t)
    <3>1. /\ self'[t] = self[t] /\ o'[t] = o[t]
          /\ other' = [other EXCEPT ![self[t]] = o[t]]
          /\ at'[t] \in {"idle"}
      BY <2>0, <2>3 DEF PutBack, Take, Fail, GoTo, TypeOK
    <3>2. \A f \in Ends : other'[f] # Null => L[f] = Peer(other'[f])
      <4>1. L[self[t]] = Peer(o[t])
        BY <2>0, <2>3 DEF PutBack, Knows, KeepsLink
      <4>2. QED
        BY <3>1, <4>1 DEF TypeOK
    <3>3. Knows(t, L)'
      BY <2>0, <2>3, <3>1 DEF PutBack, Take, Held, GoTo, TypeOK, LocalsOK, Leaving,
                              Knows, KeepsLink, HasNoLink, Joining, Peer
    <3>4. QED
      BY <3>2, <3>3 DEF Agrees
  <2>4. CASE ConnectTake(t)
    <3>1. /\ self'[t] = self[t] /\ o'[t] = o[t]
          /\ other' = [other EXCEPT ![self[t]] = Null]
          /\ at'[t] \in {"idle", "connect peer"}
      BY <2>0, <2>4 DEF ConnectTake, Take, Fail, GoTo, TypeOK
    <3>2. \A f \in Ends : other'[f] # Null => L[f] = Peer(other'[f])
      BY <2>0, <2>4, <3>1 DEF ConnectTake, TypeOK, LocalsOK, Knows, KeepsLink,
                              HasNoLink, Leaving, Joining, Peer
    <3>3. Knows(t, L)'
      BY <2>0, <2>4, <3>1 DEF ConnectTake, Take, Held, GoTo, TypeOK, LocalsOK,
                              Leaving, Knows, KeepsLink, HasNoLink, Joining, Peer
    <3>4. QED
      BY <3>2, <3>3 DEF Agrees
  <2>5. CASE ConnectTakePeer(t)
    <3>1. /\ self'[t] = self[t] /\ o'[t] = o[t]
          /\ other' = [other EXCEPT ![o[t]] = Null]
          /\ at'[t] \in {"idle", "set own"}
      BY <2>0, <2>5 DEF ConnectTakePeer, Take, Fail, GoTo, TypeOK
    <3>2. \A f \in Ends : other'[f] # Null => L[f] = Peer(other'[f])
      BY <2>0, <2>5, <3>1 DEF ConnectTakePeer, TypeOK, LocalsOK, Knows, KeepsLink,
                              HasNoLink, Leaving, Joining, Peer
    <3>3. Knows(t, L)'
      BY <2>0, <2>5, <3>1 DEF ConnectTakePeer, Take, Held, GoTo, TypeOK, LocalsOK,
                              Leaving, Knows, KeepsLink, HasNoLink, Joining, Peer
    <3>4. QED
      BY <3>2, <3>3 DEF Agrees
  <2>6. CASE ConnectPeer(t)
    <3>1. /\ self'[t] = self[t] /\ o'[t] = o[t]
          /\ other' = [other EXCEPT ![o[t]] = self[t]]
          /\ at'[t] \in {"idle"}
      BY <2>0, <2>6 DEF ConnectPeer, Take, Fail, GoTo, TypeOK
    <3>2. \A f \in Ends : other'[f] # Null => L[f] = Peer(other'[f])
      BY <2>0, <2>6, <3>1, ZenonT(60) DEF ConnectPeer, TypeOK, LocalsOK, Knows, KeepsLink,
                              HasNoLink, Leaving, Joining, Peer
    <3>3. Knows(t, L)'
      BY <2>0, <2>6, <3>1 DEF ConnectPeer, Take, Held, GoTo, TypeOK, LocalsOK,
                              Leaving, Knows, KeepsLink, HasNoLink, Joining, Peer
    <3>4. QED
      BY <3>2, <3>3 DEF Agrees
  <2>7. CASE DisconnectTake(t)
    <3>1. /\ self'[t] = self[t] /\ o'[t] = other[self[t]]
          /\ other' = [other EXCEPT ![self[t]] = Null]
          /\ at'[t] \in {"order", "put back"}
      BY <2>0, <2>7 DEF DisconnectTake, Take, Fail, GoTo, TypeOK
    <3>2. \A f \in Ends : other'[f] # Null => L[f] = Peer(other'[f])
      BY <2>0, <2>7, <3>1 DEF DisconnectTake, TypeOK, LocalsOK, Knows, KeepsLink,
                              HasNoLink, Leaving, Joining, Peer
    <3>3. Knows(t, L)'
      BY <2>0, <2>7, <3>1 DEF DisconnectTake, Take, Held, GoTo, TypeOK, LocalsOK,
                              Leaving, Knows, KeepsLink, HasNoLink, Joining, Peer
    <3>4. QED
      BY <3>2, <3>3 DEF Agrees
  <2>8. CASE DisconnectOrder(t)
    <3>1. /\ self'[t] = self[t] /\ o'[t] = o[t]
          /\ UNCHANGED other
          /\ at'[t] \in {"idle", "wait", "try"}
      BY <2>0, <2>8 DEF DisconnectOrder, Take, Fail, GoTo, TypeOK
    <3>2. \A f \in Ends : other'[f] # Null => L[f] = Peer(other'[f])
      BY <2>0, <2>8, <3>1 DEF DisconnectOrder, TypeOK, LocalsOK, Knows, KeepsLink,
                              HasNoLink, Leaving, Joining, Peer
    <3>3. Knows(t, L)'
      BY <2>0, <2>8, <3>1 DEF DisconnectOrder, Take, Held, GoTo, TypeOK, LocalsOK,
                              Leaving, Knows, KeepsLink, HasNoLink, Joining, Peer
    <3>4. QED
      BY <3>2, <3>3 DEF Agrees
  <2>9. CASE DisconnectWait(t)
    <3>1. /\ self'[t] = self[t] /\ o'[t] = o[t]
          /\ other' = [other EXCEPT ![o[t]] = Null]
          /\ at'[t] \in {"check"}
      BY <2>0, <2>9 DEF DisconnectWait, Take, Fail, GoTo, TypeOK
    <3>2. \A f \in Ends : other'[f] # Null => L[f] = Peer(other'[f])
      BY <2>0, <2>9, <3>1 DEF DisconnectWait, TypeOK, LocalsOK, Knows, KeepsLink,
                              HasNoLink, Leaving, Joining, Peer
    <3>3. Knows(t, L)'
      BY <2>0, <2>9, <3>1 DEF DisconnectWait, Take, Held, GoTo, TypeOK, LocalsOK,
                              Leaving, Knows, KeepsLink, HasNoLink, Joining, Peer
    <3>4. QED
      BY <3>2, <3>3 DEF Agrees
  <2>10. CASE DisconnectTry(t)
    <3>1. /\ self'[t] = self[t] /\ o'[t] = o[t]
          /\ (UNCHANGED other \/ other' = [other EXCEPT ![o[t]] = Null])
          /\ at'[t] \in {"let go", "check"}
      BY <2>0, <2>10 DEF DisconnectTry, Take, Fail, GoTo, TypeOK
    <3>2. \A f \in Ends : other'[f] # Null => L[f] = Peer(other'[f])
      BY <2>0, <2>10, <3>1, ZenonT(60) DEF DisconnectTry, TypeOK, LocalsOK, Knows, KeepsLink,
                               HasNoLink, Leaving, Joining, Peer
    <3>3. Knows(t, L)'
      BY <2>0, <2>10, <3>1 DEF DisconnectTry, Take, Held, GoTo, TypeOK, LocalsOK,
                               Leaving, Knows, KeepsLink, HasNoLink, Joining, Peer
    <3>4. QED
      BY <3>2, <3>3 DEF Agrees
  <2>11. CASE DisconnectLetGo(t)
    <3>1. /\ self'[t] = self[t] /\ o'[t] = o[t]
          /\ other' = [other EXCEPT ![self[t]] = o[t]]
          /\ at'[t] \in {"disconnect"}
      BY <2>0, <2>11 DEF DisconnectLetGo, Take, Fail, GoTo, TypeOK
    <3>2. \A f \in Ends : other'[f] # Null => L[f] = Peer(other'[f])
      BY <2>0, <2>11, <3>1, ZenonT(60) DEF DisconnectLetGo, TypeOK, LocalsOK, Knows, KeepsLink,
                               HasNoLink, Leaving, Joining, Peer
    <3>3. Knows(t, L)'
      BY <2>0, <2>11, <3>1 DEF DisconnectLetGo, Take, Held, GoTo, TypeOK, LocalsOK,
                               Leaving, Knows, KeepsLink, HasNoLink, Joining, Peer
    <3>4. QED
      BY <3>2, <3>3 DEF Agrees
  <2>12. CASE DisconnectCheck(t)
    <3>1. /\ self'[t] = self[t] /\ o'[t] = o[t]
          /\ UNCHANGED other
          /\ at'[t] \in {"idle", "tell"}
      BY <2>0, <2>12 DEF DisconnectCheck, Take, Fail, GoTo, TypeOK
    <3>2. \A f \in Ends : other'[f] # Null => L[f] = Peer(other'[f])
      BY <2>0, <2>12, <3>1 DEF DisconnectCheck, TypeOK, LocalsOK, Knows, KeepsLink,
                               HasNoLink, Leaving, Joining, Peer
    <3>3. Knows(t, L)'
      BY <2>0, <2>12, <3>1 DEF DisconnectCheck, Take, Held, GoTo, TypeOK, LocalsOK,
                               Leaving, Knows, KeepsLink, HasNoLink, Joining, Peer
    <3>4. QED
      BY <3>2, <3>3 DEF Agrees
  <2>13. CASE DisconnectRelease(t)
    <3>1. /\ self'[t] = self[t] /\ o'[t] = o[t]
          /\ other' = [other EXCEPT ![self[t]] = Empty]
          /\ at'[t] \in {"flag"}
      BY <2>0, <2>13 DEF DisconnectRelease, Take, Fail, GoTo, TypeOK
    <3>2. \A f \in Ends : other'[f] # Null => L[f] = Peer(other'[f])
      <4>1. L[self[t]] = Null /\ Peer(Empty) = Null
        BY <2>0, <2>13 DEF DisconnectRelease, Knows, HasNoLink, Peer
      <4>2. QED
        BY <3>1, <4>1 DEF TypeOK
    <3>3. Knows(t, L)'
      BY <2>0, <2>13, <3>1 DEF DisconnectRelease, Take, Held, GoTo, TypeOK, LocalsOK,
                               Leaving, Knows, KeepsLink, HasNoLink, Joining, Peer
    <3>4. QED
      BY <3>2, <3>3 DEF Agrees
  <2>14. CASE DisconnectFlag(t)
    <3>1. /\ self'[t] = self[t] /\ o'[t] = o[t]
          /\ UNCHANGED other
          /\ at'[t] \in {"dispatch bye", "idle"}
      BY <2>0, <2>14 DEF DisconnectFlag, Take, Fail, GoTo, TypeOK
    <3>2. \A f \in Ends : other'[f] # Null => L[f] = Peer(other'[f])
      BY <2>0, <2>14, <3>1 DEF DisconnectFlag, TypeOK, LocalsOK, Knows, KeepsLink,
                               HasNoLink, Leaving, Joining, Peer
    <3>3. Knows(t, L)'
      BY <2>0, <2>14, <3>1 DEF DisconnectFlag, Take, Held, GoTo, TypeOK, LocalsOK,
                               Leaving, Knows, KeepsLink, HasNoLink, Joining, Peer
    <3>4. QED
      BY <3>2, <3>3 DEF Agrees
  <2>15. CASE DisconnectDispatch(t)
    <3>1. /\ self'[t] = self[t] /\ o'[t] = o[t]
          /\ UNCHANGED other
          /\ at'[t] \in {"idle"}
      BY <2>0, <2>15 DEF DisconnectDispatch, Take, Fail, GoTo, TypeOK
    <3>2. \A f \in Ends : other'[f] # Null => L[f] = Peer(other'[f])
      BY <2>0, <2>15, <3>1 DEF DisconnectDispatch, TypeOK, LocalsOK, Knows, KeepsLink,
                               HasNoLink, Leaving, Joining, Peer
    <3>3. Knows(t, L)'
      BY <2>0, <2>15, <3>1 DEF DisconnectDispatch, Take, Held, GoTo, TypeOK, LocalsOK,
                               Leaving, Knows, KeepsLink, HasNoLink, Joining, Peer
    <3>4. QED
      BY <3>2, <3>3 DEF Agrees
  <2>16. QED
    BY <1>3, <2>1, <2>2, <2>3, <2>4, <2>5, <2>6, <2>7, <2>8, <2>9, <2>10, <2>11,
       <2>12, <2>13, <2>14, <2>15
       DEF Acts
<1>4. ASSUME NEW e \in Ends, Executes(e) PROVE Agrees(e, L)
  <2>0. e \in Threads /\ Knows(e, L)
    BY <1>0 DEF Threads
  <2>01. \A d \in Ends : other[d] # Null => L[d] = Peer(other[d])
    BY DEF Matched
  <2> USE Marks, <2>01
  <2>1. CASE Run(e)
    <3>1. /\ self'[e] = self[e] /\ o'[e] = o[e]
          /\ UNCHANGED other
          /\ at'[e] \in {"idle", "undispatch"}
      BY <2>0, <2>1 DEF Run, Take, Fail, GoTo, TypeOK
    <3>2. \A f \in Ends : other'[f] # Null => L[f] = Peer(other'[f])
      BY <2>0, <2>1, <3>1 DEF Run, TypeOK, LocalsOK, Knows, KeepsLink, HasNoLink,
                              Leaving, Joining, Peer
    <3>3. Knows(e, L)'
      BY <2>0, <2>1, <3>1 DEF Run, Take, Held, GoTo, TypeOK, LocalsOK, Leaving, Knows,
                              KeepsLink, HasNoLink, Joining, Peer
    <3>4. QED
      BY <3>2, <3>3 DEF Agrees
  <2>2. CASE ExecuteUndispatch(e)
    <3>1. /\ self'[e] = self[e] /\ o'[e] = o[e]
          /\ UNCHANGED other
          /\ at'[e] \in {"execute"}
      BY <2>0, <2>2 DEF ExecuteUndispatch, Take, Fail, GoTo, TypeOK
    <3>2. \A f \in Ends : other'[f] # Null => L[f] = Peer(other'[f])
      BY <2>0, <2>2, <3>1 DEF ExecuteUndispatch, TypeOK, LocalsOK, Knows, KeepsLink,
                              HasNoLink, Leaving, Joining, Peer
    <3>3. Knows(e, L)'
      BY <2>0, <2>2, <3>1 DEF ExecuteUndispatch, Take, Held, GoTo, TypeOK, LocalsOK,
                              Leaving, Knows, KeepsLink, HasNoLink, Joining, Peer
    <3>4. QED
      BY <3>2, <3>3 DEF Agrees
  <2>3. CASE ExecuteTake(e)
    <3>1. /\ self'[e] = self[e] /\ o'[e] = other[self[e]]
          /\ other' = [other EXCEPT ![self[e]] = Null]
          /\ at'[e] \in {"empty", "put back"}
      BY <2>0, <2>3 DEF ExecuteTake, Take, Fail, GoTo, TypeOK
    <3>2. \A f \in Ends : other'[f] # Null => L[f] = Peer(other'[f])
      BY <2>0, <2>3, <3>1 DEF ExecuteTake, TypeOK, LocalsOK, Knows, KeepsLink,
                              HasNoLink, Leaving, Joining, Peer
    <3>3. Knows(e, L)'
      BY <2>0, <2>3, <3>1 DEF ExecuteTake, Take, Held, GoTo, TypeOK, LocalsOK,
                              Leaving, Knows, KeepsLink, HasNoLink, Joining, Peer
    <3>4. QED
      BY <3>2, <3>3 DEF Agrees
  <2>4. CASE ExecuteEmpty(e)
    <3>1. /\ self'[e] = self[e] /\ o'[e] = o[e]
          /\ other' = [other EXCEPT ![self[e]] = Empty]
          /\ at'[e] \in {"next"}
      BY <2>0, <2>4 DEF ExecuteEmpty, Take, Fail, GoTo, TypeOK
    <3>2. \A f \in Ends : other'[f] # Null => L[f] = Peer(other'[f])
      <4>1. L[self[e]] = Null /\ Peer(Empty) = Null
        BY <2>0, <2>4 DEF ExecuteEmpty, Knows, HasNoLink, Peer
      <4>2. QED
        BY <3>1, <4>1 DEF TypeOK
    <3>3. Knows(e, L)'
      BY <2>0, <2>4, <3>1 DEF ExecuteEmpty, Take, Held, GoTo, TypeOK, LocalsOK,
                              Leaving, Knows, KeepsLink, HasNoLink, Joining, Peer
    <3>4. QED
      BY <3>2, <3>3 DEF Agrees
  <2>5. CASE ExecuteNext(e)
    <3>1. /\ self'[e] = self[e] /\ o'[e] = o[e]
          /\ UNCHANGED other
          /\ at'[e] \in {"idle", "told"}
      BY <2>0, <2>5 DEF ExecuteNext, Take, Fail, GoTo, TypeOK
    <3>2. \A f \in Ends : other'[f] # Null => L[f] = Peer(other'[f])
      BY <2>0, <2>5, <3>1 DEF ExecuteNext, TypeOK, LocalsOK, Knows, KeepsLink,
                              HasNoLink, Leaving, Joining, Peer
    <3>3. Knows(e, L)'
      BY <2>0, <2>5, <3>1 DEF ExecuteNext, Take, Held, GoTo, TypeOK, LocalsOK,
                              Leaving, Knows, KeepsLink, HasNoLink, Joining, Peer
    <3>4. QED
      BY <3>2, <3>3 DEF Agrees
  <2>6. CASE ExecuteDisconnected(e)
    <3>1. /\ self'[e] = self[e] /\ o'[e] = o[e]
          /\ UNCHANGED other
          /\ at'[e] \in {"idle"}
      BY <2>0, <2>6 DEF ExecuteDisconnected, Take, Fail, GoTo, TypeOK
    <3>2. \A f \in Ends : other'[f] # Null => L[f] = Peer(other'[f])
      BY <2>0, <2>6, <3>1 DEF ExecuteDisconnected, TypeOK, LocalsOK, Knows, KeepsLink,
                              HasNoLink, Leaving, Joining, Peer
    <3>3. Knows(e, L)'
      BY <2>0, <2>6, <3>1 DEF ExecuteDisconnected, Take, Held, GoTo, TypeOK, LocalsOK,
                              Leaving, Knows, KeepsLink, HasNoLink, Joining, Peer
    <3>4. QED
      BY <3>2, <3>3 DEF Agrees
  <2>7. CASE PutBack(e)
    <3>1. /\ self'[e] = self[e] /\ o'[e] = o[e]
          /\ other' = [other EXCEPT ![self[e]] = o[e]]
          /\ at'[e] \in {"idle"}
      BY <2>0, <2>7 DEF PutBack, Take, Fail, GoTo, TypeOK
    <3>2. \A f \in Ends : other'[f] # Null => L[f] = Peer(other'[f])
      <4>1. L[self[e]] = Peer(o[e])
        BY <2>0, <2>7 DEF PutBack, Knows, KeepsLink
      <4>2. QED
        BY <3>1, <4>1 DEF TypeOK
    <3>3. Knows(e, L)'
      BY <2>0, <2>7, <3>1 DEF PutBack, Take, Held, GoTo, TypeOK, LocalsOK, Leaving,
                              Knows, KeepsLink, HasNoLink, Joining, Peer
    <3>4. QED
      BY <3>2, <3>3 DEF Agrees
  <2>8. QED
    BY <1>4, <2>1, <2>2, <2>3, <2>4, <2>5, <2>6, <2>7 DEF Executes
<1>5. QED
  BY <1>1, <1>2, <1>3, <1>4, OneActs DEF Next, Threads
------------------------------------------------------------------------------
\* Nothing new in what a thread does about saying good-bye, or about linking.
Telling == {"release", "flag", "dispatch bye"}

NothingNew(t) ==
    /\ UNCHANGED queue
    /\ at'[t] \in Telling \cup Linking =>
          /\ self'[t] = self[t] /\ o'[t] = o[t]
          /\ at'[t] \in Telling => at[t] \in Telling
          /\ at'[t] \in Linking => at[t] \in Linking
    /\ at'[t] \in Executing => at[t] \in Executing

LEMMA PartedKept ==
    ASSUME TypeOK, LocalsOK, NEW L, Matched(L), Parted(L), Next, ~ rejoined',
           \A t \in Clients : ~ ConnectOwn(t) /\ ~ DisconnectTell(t)
    PROVE  Parted(L)'
<1>0. /\ \A u \in Clients : u \in Threads /\ u \notin Ends
      /\ \A e \in Ends : e \in Threads /\ e \notin Clients
  BY EndsAssumption DEF Threads
<1>p. \A e \in Ends : Pending(e) <=> \/ \E u \in Clients : o[u] = e /\ at[u] \in Telling
                                   \/ Contains(queue[e], Bye)
                                   \/ at[e] \in Executing
  BY DEF Pending, Telling, Executing
<1>q. \A e \in Ends : Pending(e)' <=> \/ \E u \in Clients : o'[u] = e /\ at'[u] \in Telling
                                    \/ Contains(queue'[e], Bye)
                                    \/ at'[e] \in Executing
  BY DEF Pending, Telling, Executing
<1>1. ASSUME NEW t \in Threads, Stays(t), NothingNew(t) PROVE Parted(L)'
  <2>1. \A u \in Clients : at'[u] \in Telling => at[u] \in Telling /\ o'[u] = o[u]
    BY <1>0, <1>1 DEF Stays, NothingNew
  <2>2. \A u \in Clients : at'[u] \in Linking =>
            at[u] \in Linking /\ o'[u] = o[u] /\ self'[u] = self[u]
    BY <1>0, <1>1 DEF Stays, NothingNew
  <2>3. \A e \in Ends : at'[e] \in Executing => at[e] \in Executing
    BY <1>0, <1>1 DEF Stays, NothingNew
  <2>4. \A e \in Ends : Pending(e)' => Pending(e)
    BY <1>1, <1>p, <1>q, <2>1, <2>3 DEF NothingNew
  <2>5. QED
    BY <1>1, <2>2, <2>3, <2>4 DEF Parted, NothingNew
<1>2. ASSUME NEW t \in Clients, Call(t) PROVE NothingNew(t)
  BY <1>0, <1>2 DEF Call, CallMethod, CallConnect, NothingNew, Telling, Linking,
                    Executing, GoTo,
                    TypeOK
<1>3. ASSUME NEW t \in Clients, ConnectTake(t) PROVE Parted(L)'
  <2>1. Stays(t) /\ t \in Threads
    BY <1>0, <1>3, OneActs DEF Acts
  <2>2. /\ UNCHANGED <<queue, self, o>>
        /\ at[t] = "connect" /\ at'[t] \in {"idle", "connect peer"}
        /\ ~ rejoined /\ ~ Pending(self[t]) /\ ~ Pending(o[t])
    BY <1>3, <2>1 DEF ConnectTake, GoTo, TypeOK
  <2>3. \A u \in Clients : at'[u] \in Telling => at[u] \in Telling
    BY <1>0, <2>1, <2>2 DEF Stays, Telling
  <2>4. \A e \in Ends : at'[e] = at[e]
    BY <1>0, <2>1 DEF Stays
  <2>5. \A e \in Ends : Pending(e)' => Pending(e)
    BY <1>p, <1>q, <2>2, <2>3, <2>4
  <2>6. \A u \in Clients : at'[u] \in Linking => u = t \/ at[u] \in Linking
    BY <1>0, <2>1 DEF Stays
  <2>7. QED
    BY <2>2, <2>4, <2>5, <2>6 DEF Parted
<1>4. ASSUME NEW t \in Clients, Send(t) PROVE Parted(L)'
  <2>1. Stays(t) /\ t \in Threads
    BY <1>0, <1>4, OneActs DEF Acts
  <2>2. /\ o[t] \in Ends /\ at[t] = "dispatch" /\ at'[t] = "put back" /\ UNCHANGED <<self, o>>
        /\ queue' = [queue EXCEPT ![o[t]] = Append(queue[o[t]], Op)]
    BY <1>4, <2>1 DEF Send, GoTo, TypeOK, LocalsOK
  <2>3. ~ Pending(o[t])
    <3>1. L[self[t]] = o[t] /\ self[t] \in Ends
      BY <2>1, <2>2 DEF Matched, Knows, KeepsLink, Peer, TypeOK
    <3>2. L[o[t]] = self[t]
      BY <2>2, <3>1, Marks DEF Matched
    <3>3. QED
      BY <2>2, <3>1, <3>2, Marks DEF Parted
  <2>4. \A u \in Clients : at'[u] \in Telling \cup Linking => at'[u] = at[u]
    BY <2>1, <2>2 DEF Stays, Telling, Linking, Threads
  <2>5. \A e \in Ends : at'[e] = at[e]
    BY <1>0, <2>1 DEF Stays
  <2>6. \A e \in Ends : Contains(queue'[e], Bye) => Contains(queue[e], Bye)
    <3>1. /\ queue'[o[t]] = Append(queue[o[t]], Op) /\ queue[o[t]] \in Seq({Op, Bye})
          /\ \A e \in Ends : e # o[t] => queue'[e] = queue[e]
      BY <2>2 DEF TypeOK
    <3>2. Op # Bye
      BY DEF Op, Bye
    <3>3. Contains(queue'[o[t]], Bye) => Contains(queue[o[t]], Bye)
      BY <3>1, <3>2, QueueGrows
    <3>4. QED
      BY <3>1, <3>3
  <2>7. \A e \in Ends : Pending(e)' => Pending(e)
    BY <1>p, <1>q, <2>2, <2>4, <2>5, <2>6
  <2>8. \A e \in Ends : OpsFirst(queue'[e])
    <3>1. ~ Contains(queue[o[t]], Bye)
      BY <1>p, <2>2, <2>3
    <3>2. QED
      BY <2>2, <3>1, QueueGrows DEF Parted, TypeOK
  <2>9. \A e \in Ends : at'[e] \in Executing => ~ Contains(queue'[e], Op)
    <3>1. at[o[t]] \notin Executing
      BY <1>p, <2>2, <2>3
    <3>2. \A e \in Ends : e # o[t] => queue'[e] = queue[e]
      BY <2>2 DEF TypeOK
    <3>3. QED
      BY <2>5, <3>1, <3>2 DEF Parted
  <2>10. QED
    BY <2>2, <2>4, <2>7, <2>8, <2>9 DEF Parted
<1>5. ASSUME NEW t \in Clients, DisconnectDispatch(t) PROVE Parted(L)'
  <2>0. Op # Bye
    BY DEF Op, Bye
  <2>1. Stays(t) /\ t \in Threads
    BY <1>0, <1>5, OneActs DEF Acts
  <2>2. /\ o[t] \in Ends /\ at[t] = "dispatch bye" /\ at'[t] = "idle" /\ UNCHANGED <<self, o>>
        /\ queue' = [queue EXCEPT ![o[t]] = Append(queue[o[t]], Bye)]
    BY <1>5, <2>1 DEF DisconnectDispatch, GoTo, TypeOK, LocalsOK, Leaving
  <2>3. Pending(o[t])
    BY <1>p, <2>2 DEF Telling
  <2>4. \A u \in Clients : at'[u] \in Telling \cup Linking => at'[u] = at[u]
    BY <2>1, <2>2 DEF Stays, Telling, Linking, Threads
  <2>5. \A e \in Ends : at'[e] = at[e]
    BY <1>0, <2>1 DEF Stays
  <2>6. /\ queue'[o[t]] = Append(queue[o[t]], Bye) /\ queue[o[t]] \in Seq({Op, Bye})
        /\ \A e \in Ends : e # o[t] => queue'[e] = queue[e]
    BY <2>2 DEF TypeOK
  <2>7. Contains(queue'[o[t]], Op) => Contains(queue[o[t]], Op)
    BY <2>0, <2>6, QueueGrows
  <2>8. OpsFirst(queue[o[t]]) => OpsFirst(queue'[o[t]])
    BY <2>0, <2>6, QueueGrows
  <2>9. ASSUME NEW e \in Ends PROVE Pending(e)' => Pending(e)
    <3>1. CASE e = o[t]
      BY <2>3, <3>1
    <3>2. CASE e # o[t]
      BY <1>p, <1>q, <2>2, <2>4, <2>5, <2>6, <3>2
    <3>3. QED
      BY <3>1, <3>2
  <2>10. ASSUME NEW e \in Ends
         PROVE  OpsFirst(queue'[e]) /\ (at'[e] \in Executing => ~ Contains(queue'[e], Op))
    BY <2>5, <2>6, <2>7, <2>8 DEF Parted
  <2>11. QED
    BY <2>2, <2>4, <2>9, <2>10 DEF Parted
<1>6. ASSUME NEW e \in Ends, Run(e) PROVE Parted(L)'
  <2>1. Stays(e) /\ e \in Threads
    BY <1>0, <1>6, OneActs DEF Executes
  <2>2. /\ queue[e] # <<>> /\ queue' = [queue EXCEPT ![e] = Tail(queue[e])]
        /\ at[e] = "idle" /\ at'[e] = IF Head(queue[e]) = Bye THEN "undispatch" ELSE "idle"
        /\ UNCHANGED <<self, o>>
    BY <1>6, <2>1 DEF Run, GoTo, TypeOK
  <2>3. \A u \in Clients : at'[u] = at[u]
    BY <1>0, <2>1 DEF Stays
  <2>4. /\ \A f \in Ends : OpsFirst(queue'[f]) /\ \A x \in {Op, Bye} :
                Contains(queue'[f], x) => Contains(queue[f], x)
        /\ Head(queue[e]) = Bye => Contains(queue[e], Bye) /\ ~ Contains(queue'[e], Op)
    BY <2>2, QueueShrinks DEF Parted, TypeOK
  <2>5. \A f \in Ends : f # e => at'[f] = at[f]
    BY <1>0, <2>1 DEF Stays
  <2>6. at'[e] \in Executing => Head(queue[e]) = Bye
    BY <2>2 DEF Executing
  <2>7. \A f \in Ends : Pending(f)' => Pending(f)
    BY <1>p, <1>q, <2>2, <2>3, <2>4, <2>5, <2>6
  <2>8. QED
    BY <2>2, <2>3, <2>4, <2>5, <2>6, <2>7 DEF Parted
<1>7. ASSUME NEW t \in Clients,
             \/ SendTake(t) \/ PutBack(t) \/ ConnectTakePeer(t) \/ ConnectPeer(t)
             \/ DisconnectTake(t) \/ DisconnectOrder(t) \/ DisconnectWait(t) \/ DisconnectTry(t)
             \/ DisconnectLetGo(t) \/ DisconnectCheck(t) \/ DisconnectRelease(t) \/ DisconnectFlag(t)
      PROVE  NothingNew(t)
  <2> USE <1>0 DEF TypeOK, GoTo, Fail, NothingNew, Telling, Linking, Executing
  <2>1. CASE SendTake(t)
    BY <2>1 DEF SendTake
  <2>2. CASE PutBack(t)
    BY <2>2 DEF PutBack
  <2>3. CASE ConnectTakePeer(t)
    BY <2>3 DEF ConnectTakePeer
  <2>4. CASE ConnectPeer(t)
    BY <2>4 DEF ConnectPeer
  <2>5. CASE DisconnectTake(t)
    BY <2>5 DEF DisconnectTake
  <2>6. CASE DisconnectOrder(t)
    BY <2>6 DEF DisconnectOrder
  <2>7. CASE DisconnectWait(t)
    BY <2>7 DEF DisconnectWait
  <2>8. CASE DisconnectTry(t)
    BY <2>8 DEF DisconnectTry
  <2>9. CASE DisconnectLetGo(t)
    BY <2>9 DEF DisconnectLetGo
  <2>10. CASE DisconnectCheck(t)
    BY <2>10 DEF DisconnectCheck
  <2>11. CASE DisconnectRelease(t)
    BY <2>11 DEF DisconnectRelease
  <2>12. CASE DisconnectFlag(t)
    BY <2>12 DEF DisconnectFlag
  <2>13. QED
    BY <1>7, <2>1, <2>2, <2>3, <2>4, <2>5, <2>6, <2>7, <2>8, <2>9, <2>10, <2>11, <2>12
<1>8. ASSUME NEW e \in Ends,
             \/ ExecuteUndispatch(e) \/ ExecuteTake(e) \/ ExecuteEmpty(e) \/ ExecuteNext(e)
             \/ ExecuteDisconnected(e) \/ PutBack(e)
      PROVE  NothingNew(e)
  <2> USE <1>0 DEF TypeOK, GoTo, Fail, NothingNew, Telling, Linking, Executing
  <2>1. CASE ExecuteUndispatch(e)
    BY <2>1 DEF ExecuteUndispatch
  <2>2. CASE ExecuteTake(e)
    BY <2>2 DEF ExecuteTake
  <2>3. CASE ExecuteEmpty(e)
    BY <2>3 DEF ExecuteEmpty
  <2>4. CASE ExecuteNext(e)
    BY <2>4 DEF ExecuteNext
  <2>5. CASE ExecuteDisconnected(e)
    BY <2>5 DEF ExecuteDisconnected
  <2>6. CASE PutBack(e)
    BY <2>6 DEF PutBack
  <2>7. QED
    BY <1>8, <2>1, <2>2, <2>3, <2>4, <2>5, <2>6
<1>9. ASSUME NEW t \in Clients, Acts(t) PROVE Parted(L)'
  BY <1>0, <1>1, <1>3, <1>4, <1>5, <1>7, <1>9, OneActs DEF Acts
<1>10. ASSUME NEW e \in Ends, Executes(e) PROVE Parted(L)'
  BY <1>0, <1>1, <1>6, <1>8, <1>10, OneActs DEF Executes
<1>11. QED
  BY <1>0, <1>1, <1>2, <1>9, <1>10, OneActs DEF Next
------------------------------------------------------------------------------
\* connect() links two ends that nobody is linked to, and holds both when it writes the
\* first of the pointers.
LEMMA LinkingKeeps ==
    ASSUME TypeOK, LocalsOK, Locking, Crossing, NEW L, Matched(L), ~ rejoined => Parted(L),
           NEW t \in Clients, ConnectOwn(t)
    PROVE  \E K : Matched(K)' /\ (~ rejoined' => Parted(K)')
<1>0. /\ \A u \in Clients : u \in Threads /\ u \notin Ends
      /\ \A e \in Ends : e \in Threads
  BY EndsAssumption DEF Threads
<1>a. PICK a, b : a = self[t] /\ b = o[t]
  OBVIOUS
<1>1. /\ a \in Ends /\ b \in Ends /\ a # b
      /\ at[t] = "set own" /\ at'[t] = "set peer"
      /\ other' = [other EXCEPT ![a] = b]
      /\ UNCHANGED <<queue, self, o, rejoined>>
  BY <1>0, <1>a DEF ConnectOwn, GoTo, TypeOK, LocalsOK, Joining
<1>2. Stays(t)
  BY <1>0, OneActs DEF Acts
<1>3. /\ L \in [Ends -> Ends \cup {Null}]
      /\ L[a] = Null /\ L[b] = Null
      /\ \A e \in Ends : L[e] # a /\ L[e] # b
  <2>1. /\ L \in [Ends -> Ends \cup {Null}] /\ \A e \in Ends : L[e] # Null => L[L[e]] = e
        /\ L[a] = Null /\ L[b] = Null
    BY <1>0, <1>1, <1>a DEF Matched, Knows, HasNoLink
  <2>2. QED
    BY <1>1, <2>1, Marks
<1>4. /\ Holds(t, a) /\ Holds(t, b) /\ other[a] = Null /\ other[b] = Null
      /\ \A u \in Threads : u # t => ~ Holds(u, a) /\ ~ Holds(u, b)
  BY <1>0, <1>1, <1>a DEF Locking, Holds, HoldsOwn, HoldsPeer
<1>k. PICK K : K = [L EXCEPT ![a] = b, ![b] = a]
  OBVIOUS
<1>5. /\ K \in [Ends -> Ends \cup {Null}] /\ K[a] = b /\ K[b] = a
      /\ \A e \in Ends : e # a /\ e # b => K[e] = L[e]
  BY <1>1, <1>3, <1>k
<1>6. Matched(K)'
  <2>1. \A e \in Ends : K[e] # Null => K[K[e]] = e
    BY <1>1, <1>3, <1>5, Marks DEF Matched
  <2>2. \A e \in Ends : other'[e] # Null => K[e] = Peer(other'[e])
    <3>1. other'[a] = b /\ \A e \in Ends : e # a => other'[e] = other[e]
      BY <1>1 DEF TypeOK
    <3>2. QED
      BY <1>1, <1>4, <1>5, <3>1 DEF Matched, Peer
  <2>3. Knows(t, K)'
    BY <1>1, <1>5, <1>a DEF Knows, KeepsLink, HasNoLink, Joining
  <2>4. ASSUME NEW u \in Threads, u # t PROVE Knows(u, K)'
    <3>1. /\ at'[u] = at[u] /\ self'[u] = self[u] /\ o'[u] = o[u] /\ self[u] \in Ends
          /\ Knows(u, L)
      BY <1>2, <2>4 DEF Stays, Matched, TypeOK
    <3>2. at[u] \in HoldsOwn => self[u] # a /\ self[u] # b
      BY <1>4, <2>4 DEF Holds
    <3>3. at[u] \in HoldsPeer => o[u] # a /\ o[u] # b /\ o[u] \in Ends
      BY <1>4, <2>4 DEF Holds, HoldsPeer, LocalsOK, Joining, Leaving
    <3>4. at[u] \in KeepsLink \cup HasNoLink => K[self[u]] = L[self[u]]
      BY <1>5, <3>1, <3>2 DEF HoldsOwn, KeepsLink, HasNoLink
    <3>5. at[u] \in {"set own", "set peer"} => K[o[u]] = L[o[u]]
      BY <1>5, <3>3 DEF HoldsPeer
    <3>6. ASSUME at[u] \in Joining
          PROVE  K[self[u]] \in {Null, o[u]} /\ K[o[u]] \in {Null, self[u]}
      <4>1. u \in Clients /\ o[u] \in Ends
        BY <2>4, <3>6 DEF TypeOK, LocalsOK, Joining, EndLabels, Threads
      <4>2. CASE {self[u], o[u]} \cap {a, b} = {}
        <5>1. K[self[u]] = L[self[u]] /\ K[o[u]] = L[o[u]]
          BY <1>5, <3>1, <4>1, <4>2
        <5>2. QED
          BY <3>1, <3>6, <5>1 DEF Knows
      <4>3. CASE {self[u], o[u]} \cap {a, b} # {}
        <5>1. self[u] = b /\ o[u] = a
          BY <1>1, <1>a, <2>4, <3>6, <4>1, <4>3 DEF Crossing, Joining
        <5>2. QED
          BY <1>5, <5>1
      <4>4. QED
        BY <4>2, <4>3
    <3>7. QED
      BY <3>1, <3>4, <3>5, <3>6 DEF Knows
  <2>5. QED
    BY <1>5, <2>1, <2>2, <2>3, <2>4 DEF Matched
<1>7. ASSUME ~ rejoined PROVE Parted(K)'
  <2>1. Parted(L)
    BY <1>7
  <2>2. \A u \in Clients : at'[u] \in Linking => at[u] \in Linking
    BY <1>0, <1>1, <1>2 DEF Stays, Linking
  <2>3. \A u \in Clients : at'[u] \in {"release", "flag", "dispatch bye"} => at'[u] = at[u]
    BY <1>0, <1>1, <1>2 DEF Stays
  <2>4. \A e \in Ends : at'[e] = at[e]
    BY <1>0, <1>2 DEF Stays
  <2>5. \A e \in Ends : Pending(e)' => Pending(e)
    BY <1>1, <2>3, <2>4 DEF Pending
  <2>6. ~ Pending(a) /\ ~ Pending(b)
    BY <1>1, <1>a, <2>1 DEF Parted, Linking
  <2>7. \A e \in Ends : Pending(e) => K[e] = L[e]
    BY <1>5, <2>6
  <2>8. QED
    BY <1>1, <2>1, <2>2, <2>4, <2>5, <2>7 DEF Parted
<1>8. QED
  BY <1>1, <1>6, <1>7

\* disconnect() holds both ends of a link when it takes it apart.
LEMMA UnlinkingKeeps ==
    ASSUME TypeOK, LocalsOK, Locking, NEW L, Matched(L), ~ rejoined => Parted(L),
           NEW t \in Clients, DisconnectTell(t)
    PROVE  \E K : Matched(K)' /\ (~ rejoined' => Parted(K)')
<1>0. /\ \A u \in Clients : u \in Threads /\ u \notin Ends
      /\ \A e \in Ends : e \in Threads
  BY EndsAssumption DEF Threads
<1>a. PICK a, b : a = self[t] /\ b = o[t]
  OBVIOUS
<1>1. /\ a \in Ends /\ b \in Ends /\ a # b
      /\ at[t] = "tell" /\ at'[t] = "release"
      /\ other' = [other EXCEPT ![b] = Disconnected]
      /\ UNCHANGED <<queue, self, o, rejoined>>
  BY <1>0, <1>a DEF DisconnectTell, GoTo, TypeOK, LocalsOK, Leaving
<1>2. Stays(t)
  BY <1>0, OneActs DEF Acts
<1>3. /\ L \in [Ends -> Ends \cup {Null}]
      /\ L[a] = b /\ L[b] = a
      /\ \A e \in Ends : L[e] = a => e = b
      /\ \A e \in Ends : L[e] = b => e = a
  <2>1. /\ L \in [Ends -> Ends \cup {Null}] /\ \A e \in Ends : L[e] # Null => L[L[e]] = e
        /\ L[a] = b
    BY <1>0, <1>1, <1>a DEF Matched, Knows, KeepsLink, Peer
  <2>2. QED
    BY <1>1, <2>1, Marks
<1>4. /\ Holds(t, a) /\ Holds(t, b) /\ other[a] = Null /\ other[b] = Null
      /\ \A u \in Threads : u # t => ~ Holds(u, a) /\ ~ Holds(u, b)
  BY <1>0, <1>1, <1>a DEF Locking, Holds, HoldsOwn, HoldsPeer
<1>k. PICK K : K = [L EXCEPT ![a] = Null, ![b] = Null]
  OBVIOUS
<1>5. /\ K \in [Ends -> Ends \cup {Null}] /\ K[a] = Null /\ K[b] = Null
      /\ \A e \in Ends : e # a /\ e # b => K[e] = L[e]
  BY <1>1, <1>3, <1>k
<1>6. Matched(K)'
  <2>1. \A e \in Ends : K[e] # Null => K[K[e]] = e
    BY <1>1, <1>3, <1>5, Marks DEF Matched
  <2>2. \A e \in Ends : other'[e] # Null => K[e] = Peer(other'[e])
    <3>1. other'[b] = Disconnected /\ \A e \in Ends : e # b => other'[e] = other[e]
      BY <1>1 DEF TypeOK
    <3>2. Peer(Disconnected) = Null
      BY Marks DEF Peer
    <3>3. QED
      BY <1>1, <1>4, <1>5, <3>1, <3>2 DEF Matched
  <2>3. Knows(t, K)'
    BY <1>1, <1>5, <1>a DEF Knows, KeepsLink, HasNoLink, Joining
  <2>4. ASSUME NEW u \in Threads, u # t PROVE Knows(u, K)'
    <3>1. /\ at'[u] = at[u] /\ self'[u] = self[u] /\ o'[u] = o[u] /\ self[u] \in Ends
          /\ Knows(u, L)
      BY <1>2, <2>4 DEF Stays, Matched, TypeOK
    <3>2. at[u] \in HoldsOwn => self[u] # a /\ self[u] # b
      BY <1>4, <2>4 DEF Holds
    <3>3. at[u] \in HoldsPeer => o[u] # a /\ o[u] # b /\ o[u] \in Ends
      BY <1>4, <2>4 DEF Holds, HoldsPeer, LocalsOK, Joining, Leaving
    <3>4. at[u] \in KeepsLink \cup HasNoLink => K[self[u]] = L[self[u]]
      BY <1>5, <3>1, <3>2 DEF HoldsOwn, KeepsLink, HasNoLink
    <3>5. at[u] \in {"set own", "set peer"} => K[o[u]] = L[o[u]]
      BY <1>5, <3>3 DEF HoldsPeer
    <3>6. ASSUME at[u] \in Joining
          PROVE  K[self[u]] \in {Null, o[u]} /\ K[o[u]] \in {Null, self[u]}
      <4>1. o[u] \in Ends
        BY <2>4, <3>6 DEF LocalsOK
      <4>2. \A e \in Ends : K[e] = L[e] \/ K[e] = Null
        BY <1>5
      <4>3. QED
        BY <3>1, <3>6, <4>1, <4>2 DEF Knows
    <3>7. QED
      BY <3>1, <3>4, <3>5, <3>6 DEF Knows
  <2>5. QED
    BY <1>5, <2>1, <2>2, <2>3, <2>4 DEF Matched
<1>7. ASSUME ~ rejoined PROVE Parted(K)'
  <2>1. Parted(L)
    BY <1>7
  <2>2. \A u \in Clients : at'[u] \in Linking => at[u] \in Linking /\ u # t
    BY <1>0, <1>1, <1>2 DEF Stays, Linking
  <2>3. \A u \in Clients :
            at'[u] \in {"release", "flag", "dispatch bye"} => at'[u] = at[u] \/ u = t
    BY <1>0, <1>2 DEF Stays
  <2>4. \A e \in Ends : at'[e] = at[e]
    BY <1>0, <1>2 DEF Stays
  <2>5. \A e \in Ends : Pending(e)' => Pending(e) \/ e = b
    BY <1>1, <1>a, <2>3, <2>4 DEF Pending
  <2>6. ASSUME NEW u \in Clients, u # t, at[u] \in Linking PROVE b # self[u] /\ b # o[u]
    <3>1. /\ u \in Threads /\ self[u] \in Ends /\ o[u] \in Ends /\ Knows(u, L)
      BY <1>0, <2>6 DEF Matched, TypeOK, LocalsOK, Joining, Linking
    <3>2. at[u] \in HoldsOwn => self[u] # a /\ self[u] # b
      BY <1>4, <2>6, <3>1 DEF Holds
    <3>3. at[u] \in HoldsPeer => o[u] # a /\ o[u] # b
      BY <1>4, <2>6, <3>1 DEF Holds
    <3>4. CASE at[u] = "connect peer"
      <4>1. self[u] # a /\ self[u] # b
        BY <3>2, <3>4 DEF HoldsOwn
      <4>2. L[o[u]] \in {Null, self[u]}
        BY <3>1, <3>4 DEF Knows, Joining
      <4>3. QED
        BY <1>1, <1>3, <4>1, <4>2, Marks
    <3>5. CASE at[u] = "set own"
      BY <3>2, <3>3, <3>5 DEF HoldsOwn, HoldsPeer
    <3>6. CASE at[u] = "set peer"
      <4>1. L[o[u]] = self[u] /\ o[u] # a /\ o[u] # b
        BY <3>1, <3>3, <3>6 DEF Knows, HoldsPeer
      <4>2. QED
        BY <1>3, <3>1, <4>1
    <3>7. QED
      BY <2>6, <3>4, <3>5, <3>6 DEF Linking
  <2>7. \A e \in Ends : Pending(e) => K[e] = Null
    BY <1>5, <2>1 DEF Parted
  <2>8. QED
    BY <1>1, <1>5, <2>1, <2>2, <2>4, <2>5, <2>6, <2>7 DEF Parted
<1>8. QED
  BY <1>1, <1>6, <1>7
------------------------------------------------------------------------------
\* A set in which all the elements are the same.
LEMMA AtMostOne ==
    ASSUME NEW S, \A x, y \in S : x = y
    PROVE  Cardinality(S) = 0 \/ Cardinality(S) = 1
<1>1. CASE S = {}
  BY <1>1, FS_EmptySet
<1>2. CASE S # {}
  <2>1. PICK x : S = {x}
    BY <1>2
  <2>2. QED
    BY <2>1, FS_Singleton
<1>3. QED
  BY <1>1, <1>2

\* What was connected anew stays so in the books.
LEMMA RejoinedStays ==
    ASSUME TypeOK, Next, rejoined
    PROVE  rejoined'
<1> USE DEF Fail
<1>1. ASSUME NEW t, Acts(t) PROVE rejoined'
  BY <1>1 DEF Acts, SendTake, Send, PutBack, ConnectTake, ConnectTakePeer, ConnectOwn,
              ConnectPeer,
              DisconnectTake, DisconnectOrder, DisconnectWait, DisconnectTry, DisconnectLetGo,
              DisconnectCheck, DisconnectTell, DisconnectRelease, DisconnectFlag,
              DisconnectDispatch
<1>2. ASSUME NEW e, Executes(e) PROVE rejoined'
  BY <1>2 DEF Executes, Run, ExecuteUndispatch, ExecuteTake, ExecuteEmpty, ExecuteNext,
              ExecuteDisconnected, PutBack
<1>3. ASSUME NEW t, Call(t) PROVE rejoined'
  BY <1>3 DEF Call, CallMethod, CallConnect
<1>4. QED
  BY <1>1, <1>2, <1>3 DEF Next

\* The invariant holds in new ends and in two that are connected, and every step
\* keeps it.
THEOREM LinkInvariance == SafeSpec => []LinkInv
<1>1. Init => LinkInv
  <2> SUFFICES ASSUME Init PROVE LinkInv
    OBVIOUS
  <2>1. /\ \A e \in Ends : e \in Threads /\ e \notin Clients
        /\ \A u \in Clients : u \in Threads
    BY EndsAssumption DEF Threads
  <2>2. /\ \A t \in Threads : at[t] = "idle"
        /\ \A e \in Ends : queue[e] = <<>> /\ dispatched[e] = FALSE
    BY <2>1 DEF Init
  <2>3. TypeOK /\ LocalsOK
    <3>1. /\ other \in [Ends -> Ends \cup {Null, Empty, Disconnected}]
          /\ \A e \in Ends : other[e] # e
      BY Marks DEF Init
    <3>2. self \in [Threads -> Ends] /\ \A e \in Ends : self[e] = e
      <4>1. \A t \in Threads \ Ends : (CHOOSE e \in Ends : TRUE) \in Ends
        BY EndsAssumption
      <4>2. QED
        BY <2>1, <4>1 DEF Init
    <3>3. /\ at \in [Threads -> ClientLabels \cup EndLabels]
          /\ \A t \in Threads : at[t] \in ClientLabels /\ at[t] \in EndLabels
      BY <2>2 DEF Init, ClientLabels, EndLabels
    <3>4. /\ o \in [Threads -> Ends \cup {Null, Empty, Disconnected}]
          /\ calls \in [Clients -> 0 .. Calls]
          /\ dispatched \in [Ends -> BOOLEAN] /\ queue \in [Ends -> Seq({Op, Bye})]
          /\ rejoined \in BOOLEAN /\ crossed \in BOOLEAN
      <4>1. <<>> \in Seq({Op, Bye}) /\ Calls \in 0 .. Calls
        BY EndsAssumption
      <4>2. QED
        BY <4>1 DEF Init
    <3>5. TypeOK
      BY <2>1, <3>1, <3>2, <3>3, <3>4 DEF TypeOK
    <3>6. LocalsOK
      BY <2>2, <3>1 DEF LocalsOK, Joining, Leaving
    <3>7. QED
      BY <3>5, <3>6
  <2>4. Locking /\ Crossing
    BY <2>1, <2>2 DEF Locking, Crossing, Holds, HoldsOwn, HoldsPeer, Joining
  <2>5. \A e \in Ends : Once(queue[e]) /\ OpsFirst(queue[e]) /\ \A x : ~ Contains(queue[e], x)
    BY <2>2 DEF Once, OpsFirst, Contains
  <2>6. ByeOnce
    BY <2>1, <2>2, <2>5 DEF ByeOnce, Queues
  <2>7. \E L : Matched(L)
    <3>1. PICK L : L = [e \in Ends |-> Peer(other[e])]
      OBVIOUS
    <3>2. L \in [Ends -> Ends \cup {Null}] /\ \A e \in Ends : L[e] # Null => L[L[e]] = e
      <4>1. CASE other = [e \in Ends |-> Empty]
        BY <3>1, <4>1, Marks DEF Peer
      <4>2. CASE \E a, b \in Ends : /\ a # b /\ {a, b} \in Mates
                                    /\ other = [e \in Ends |-> IF e = a THEN b
                                                               ELSE IF e = b THEN a ELSE Empty]
        BY <3>1, <4>2, Marks DEF Peer
      <4>3. QED
        BY <4>1, <4>2 DEF Init
    <3>3. \A t \in Threads : Knows(t, L)
      BY <2>2 DEF Knows, KeepsLink, HasNoLink, Joining
    <3>4. QED
      BY <3>1, <3>2, <3>3 DEF Matched
  <2>8. \A L : Matched(L) => Parted(L)
    <3>1. \A e \in Ends : ~ Pending(e)
      BY <2>1, <2>2, <2>5 DEF Pending
    <3>2. QED
      BY <2>1, <2>2, <2>5, <3>1 DEF Parted, Executing
  <2>9. QED
    BY <2>3, <2>4, <2>6, <2>7, <2>8 DEF LinkInv
<1>2. LinkInv /\ [Next]_vars => LinkInv'
  <2> SUFFICES ASSUME LinkInv, [Next]_vars PROVE LinkInv'
    OBVIOUS
  <2>1. CASE Next
    <3>1. TypeOK' /\ LocalsOK' /\ Locking' /\ Crossing' /\ ByeOnce'
      BY <2>1, TypesKept, LockingKept, CrossingKept, ByeKept DEF LinkInv
    <3>2. PICK L : Matched(L) /\ (~ rejoined => Parted(L))
      BY DEF LinkInv
    <3>3. \E K : Matched(K)' /\ (~ rejoined' => Parted(K)')
      <4>1. CASE \E t \in Clients : ConnectOwn(t)
        BY <3>2, <4>1, LinkingKeeps DEF LinkInv
      <4>2. CASE \E t \in Clients : DisconnectTell(t)
        BY <3>2, <4>2, UnlinkingKeeps DEF LinkInv
      <4>3. CASE \A t \in Clients : ~ ConnectOwn(t) /\ ~ DisconnectTell(t)
        <5>1. Matched(L)'
          BY <2>1, <3>2, <4>3, LinksKept DEF LinkInv
        <5>2. rejoined => rejoined'
          BY <2>1, RejoinedStays DEF LinkInv
        <5>3. ~ rejoined' => Parted(L)'
          BY <2>1, <3>2, <4>3, <5>2, PartedKept DEF LinkInv
        <5>4. QED
          BY <5>1, <5>3
      <4>4. QED
        BY <4>1, <4>2, <4>3
    <3>4. QED
      BY <3>1, <3>3 DEF LinkInv
  <2>2. CASE UNCHANGED vars
    <3>1. TypeOK' /\ LocalsOK' /\ Locking' /\ Crossing' /\ ByeOnce'
      <4>1. TypeOK' /\ LocalsOK'
        BY <2>2 DEF vars, LinkInv, TypeOK, LocalsOK
      <4>2. Locking'
        BY <2>2 DEF vars, LinkInv, Locking, Holds
      <4>3. Crossing'
        BY <2>2 DEF vars, LinkInv, Crossing
      <4>4. ByeOnce'
        BY <2>2 DEF vars, LinkInv, ByeOnce, Queues
      <4>5. QED
        BY <4>1, <4>2, <4>3, <4>4
    <3>2. \A L : /\ Matched(L) => Matched(L)'
                 /\ Parted(L) => Parted(L)'
      <4>1. ASSUME NEW L, Matched(L) PROVE Matched(L)'
        BY <2>2, <4>1 DEF vars, Matched, Knows
      <4>2. ASSUME NEW L, Parted(L) PROVE Parted(L)'
        BY <2>2, <4>2 DEF vars, Parted, Pending
      <4>3. QED
        BY <4>1, <4>2
    <3>3. rejoined' = rejoined
      BY <2>2 DEF vars
    <3>4. QED
      BY <3>1, <3>2, <3>3 DEF LinkInv
  <2>3. QED
    BY <2>1, <2>2
<1>3. QED
  BY <1>1, <1>2, PTL DEF SafeSpec

\* An end that points to another one is pointed at by it, unless somebody holds that
\* one, however many ends connect, disconnect and send at the same time; and an end
\* is never linked twice into its queue (RemoteDispatchQueueBase).
THEOREM LinksAreSound == SafeSpec => []LinkIsSound
<1>1. LinkInv => LinkIsSound
  <2> SUFFICES ASSUME LinkInv PROVE LinkIsSound
    OBVIOUS
  <2>1. ASSUME NEW a \in Ends, NEW b \in Ends, other[a] = b PROVE other[b] \in {a, Null}
    <3>1. PICK L : Matched(L)
      BY DEF LinkInv
    <3>2. L[a] = b /\ L[b] = a
      BY <2>1, <3>1, Marks DEF Matched, Peer
    <3>3. other[b] # Null => Peer(other[b]) = a
      BY <3>1, <3>2 DEF Matched
    <3>4. QED
      BY <3>3, Marks DEF Peer
  <2>2. ASSUME NEW e \in Ends
        PROVE  Cardinality({i \in DOMAIN queue[e] : queue[e][i] = Bye})
                 + Cardinality({t \in Clients : at[t] = "dispatch bye" /\ o[t] = e}) <= 1
    <3> DEFINE P == {i \in DOMAIN queue[e] : queue[e][i] = Bye}
               T == {t \in Clients : at[t] = "dispatch bye" /\ o[t] = e}
    <3>0. ByeOnce /\ queue[e] \in Seq({Op, Bye})
      BY DEF LinkInv, TypeOK
    <3>1. \A i, j \in P : i = j
      BY <3>0 DEF ByeOnce, Once
    <3>2. \A t, u \in T : t = u
      BY <3>0 DEF ByeOnce, Queues
    <3>3. P # {} => Contains(queue[e], Bye)
      BY <3>0 DEF Contains
    <3>4. P = {} \/ T = {}
      BY <3>0, <3>3 DEF ByeOnce, Queues
    <3> HIDE DEF P, T
    <3>5. Cardinality(P) = 0 \/ Cardinality(P) = 1
      BY <3>1, AtMostOne
    <3>6. Cardinality(T) = 0 \/ Cardinality(T) = 1
      BY <3>2, AtMostOne
    <3>7. Cardinality(P) = 0 \/ Cardinality(T) = 0
      BY <3>4, FS_EmptySet
    <3>8. Cardinality(P) + Cardinality(T) <= 1
      BY <3>5, <3>6, <3>7
    <3>9. QED
      BY <3>8 DEF P, T
  <2>3. QED
    BY <2>1, <2>2 DEF LinkIsSound
<1>2. QED
  BY <1>1, LinkInvariance, PTL

\* An end that is told that it was disconnected has executed all that it was sent,
\* unless an end was connected anew before it was told (execute(), disconnect()).
THEOREM GoodbyeIsLast == SafeSpec => []GoodbyeComesLast
<1>1. LinkInv => GoodbyeComesLast
  BY DEF LinkInv, Parted, Executing, GoodbyeComesLast
<1>2. QED
  BY <1>1, LinkInvariance, PTL
==============================================================================
