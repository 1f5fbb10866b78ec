------------------------------ MODULE Transfers ------------------------------
(***************************************************************************)
(* xMAS networks with queues, and what their packets may do: the reference *)
(* for the explicit and the exported search.  A network is a record; its   *)
(* channels are named, and a packet is the value of its only field.        *)
(* (xmv/datamodel/state.h, xmas.h)                                         *)
(***************************************************************************)
EXTENDS Integers, Sequences, FiniteSets, SequencesExt, TLC

CONSTANT Networks   \* by name, records: channels, kind, in, out, queues, and see below

\* A component's kind, channels in port order, and for its kind: the packets of
\* a source (a sequence of symbolic packets, each a sequence of values), the
\* capacity of a queue, whether a join takes its packet from a, the packets a
\* switch sends to a, and the function of a function.
ComponentsOf(n) == DOMAIN n.kind
ChannelsOf(n) == ToSet(n.channels)
QueuesOf(n) == {c \in ComponentsOf(n) : n.kind[c] = "queue"}

ASSUME NetworkAssumption ==
    \A name \in DOMAIN Networks : LET n == Networks[name] IN \A h \in ChannelsOf(n) :
        /\ Cardinality({c \in ComponentsOf(n) : h \in ToSet(n.out[c])}) = 1
        /\ Cardinality({c \in ComponentsOf(n) : h \in ToSet(n.in[c])}) = 1

Values(packets) == UNION {ToSet(packets[i]) : i \in DOMAIN packets}
------------------------------------------------------------------------------
\* XMASState: what is in each queue, the newest packet first.
Push(s, q, p) == [s EXCEPT ![q] = <<p>> \o @]
Pop(s, q) == [s EXCEPT ![q] = Front(@)]
Top(s, q) == Last(s[q])
IsEmpty(s, q) == s[q] = <<>>
IsFull(n, s, q) == Len(s[q]) >= n.size[q]
Empty(n) == [q \in QueuesOf(n) |-> <<>>]
InitialState(s) == \A q \in DOMAIN s : s[q] = <<>>

Sentinel == "sentinel"

\* Mutant of Digest: nothing tells where a queue begins.
RunTogether(n, s) == FoldLeft(LAMBDA acc, q : acc \o s[q], <<>>, n.queues)

\* hash(): what is hashed, in the order of the map, queue after queue; that two
\* digests are equal stands for equal 128-bit hashes (MurmurHash3 does not collide).
Digest(n, s) == FoldLeft(LAMBDA acc, q : acc \o <<Sentinel>> \o s[q], <<>>, n.queues)
------------------------------------------------------------------------------
(* The reference.  In a transfer packets move over a set of channels, so   *)
(* that each component does what it is for.                                *)

None == "none"

\* Does component c agree with what moves over its channels?  (The packet a
\* queue gives and the room it has depend on the state.)
Agrees(n, c, x) ==
    LET i(k) == x[n.in[c][k]]
        o(k) == x[n.out[c][k]]
    IN  CASE n.kind[c] = "source" -> o(1) \in Values(n.emits[c]) \cup {None}
          [] n.kind[c] = "function" ->
                o(1) = IF i(1) = None THEN None ELSE n.map[c][i(1)]
          [] n.kind[c] = "fork" -> o(1) = i(1) /\ o(2) = i(1)
          [] n.kind[c] = "join" -> /\ i(1) = None <=> i(2) = None
                                   /\ o(1) = IF n.takesA[c] THEN i(1) ELSE i(2)
          [] n.kind[c] = "merge" -> \/ i(2) = None /\ o(1) = i(1)
                                    \/ i(1) = None /\ o(1) = i(2)
          [] n.kind[c] = "switch" ->
                /\ o(1) = IF i(1) \in n.accepts[c] THEN i(1) ELSE None
                /\ o(2) = IF i(1) \notin n.accepts[c] THEN i(1) ELSE None
          [] n.kind[c] \in {"queue", "sink"} -> TRUE

\* Extends assignments by one channel at a time, as long as the components
\* whose channels are all known agree.
AllTransfers(n) ==
    LET values == UNION {Values(n.emits[c]) : c \in {d \in ComponentsOf(n) : n.kind[d] = "source"}}
                  \cup UNION {{n.map[c][v] : v \in DOMAIN n.map[c]} : c \in DOMAIN n.map}
        channels(c) == ToSet(n.in[c]) \cup ToSet(n.out[c])
        ok(x) == \A c \in ComponentsOf(n) : channels(c) \subseteq DOMAIN x => Agrees(n, c, x)
    IN  FoldLeft(LAMBDA acc, h : {y \in {x @@ (h :> v) : x \in acc, v \in values \cup {None}} : ok(y)},
                 {[h \in {} |-> None]}, n.channels)

\* The states after one of the transfers.
After(n, transfers, s) ==
    LET gives(x, q) == x[n.out[q][1]]
        gets(x, q) == x[n.in[q][1]]
        possible(x) == \A q \in QueuesOf(n) :
            /\ gives(x, q) # None => ~ IsEmpty(s, q) /\ gives(x, q) = Top(s, q)
            /\ gets(x, q) # None => ~ IsFull(n, s, q)
        moved(x, q) ==
            LET left == IF gives(x, q) = None THEN s[q] ELSE Front(s[q])
            IN  IF gets(x, q) = None THEN left ELSE <<gets(x, q)>> \o left
    IN  {[q \in QueuesOf(n) |-> moved(x, q)] : x \in {y \in transfers : possible(y)}}

RECURSIVE Closure(_, _, _, _)
Closure(n, transfers, reached, new) ==
    LET next == UNION {After(n, transfers, s) : s \in new} \ reached
    IN  IF next = {} THEN reached ELSE Closure(n, transfers, reached \cup next, next)

\* The states each network can reach, as pairs, and what can move in each.
ReachableStates ==
    UNION {LET n == Networks[name]
           IN  {<<name, s>> : s \in Closure(n, AllTransfers(n), {Empty(n)}, {Empty(n)})} :
              name \in DOMAIN Networks}

CanReach(name, s) == <<name, s>> \in ReachableStates

Transfer == UNION {{<<name, x>> : x \in AllTransfers(Networks[name])} : name \in DOMAIN Networks}

Moved(name, s) ==
    After(Networks[name], {x[2] : x \in {y \in Transfer : y[1] = name}}, s)
==============================================================================
