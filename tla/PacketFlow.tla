------------------------------ MODULE PacketFlow ------------------------------
(***************************************************************************)
(* How symbolic packets flow through the components of an xMAS network:    *)
(* the visitor SymbolicForward, the types that the channels collect        *)
(* (SymbolicTypesExtension), and as the reference what the components make *)
(* of the values, one by one.                                              *)
(*                                                                         *)
(* A channel is named by its initiator, the output port whose extension    *)
(* holds its type.                                                         *)
(***************************************************************************)
EXTENDS SymbolicPackets, SequencesExt

CONSTANTS Channels,
          Components,           \* components with an input
          Kind,                 \* queue, fork, merge, function, switch, join, sink
          Inputs, Outputs,      \* the channels of each component, in port order
          Emitted,              \* the packets the sources put on each channel
          SwitchFunction,       \* SymbolicSwitchingFunctionExtension of a switch
          Applied(_, _),        \* what the SymbolicFunctionExtension of a function makes
                                \* of packets: any operation on them
          Throws(_, _),         \* it ends with an exception instead: a field it asks for
                                \* is not in one of the packets
          MadeOf(_, _)          \* for reference: the values a function is to make of values

Kinds == {"queue", "fork", "merge", "function", "switch", "join", "sink"}

\* The ports of each kind; a channel leads to one of them.
ASSUME FlowAssumption ==
    /\ IsFiniteSet(Components) /\ Components # {}
    /\ \A c \in Components :
          /\ Kind[c] \in Kinds
          /\ Inputs[c] \in Seq(Channels) /\ Outputs[c] \in Seq(Channels)
          /\ Len(Inputs[c]) = IF Kind[c] \in {"merge", "join"} THEN 2 ELSE 1
          /\ Kind[c] = "sink" => Outputs[c] = <<>>
          /\ Kind[c] = "switch" => Len(Outputs[c]) = 2 /\ Outputs[c][1] # Outputs[c][2]
          \* no component feeds itself: visiting it would extend the vector that
          \* is iterated over
          /\ ToSet(Inputs[c]) \cap ToSet(Outputs[c]) = {}
    /\ \A c, d \in Components : \A n \in DOMAIN Inputs[c], m \in DOMAIN Inputs[d] :
          Inputs[c][n] = Inputs[d][m] => c = d /\ n = m
------------------------------------------------------------------------------
\* An entry of availablePackets: a packet and whether it was propagated.
Entry(p, done) == [packet |-> p, propagated |-> done]

PacketsIn(vec) == {vec[i].packet : i \in DOMAIN vec}

Known(vec, p) == \E a \in PacketsIn(vec) : a = p \/ PacketContains(a, p)

\* attach: addSymbolicPacket, without a worker, of a packet that is valid.  A
\* vector that grows by reallocation copies its entries, and a copy counts as not
\* propagated.
AddPacket(vec, p, reallocates) ==
    IF ~ PacketValid(p) \/ Known(vec, p) THEN vec
    ELSE Append([i \in DOMAIN vec |-> IF reallocates THEN Entry(vec[i].packet, FALSE)
                                      ELSE vec[i]], Entry(p, FALSE))

\* simplify(), first part: the entries that another one contains.
Superfluous(vec) == {i \in DOMAIN vec : \E j \in DOMAIN vec \ {i} :
                        PacketContains(vec[j].packet, vec[i].packet)}

\* Second part: the later entries that can be combined with the i-th.
Mates(vec, i) == {j \in i + 1 .. Len(vec) : PacketCombinable(vec[i].packet, vec[j].packet)}

\* A combination is a new packet, to be propagated.
Combined(e, f) == Entry(PacketCombine(e.packet, f.packet), FALSE)

Merged(vec, i, j) == RemoveAt([vec EXCEPT ![i] = Combined(@, vec[j])], j)
------------------------------------------------------------------------------
\* The fields of both inputs; those of the first win.
Joined(p, r) == [k \in DOMAIN p \cup DOMAIN r |-> IF k \in DOMAIN p THEN p[k] ELSE r[k]]

\* The packets that component c, other than a switch, attaches to each output when
\* packet p arrives on its n-th input and the types of the channels are given.
Forwarded(c, n, p, types) ==
    CASE Kind[c] = "sink" -> {}
      [] Kind[c] \in {"queue", "fork", "merge"} -> {p}
      [] Kind[c] = "function" -> Applied(c, {p})
      [] Kind[c] = "join" ->
           IF n = 1 THEN {Joined(p, r) : r \in PacketsIn(types[Inputs[c][2]])}
           ELSE {Joined(r, p) : r \in PacketsIn(types[Inputs[c][1]])}
------------------------------------------------------------------------------
(* The reference: single values instead of symbolic packets.  A flow says  *)
(* which values are on each channel.                                       *)

TypeMeaning(vec) == All(PacketsIn(vec))

\* What component c makes, on its output o, of what is on its inputs.
Produced(c, flow, o) ==
    LET in == [n \in DOMAIN Inputs[c] |-> flow[Inputs[c][n]]]
        matches(x) == \E f \in SwitchFunction[c] : Accepts(f, x)
    IN  CASE Kind[c] \in {"queue", "fork", "merge"} -> UNION {in[n] : n \in DOMAIN in}
          [] Kind[c] = "function" -> UNION {MadeOf(c, x) : x \in in[1]}
          [] Kind[c] = "switch" /\ o = Outputs[c][1] -> {x \in in[1] : matches(x)}
          [] Kind[c] = "switch" /\ o = Outputs[c][2] -> {x \in in[1] : ~ matches(x)}
          [] Kind[c] = "join" -> {Joined(x, y) : x \in in[1], y \in in[2]}

\* A flow with what the sources emit and what the components make of it.
Closed(flow) ==
    /\ \A o \in Channels : All(Emitted[o]) \subseteq flow[o]
    /\ \A c \in Components : \A o \in ToSet(Outputs[c]) : Produced(c, flow, o) \subseteq flow[o]

\* The values that can reach the channels: there is no smaller such flow.
IsLeastFlow(flow) ==
    /\ Closed(flow)
    /\ \A other : Closed(other) => \A o \in Channels : flow[o] \subseteq other[o]
==============================================================================
