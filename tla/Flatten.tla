------------------------------ MODULE Flatten -------------------------------
(***************************************************************************)
(* flatten(): the copy of a hierarchical network in which every composite  *)
(* is replaced by its contents.                                            *)
(*                                                                         *)
(* flattenInto() works on one instance of a network: it copies the         *)
(* components (entering the composites), copies the channels, and welds    *)
(* the channels that end on either side of a composite's interface.  An    *)
(* external source or sink becomes a gate, a component outside the network *)
(* with a port towards the inside and one towards the outside; a weld      *)
(* joins what the two ports are connected to and deletes the gate.  The    *)
(* calls in progress are the frames of stack.                              *)
(*                                                                         *)
(* A flat component is named by its path.  A flat port is                  *)
(* <<path, "in" or "out", number>>; a gate has one of each, whichever of   *)
(* the two is its i_ext or o_ext.                                          *)
(*                                                                         *)
(* Hierarchical xMAS networks, as XMASProject holds them: a function from  *)
(* network names to networks, "root" among them.  A network is a record of *)
(*   order  its components in the order of the std::map that holds them,   *)
(*   kind   what each component is,                                        *)
(*   of     the network each composite is an instance of,                  *)
(*   wire   its channels: the input port each connected output port leads  *)
(*          to.  A port of a network is <<component, number>>; outputs and *)
(*          inputs are numbered separately, from one.                      *)
(* Kinds "in" and "out" are the sources and sinks marked external (the     *)
(* interface of a composite); a function is a "queue" here, a switch a     *)
(* "fork" and a join a "merge": flattening sees only their ports.          *)
(***************************************************************************)
EXTENDS Naturals, Sequences, SequencesExt

CONSTANT Hierarchies            \* the hierarchical networks to flatten

VARIABLES
    h,              \* the hierarchical network: never changed
    stack,          \* the calls of flattenInto() in progress
    network,        \* the components of the flat network
    gates,          \* the gates that exist
    out,            \* Output::output, of the connected output ports
    inp,            \* Input::input, of the connected input ports
    status          \* "running", "done", "failed" (an exception),
                    \* "undefined" (a null reference)

vars == <<h, stack, network, gates, out, inp, status>>

-----------------------------------------------------------------------------
Gates == {"in", "out"}
Primitives == {"source", "sink", "queue", "fork", "merge"}

(* componentsOfType<XMASSource> and <XMASSink>: external or not. *)
Sources(n) == SelectSeq(n.order, LAMBDA c : n.kind[c] \in {"source", "in"})
Sinks(n)   == SelectSeq(n.order, LAMBDA c : n.kind[c] \in {"sink", "out"})
CompositesOf(n) == SelectSeq(n.order, LAMBDA c : n.kind[c] = "composite")

(* The ports of a component.  The constructor of XMASComposite makes an    *)
(* input for every source of its network and an output for every sink.     *)
Inputs(hier, n, c) ==
    CASE n.kind[c] \in {"source", "in"}                  -> 0
      [] n.kind[c] \in {"sink", "out", "queue", "fork"}  -> 1
      [] n.kind[c] = "merge"                             -> 2
      [] n.kind[c] = "composite"                         -> Len(Sources(hier[n.of[c]]))

Outputs(hier, n, c) ==
    CASE n.kind[c] \in {"sink", "out"}                       -> 0
      [] n.kind[c] \in {"source", "in", "queue", "merge"}    -> 1
      [] n.kind[c] = "fork"                                  -> 2
      [] n.kind[c] = "composite"                             -> Len(Sinks(hier[n.of[c]]))

(* Every output port of a network, component by component. *)
OutputPorts(hier, n) ==
    FlattenSeq([x \in DOMAIN n.order |->
                   [k \in 1 .. Outputs(hier, n, n.order[x]) |-> <<n.order[x], k>>]])

(* getPortNo(): ports() lists the inputs of a component before its outputs. *)
InputNo(hier, n, port)  == port[2]
OutputNo(hier, n, port) == Inputs(hier, n, port[1]) + port[2]

(* The network of the instance at path p, a sequence of composites' names. *)
NetworkAt(hier, p) == FoldLeft(LAMBDA n, c : hier[n].of[c], "root", p)

-----------------------------------------------------------------------------
(* A call of flattenInto(): what it has still to copy, to connect and to   *)
(* weld, the gates it returns, and those each of its composites returned.  *)
Call(hier, p, name) ==
    LET net == hier[name] IN
    [path |-> p, net |-> name, copy |-> net.order, connect |-> OutputPorts(hier, net),
     weld |-> CompositesOf(net), ins |-> <<>>, outs |-> <<>>, sub |-> <<>>]

f == Last(stack)
n == h[f.net]
Becomes(frame) == stack' = Append(Front(stack), frame)

(* The same with the gates in the order they are popped. *)
FlatPorts_LastFirst(c) ==
    IF n.kind[c] = "composite"
    THEN Reverse([k \in DOMAIN f.sub[c].ins  |-> <<f.sub[c].ins[k], "in", 1>>]) \o
         Reverse([k \in DOMAIN f.sub[c].outs |-> <<f.sub[c].outs[k], "out", 1>>])
    ELSE LET p == Append(f.path, c) IN
         [k \in 1 .. Inputs(h, n, c)  |-> <<p, "in", k>>] \o
         [k \in 1 .. Outputs(h, n, c) |-> <<p, "out", k>>]

(* The ports of the flat copy of component c.  XMASFlattenedComposite      *)
(* offers the outer port of every gate, the in-gates first.                *)
FlatPorts(c) ==
    IF n.kind[c] = "composite"
    THEN [k \in DOMAIN f.sub[c].ins  |-> <<f.sub[c].ins[k], "in", 1>>] \o
         [k \in DOMAIN f.sub[c].outs |-> <<f.sub[c].outs[k], "out", 1>>]
    ELSE LET p == Append(f.path, c) IN
         [k \in 1 .. Inputs(h, n, c)  |-> <<p, "in", k>>] \o
         [k \in 1 .. Outputs(h, n, c) |-> <<p, "out", k>>]

(* getPort() and the cast: the port of that number, if it has that side. *)
FlatPort(c, no, side) ==
    LET ports == FlatPorts(c)
    IN {ports[k] : k \in {j \in DOMAIN ports : j = no /\ ports[j][2] = side}}

(* connect(), without a check of what the two ports were connected to. *)
Connect(o, i) == /\ out' = (o :> i) @@ out
                 /\ inp' = (i :> o) @@ inp

-----------------------------------------------------------------------------
(* Step 1, one component: a primitive is copied, *)
CopyPrimitive ==
    /\ status = "running" /\ f.copy # <<>>
    /\ n.kind[Head(f.copy)] \in Primitives
    /\ network' = network \union {Append(f.path, Head(f.copy))}
    /\ Becomes([f EXCEPT !.copy = Tail(@)])
    /\ UNCHANGED <<h, gates, out, inp, status>>

(* an external source or sink becomes a gate, *)
CopyGate ==
    /\ status = "running" /\ f.copy # <<>>
    /\ n.kind[Head(f.copy)] \in Gates
    /\ LET g == Append(f.path, Head(f.copy)) IN
       /\ gates' = gates \union {g}
       /\ \/ /\ n.kind[Head(f.copy)] = "in"
             /\ Becomes([f EXCEPT !.copy = Tail(@), !.ins = Append(@, g)])
          \/ /\ n.kind[Head(f.copy)] = "out"
             /\ Becomes([f EXCEPT !.copy = Tail(@), !.outs = Append(@, g)])
    /\ UNCHANGED <<h, network, out, inp, status>>

(* and a composite is flattened before anything else is done. *)
EnterComposite ==
    /\ status = "running" /\ f.copy # <<>>
    /\ n.kind[Head(f.copy)] = "composite"
    /\ stack' = Front(stack) \o << [f EXCEPT !.copy = Tail(@)],
                                   Call(h, Append(f.path, Head(f.copy)), n.of[Head(f.copy)]) >>
    /\ UNCHANGED <<h, network, gates, out, inp, status>>

(* Step 2, one output port: connect the ports of the same numbers.  The    *)
(* calls throw when the port leads nowhere or a number does not fit.       *)
ConnectPort ==
    /\ status = "running" /\ f.copy = <<>> /\ f.connect # <<>>
    /\ Becomes([f EXCEPT !.connect = Tail(@)])
    /\ LET from  == Head(f.connect)
           to    == IF from \in DOMAIN n.wire THEN {n.wire[from]} ELSE {}
           ports == FlatPort(from[1], OutputNo(h, n, from), "out") \X
                    UNION {FlatPort(t[1], InputNo(h, n, t), "in") : t \in to}
       IN \/ \E p \in ports : Connect(p[1], p[2]) /\ UNCHANGED status
          \/ ports = {} /\ status' = "failed" /\ UNCHANGED <<out, inp>>
    /\ UNCHANGED <<h, network, gates>>

(* Weld with the pointer of the initiator alone redirected. *)

(* Weld the channels at a gate and delete it.  getInitiatorPort() of a gate *)
(* nothing was connected to is null, and is dereferenced all the same.      *)
Weld(g) ==
    LET i == <<g, "in", 1>>
        o == <<g, "out", 1>>
    IN \/ /\ i \in DOMAIN inp /\ o \in DOMAIN out
          /\ out' = LET w == (inp[i] :> out[o]) @@ out IN Restrict(w, DOMAIN w \ {o})
          /\ inp' = LET w == (out[o] :> inp[i]) @@ inp IN Restrict(w, DOMAIN w \ {i})
          /\ gates' = gates \ {g}
          /\ UNCHANGED status
       \/ /\ i \notin DOMAIN inp \/ o \notin DOMAIN out
          /\ status' = "undefined"
          /\ UNCHANGED <<out, inp, gates>>

(* Step 3, one gate of the first composite left: its in-gates from the     *)
(* last to the first, then its out-gates.                                  *)
Welding == status = "running" /\ f.copy = <<>> /\ f.connect = <<>> /\ f.weld # <<>>

WeldInGate ==
    /\ Welding
    /\ LET c == Head(f.weld) IN
       /\ f.sub[c].ins # <<>>
       /\ Weld(Last(f.sub[c].ins))
       /\ Becomes([f EXCEPT !.sub[c].ins = Front(@)])
    /\ UNCHANGED <<h, network>>

WeldOutGate ==
    /\ Welding
    /\ LET c == Head(f.weld) IN
       /\ f.sub[c].ins = <<>> /\ f.sub[c].outs # <<>>
       /\ Weld(Last(f.sub[c].outs))
       /\ Becomes([f EXCEPT !.sub[c].outs = Front(@)])
    /\ UNCHANGED <<h, network>>

(* The temporary XMASFlattenedComposite is deleted. *)
DropComposite ==
    /\ Welding
    /\ LET c == Head(f.weld) IN f.sub[c].ins = <<>> /\ f.sub[c].outs = <<>>
    /\ Becomes([f EXCEPT !.weld = Tail(@)])
    /\ UNCHANGED <<h, network, gates, out, inp, status>>

(* The gates go to the caller; flatten() forgets those of the root. *)
Return ==
    /\ status = "running" /\ f.copy = <<>> /\ f.connect = <<>> /\ f.weld = <<>>
    /\ \/ /\ Len(stack) = 1
          /\ stack' = <<>> /\ status' = "done"
       \/ /\ Len(stack) > 1
          /\ LET caller == stack[Len(stack) - 1]
                 result == [ins |-> f.ins, outs |-> f.outs]
             IN stack' = Append(SubSeq(stack, 1, Len(stack) - 2),
                                [caller EXCEPT !.sub = (Last(f.path) :> result) @@ @])
          /\ UNCHANGED status
    /\ UNCHANGED <<h, network, gates, out, inp>>

-----------------------------------------------------------------------------
Init ==
    /\ h \in Hierarchies
    /\ stack = <<Call(h, <<>>, "root")>>
    /\ network = {} /\ gates = {}
    /\ out = <<>> /\ inp = <<>>
    /\ status = "running"

Next == \/ CopyPrimitive \/ CopyGate \/ EnterComposite \/ ConnectPort
        \/ WeldInGate \/ WeldOutGate \/ DropComposite \/ Return

Spec == Init /\ [][Next]_vars

-----------------------------------------------------------------------------
(* What flattening promises: the flat network is the hierarchical one with *)
(* the composites looked through.  The meaning is defined here by walking  *)
(* the hierarchy, without gates, port numbers or an order of work.         *)

(* The instances of networks at and below path p. *)
RECURSIVE InstancesFrom(_, _)
InstancesFrom(hier, p) ==
    {p} \union UNION {InstancesFrom(hier, Append(p, c)) :
                          c \in ToSet(CompositesOf(hier[NetworkAt(hier, p)]))}
Instances(hier) == InstancesFrom(hier, <<>>)

(* The components of given kinds in all instances, by their paths. *)
Everywhere(hier, kinds) ==
    UNION {{Append(p, c) : c \in {x \in ToSet(hier[NetworkAt(hier, p)].order) :
                                      hier[NetworkAt(hier, p)].kind[x] \in kinds}} :
               p \in Instances(hier)}

(* Where a channel that starts at output port o of the instance at p ends:  *)
(* an input of a composite goes on inside it, an external sink outside.     *)
RECURSIVE Follow(_, _, _)
Follow(hier, p, o) ==
    LET net == hier[NetworkAt(hier, p)]
        to  == net.wire[o]
    IN CASE net.kind[to[1]] = "composite" ->
              Follow(hier, Append(p, to[1]),
                     <<Sources(hier[net.of[to[1]]])[to[2]], 1>>)
         [] net.kind[to[1]] = "out" /\ p # <<>> ->
              Follow(hier, Front(p),
                     <<Last(p), CHOOSE k \in DOMAIN Sinks(net) : Sinks(net)[k] = to[1]>>)
         [] OTHER -> <<Append(p, to[1]), "in", to[2]>>

(* Where the channels of the flat network must start: at the outputs of    *)
(* the primitives, and at the gates of the root.                           *)
Starts(hier) ==
    UNION {{<<p, o>> : o \in {x \in ToSet(OutputPorts(hier, hier[NetworkAt(hier, p)])) :
               \/ hier[NetworkAt(hier, p)].kind[x[1]] \in Primitives
               \/ p = <<>> /\ hier["root"].kind[x[1]] \in Gates}} : p \in Instances(hier)}

-----------------------------------------------------------------------------
(* When flatten() returns, every primitive of every instance is there once, *)
(* every channel runs from its first output to the input the hierarchy      *)
(* leads it to, through any number of composites, and there is no other;    *)
(* the gates left are those of the root.  (flattenInto(), steps 1 to 3)     *)
FlatIsExact ==
    status = "done" =>
        /\ network = Everywhere(h, Primitives)
        /\ gates = {p \in Everywhere(h, Gates) : Len(p) = 1}
        /\ DOMAIN out = {<<Append(s[1], s[2][1]), "out", s[2][2]>> : s \in Starts(h)}
        /\ \A s \in Starts(h) :
              out[<<Append(s[1], s[2][1]), "out", s[2][2]>>] = Follow(h, s[1], s[2])

(* The two ends of every channel name each other, and neither is a port of  *)
(* a deleted gate, at every moment of the three steps: connect() overwrites *)
(* and delete leaves, so one of the two could be left behind.               *)
ChannelsWelded ==
    LET alive == network \union gates IN
    /\ \A o \in DOMAIN out : /\ out[o] \in DOMAIN inp /\ inp[out[o]] = o
                             /\ o[1] \in alive
    /\ \A i \in DOMAIN inp : /\ inp[i] \in DOMAIN out /\ out[inp[i]] = i
                             /\ i[1] \in alive

(* An output of net that leads nowhere, the port of a composite that stands *)
(* for a sink of its own aside.                                             *)
OwnSink(net, o) == /\ net.kind[o[1]] = "composite"
                   /\ LET m == h[net.of[o[1]]] IN m.kind[Sinks(m)[o[2]]] = "sink"

LooseOutput(net) == \E o \in ToSet(OutputPorts(h, net)) \ DOMAIN net.wire : ~OwnSink(net, o)

(* A channel of net at a port of a composite that is, or comes after, the   *)
(* port of an end of its own: the flat composite numbers gates only.        *)
Displaced(net) ==
    LET Of(c)      == h[net.of[c]]
        own(m, s)  == {k \in DOMAIN s : m.kind[s[k]] \in {"source", "sink"}}
        before(c)  == Sources(Of(c)) \o Sinks(Of(c))
        moved(port, no) == /\ net.kind[port[1]] = "composite"
                           /\ \E k \in own(Of(port[1]), before(port[1])) : k <= no
    IN \E o \in DOMAIN net.wire : \/ moved(o, OutputNo(h, net, o))
                                 \/ moved(net.wire[o], InputNo(h, net, net.wire[o]))

SomeInstance(Flaw(_)) == \E p \in Instances(h) : Flaw(h[NetworkAt(h, p)])

(* A hierarchy whose channels are all connected and whose composites have   *)
(* external sources and sinks only is flattened.  An exception means that   *)
(* an output leads nowhere, a port that stands for a composite's own sink   *)
(* among them, or that such ends displace the ports in use: this case, in   *)
(* which the tests expect no exception, is OwnEndsStayInside's.  A null     *)
(* reference means that nothing leads to a composite's input or to an       *)
(* external sink in it, which the tool looks for only after it has          *)
(* flattened (TestFile(), main.cpp).                                        *)
FailsForAReason ==
    LET ownSinkLoose(net) ==
            \E o \in ToSet(OutputPorts(h, net)) \ DOMAIN net.wire : OwnSink(net, o)
        bare(p) == LET net == h[NetworkAt(h, p)] IN
            \E c \in ToSet(net.order) :
                /\ net.kind[c] = "composite" \/ (net.kind[c] = "out" /\ p # <<>>)
                /\ \E k \in 1 .. Inputs(h, net, c) :
                      \A o \in DOMAIN net.wire : net.wire[o] # <<c, k>>
    IN /\ status = "failed" => \/ SomeInstance(LooseOutput)
                               \/ SomeInstance(ownSinkLoose) \/ SomeInstance(Displaced)
       /\ status = "undefined" => \E p \in Instances(h) : bare(p)

(* What flatten.test.cpp expects of its credit counter, a composite with a  *)
(* source and a sink of its own: they are copied and nobody needs to        *)
(* connect them, so that only a loose output makes flatten() throw.  The    *)
(* constructor of XMASComposite makes ports for them all the same.          *)
OwnEndsStayInside == status = "failed" => SomeInstance(LooseOutput)

(* Flattening keeps its promise: a hierarchy without a flaw becomes the     *)
(* network it stands for, whatever the order in which the gates are welded  *)
(* while channels still end at other gates or at ports deleted meanwhile.   *)
FlattenKeepsMeaning == FlatIsExact /\ ChannelsWelded /\ FailsForAReason
=============================================================================
