------------------------------ MODULE Generators ------------------------------
(***************************************************************************)
(* The networks that xmvmain makes itself (-mesh, -spidergon): node by     *)
(* node, then the channels between the nodes.  A packet then follows the   *)
(* channels from its source; in a mesh the right half answers.             *)
(* A component is its name and its node; names tell the kind.              *)
(***************************************************************************)
EXTENDS SequencesExt, Integers, Bitwise

CONSTANTS MeshSizes, SpidergonSizes

VARIABLES shape,     \* "mesh" or "spidergon"
          size,      \* nodes of a row, or of the ring
          made,      \* nodes that are created
          joined,    \* and connected
          channels,  \* output ports to input ports
          packet     \* what is under way

generatorVars == <<shape, size, made, joined, channels, packet>>

(* pow2roundup() *)
Pow2RoundUp(x) ==
    FoldLeft(LAMBDA bits, by : bits | shiftR(bits, by), x - 1, <<1, 2, 4, 8, 16>>) + 1

Wire(c, out, d, in) == <<<<c, out>>, <<d, in>>>>
------------------------------------------------------------------------------
(* doMerge() of each queue into what comes from before, up to an input.     *)
Merge(queue) == <<"merge", queue>>
Merged(from, queues, to) ==
    LET outs == <<from>> \o [j \in DOMAIN queues |-> <<Merge(queues[j]), "o">>]
        ins  == [j \in DOMAIN queues |-> <<Merge(queues[j]), "a">>] \o <<to>>
    IN  {<<outs[j], ins[j]>> : j \in DOMAIN outs}
        \cup {Wire(queues[j], "o", Merge(queues[j]), "b") : j \in DOMAIN queues}

(* createMeshNodes(): first x is put right, then y, then the packet is here.*)
MeshNode(x, y, width, height) ==
    LET c(name) == <<name, <<x, y>>>>
        master  == x < width \div 2
        start   == IF master THEN c("in_local") ELSE c("slaveFuncQueue")
        sides   == (IF x # 0 THEN <<c("in_west")>> ELSE <<>>)
                   \o (IF x < width - 1 THEN <<c("in_east")>> ELSE <<>>)
        ends    == (IF y # 0 THEN <<c("in_north")>> ELSE <<>>)
                   \o (IF y < height - 1 THEN <<c("in_south")>> ELSE <<>>)
        outX == IF x > 0 /\ x < width - 1
                THEN {Wire(c("switchCorrectX"), "b", c("switchEast"), "i"),
                      Wire(c("switchEast"), "a", c("out_east"), "i"),
                      Wire(c("switchEast"), "b", c("out_west"), "i")}
                ELSE {Wire(c("switchCorrectX"), "b",
                           IF x = 0 THEN c("out_east") ELSE c("out_west"), "i")}
        outY == IF y > 0 /\ y < height - 1
                THEN {Wire(c("switchCorrectXY"), "b", c("switchSouth"), "i"),
                      Wire(c("switchSouth"), "a", c("out_south"), "i"),
                      Wire(c("switchSouth"), "b", c("out_north"), "i")}
                ELSE {Wire(c("switchCorrectXY"), "b",
                           IF y = 0 THEN c("out_south") ELSE c("out_north"), "i")}
        local == IF master THEN {Wire(c("switchCorrectXY"), "a", c("out_local"), "i")}
                 ELSE {Wire(c("switchCorrectXY"), "a", c("slaveFunc"), "i"),
                       Wire(c("slaveFunc"), "o", c("slaveFuncQueue"), "i")}
    IN  Merged(<<start, "o">>, sides, <<c("switchCorrectX"), "i">>) \cup outX
        \cup Merged(<<c("switchCorrectX"), "a">>, ends, <<c("switchCorrectXY"), "i">>)
        \cup outY \cup local

(* connectMeshNodes(): from the neighbours' queues into its own.            *)
MeshLinks(x, y, width, height) ==
    (IF x > 0 THEN {Wire(<<"out_east", <<x - 1, y>>>>, "o", <<"in_west", <<x, y>>>>, "i")} ELSE {})
    \cup (IF x < width - 1
          THEN {Wire(<<"out_west", <<x + 1, y>>>>, "o", <<"in_east", <<x, y>>>>, "i")} ELSE {})
    \cup (IF y > 0
          THEN {Wire(<<"out_south", <<x, y - 1>>>>, "o", <<"in_north", <<x, y>>>>, "i")} ELSE {})
    \cup (IF y < height - 1
          THEN {Wire(<<"out_north", <<x, y + 1>>>>, "o", <<"in_south", <<x, y>>>>, "i")} ELSE {})
------------------------------------------------------------------------------
(* createSpidergonNodesRange()                                              *)
SpidergonNode(i) ==
    LET c(name) == <<name, <<i, 0>>>>
    IN  {Wire(c("source"), "o", c("mergeAcrossAndSource"), "b"),
         Wire(c("mergeLeftAndRight"), "o", c("mergeBoth"), "a"),
         Wire(c("mergeAcrossAndSource"), "o", c("mergeBoth"), "b"),
         Wire(c("mergeBoth"), "o", c("switchLeftRight"), "i"),
         Wire(c("switchLeftRight"), "a", c("switchLeft"), "i"),
         Wire(c("switchLeftRight"), "b", c("switchThis"), "i"),
         Wire(c("switchThis"), "a", c("sink"), "i"),
         Wire(c("incommingLeft"), "o", c("mergeLeftAndRight"), "a"),
         Wire(c("incommingRight"), "o", c("mergeLeftAndRight"), "b"),
         Wire(c("incommingAcross"), "o", c("mergeAcrossAndSource"), "a")}

(* connectSpidergonNodesRange(): what goes left comes in from the right.    *)
SpidergonLinks(i, total) ==
    {Wire(<<"switchLeft", <<i, 0>>>>, "a", <<"incommingRight", <<(i + total - 1) % total, 0>>>>, "i"),
     Wire(<<"switchLeft", <<i, 0>>>>, "b", <<"incommingLeft", <<(i + 1) % total, 0>>>>, "i"),
     Wire(<<"switchThis", <<i, 0>>>>, "b",
          <<"incommingAcross", <<(i + total \div 2) % total, 0>>>>, "i")}

(* A quarter of the ring to the left, and to the right, of node i.          *)
Quarter(total) == total \div 4
LeftOf(i, total) ==
    LET q == Quarter(total) IN
    IF i - q < 0 THEN (i - q + total .. total - 1) \cup (0 .. i - 1) ELSE i - q .. i - 1
RightOfShort(i, total) ==
    LET q == Quarter(total) IN
    IF i + q >= total THEN (i + 1 .. total - 1) \cup (0 .. i + q - total - 1) ELSE i + 1 .. i + q
RightOf(i, total) ==
    LET q == Quarter(total) IN
    IF i + q >= total THEN (i + 1 .. total - 1) \cup (0 .. i + q - total) ELSE i + 1 .. i + q
------------------------------------------------------------------------------
(* The switching functions: whether a packet leaves by output a.            *)
Matches(name, node, to) ==
    CASE name = "switchCorrectX"  -> to[1] = node[1]
      [] name = "switchEast"      -> to[1] \in node[1] .. size - 1
      [] name = "switchCorrectXY" -> to[2] = node[2]
      [] name = "switchSouth"     -> to[2] \in node[2] .. size - 1
      [] name = "switchLeftRight" -> to[1] \in LeftOf(node[1], size) \cup RightOf(node[1], size)
      [] name = "switchLeft"      -> to[1] \in LeftOf(node[1], size)
      [] name = "switchThis"      -> to[1] = node[1]

SourceNames == {"in_local", "source"}
SinkNames   == {"out_local", "sink"}
QueueNames  == {"slaveFuncQueue", "in_west", "in_east", "in_north", "in_south",
            "out_west", "out_east", "out_north", "out_south",
            "incommingLeft", "incommingRight", "incommingAcross"}
MergeNames  == {"merge", "mergeLeftAndRight", "mergeAcrossAndSource", "mergeBoth"}
SwitchNames == {"switchCorrectX", "switchEast", "switchCorrectXY", "switchSouth",
             "switchLeftRight", "switchLeft", "switchThis"}

Nodes == IF shape = "mesh" THEN (0 .. size - 1) \X (0 .. size - 1) ELSE (0 .. size - 1) \X {0}

Add(wires) == channels' = [o \in {w[1] : w \in wires} |-> (CHOOSE w \in wires : w[1] = o)[2]] @@ channels

Create(n) ==
    /\ n \in Nodes \ made /\ \A k \in Nodes \ made : n[1] < k[1] \/ (n[1] = k[1] /\ n[2] <= k[2])
    /\ Add(IF shape = "mesh" THEN MeshNode(n[1], n[2], size, size) ELSE SpidergonNode(n[1]))
    /\ made' = made \cup {n} /\ UNCHANGED <<shape, size, joined, packet>>

Join(n) ==
    /\ made = Nodes
    /\ n \in Nodes \ joined /\ \A k \in Nodes \ joined : n[1] < k[1] \/ (n[1] = k[1] /\ n[2] <= k[2])
    /\ Add(IF shape = "mesh" THEN MeshLinks(n[1], n[2], size, size) ELSE SpidergonLinks(n[1], size))
    /\ joined' = joined \cup {n} /\ UNCHANGED <<shape, size, made, packet>>

(* specMesh() and specSpidergon(): the packets that a node's source sends.  *)
Destinations(n) ==
    IF shape = "mesh"
    THEN IF n[1] >= size \div 2 THEN {}
         ELSE {k \in Nodes : k[1] >= size \div 2 /\ (k[1] # n[1] \/ k[2] # n[2])}
    ELSE Nodes \ {n}

Send(n) ==
    /\ joined = Nodes /\ packet.type = "none"
    /\ \E k \in Destinations(n) :
          packet' = [type |-> "req", from |-> n, to |-> k, queues |-> 0, seen |-> {},
                     at |-> channels[<<<<IF shape = "mesh" THEN "in_local" ELSE "source", n>>, "o">>]]
    /\ UNCHANGED <<shape, size, made, joined, channels>>

Here == packet.at[1]
MoveTo(port, p) ==
    /\ packet' = [p EXCEPT !.at = channels[<<Here, port>>], !.seen = @ \cup {<<packet.type, p.at>>}]
    /\ UNCHANGED <<shape, size, made, joined, channels>>

UnderWay == packet.at # <<>>

ThroughMerge == UnderWay /\ Here[1] \in MergeNames /\ MoveTo("o", packet)

ThroughQueue ==
    UnderWay /\ Here[1] \in QueueNames /\ MoveTo("o", [packet EXCEPT !.queues = @ + 1])

ThroughSwitch ==
    /\ UnderWay /\ Here[1] \in SwitchNames
    /\ MoveTo(IF Matches(Here[1], Here[2], packet.to) THEN "a" ELSE "b", packet)

(* slaveFunc: the answer goes back to where the packet is from.             *)
ThroughFunction ==
    /\ UnderWay /\ Here[1] = "slaveFunc"
    /\ MoveTo("o", [packet EXCEPT !.type = "rsp", !.to = packet.from, !.from = packet.to])

GeneratorInit ==
    /\ \/ shape = "mesh" /\ size \in MeshSizes
       \/ shape = "spidergon" /\ size \in {Pow2RoundUp(s) : s \in SpidergonSizes}
    /\ made = {} /\ joined = {} /\ channels = <<>>
    /\ packet = [type |-> "none", from |-> <<>>, to |-> <<>>, queues |-> 0, seen |-> {}, at |-> <<>>]

GeneratorNext ==
    \/ \E n \in Nodes : Create(n) \/ Join(n) \/ Send(n)
    \/ ThroughMerge \/ ThroughQueue \/ ThroughSwitch \/ ThroughFunction
------------------------------------------------------------------------------
Components == {o[1] : o \in DOMAIN channels} \cup {channels[o][1] : o \in DOMAIN channels}
Ports(c) ==
    CASE c[1] \in SourceNames  -> [in |-> {}, out |-> {"o"}]
      [] c[1] \in SinkNames    -> [in |-> {"i"}, out |-> {}]
      [] c[1] \in MergeNames   -> [in |-> {"a", "b"}, out |-> {"o"}]
      [] c[1] \in SwitchNames -> [in |-> {"i"}, out |-> {"a", "b"}]
      [] OTHER             -> [in |-> {"i"}, out |-> {"o"}]

(* valid() of all components: each port in one channel.                     *)
Complete ==
    /\ DOMAIN channels = UNION {{c} \X Ports(c).out : c \in Components}
    /\ Range(channels) = UNION {{c} \X Ports(c).in : c \in Components}
    /\ IsInjective(channels)

(* What is left when components are taken away that nothing leads to but    *)
(* queues and sources: nothing, if there is no cycle without a queue.       *)
RECURSIVE Peeled(_)
Peeled(cs) ==
    LET fed == {c \in cs : \E o \in DOMAIN channels : channels[o][1] = c /\ o[1] \in cs}
    IN  IF fed = cs THEN cs ELSE Peeled(fed)

Around(i, j) == LET d == (i - j + size) % size IN IF d <= size - d THEN d ELSE size - d
Gap(i, j) == IF i < j THEN j - i ELSE i - j

(* The queues on the shortest way: in a mesh two per neighbour, around the  *)
(* ring one per neighbour, or first across.                                 *)
Shortest(m, n) ==
    IF shape = "mesh" THEN 2 * (Gap(m[1], n[1]) + Gap(m[2], n[2]))
    ELSE IF Around(m[1], n[1]) <= Quarter(size) THEN Around(m[1], n[1])
    ELSE 1 + Around((m[1] + size \div 2) % size, n[1])

(* The networks that are generated are connected throughout, they have no   *)
(* cycle without a queue, and each packet arrives, on the shortest way and  *)
(* without coming by twice: in the mesh at a slave, and its answer at the   *)
(* sink of the node it is from.  A mesh of one node is left unconnected.    *)
GeneratedRoutes ==
    /\ joined = Nodes /\ size > 1 /\ packet.type = "none" =>
          Complete /\ Peeled({c \in Components : c[1] \notin QueueNames}) = {}
    /\ UnderWay => <<packet.type, packet.at>> \notin packet.seen
    /\ UnderWay /\ Here[1] \in SinkNames =>
          /\ Here[2] = packet.to /\ Here[1] = (IF shape = "mesh" THEN "out_local" ELSE "sink")
          /\ packet.type = (IF shape = "mesh" THEN "rsp" ELSE "req")
          /\ packet.queues = IF shape = "mesh" THEN 2 * Shortest(packet.from, packet.to) + 1
                             ELSE Shortest(packet.from, packet.to)
==============================================================================
