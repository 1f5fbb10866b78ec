----------------------------- MODULE SignalNetworks -----------------------------
(***************************************************************************)
(* The handshake signals of an xMAS network and what each of them is       *)
(* computed from, as CombinatorialCycleDependencies of xmv/vt/cycle.cpp    *)
(* has it.                                                                 *)
(*                                                                         *)
(* A component is a record: its kind and the channels on its inputs and    *)
(* its outputs, in port order.  A channel has two signals: irdy is driven  *)
(* by the component that it leaves, trdy by the one that it enters.  (The  *)
(* code names irdy by the output port of the channel, trdy by its input.)  *)
(***************************************************************************)
EXTENDS Integers, FiniteSets, Sequences, Functions

irdy(c) == <<c, "irdy">>
trdy(c) == <<c, "trdy">>

\* The ways out of a component other than channel o.
Others(x, o) == Range(x.out) \ {o}

\* The channels on the inputs of a component other than i.
OtherInputs(x, i) == Range(x.in) \ {i}

\* What irdy of output o of component x depends on.
IrdyNeeds(x, o) ==
    CASE x.kind \in {"source", "queue"} -> {}
      [] x.kind \in {"function", "switch", "merge", "join"} -> {irdy(i) : i \in Range(x.in)}
      [] x.kind = "fork" -> {irdy(i) : i \in Range(x.in)} \cup {trdy(p) : p \in Others(x, o)}

\* What trdy of input i of component x depends on.
TrdyNeeds(x, i) ==
    CASE x.kind \in {"sink", "queue"} -> {}
      [] x.kind \in {"function", "fork"} -> {trdy(o) : o \in Range(x.out)}
      [] x.kind = "switch" -> {irdy(o) : o \in Range(x.out)} \cup {trdy(o) : o \in Range(x.out)}
      [] x.kind = "merge" -> {trdy(o) : o \in Range(x.out)} \cup {irdy(i)}
      [] x.kind = "join" -> {trdy(o) : o \in Range(x.out)} \cup {irdy(j) : j \in OtherInputs(x, i)}
------------------------------------------------------------------------------
\* A network as the checker sees it.  net maps components to records.
Ends(net, ends(_)) == [o \in UNION {ends(net[c]) : c \in DOMAIN net} |->
                          CHOOSE c \in DOMAIN net : o \in ends(net[c])]

Initiators(net) == LET leaving(x) == Range(x.out) IN Ends(net, leaving)

Targets(net) == LET entering(x) == Range(x.in) IN Ends(net, entering)

Driver(net, s) == IF s[2] = "irdy" THEN Initiators(net)[s[1]] ELSE Targets(net)[s[1]]

IsComposite(net, s) == net[Driver(net, s)].kind = "composite"

\* CombinatorialCycleDependencies: the component that drives the signal is
\* visited.
Needs(net, s) ==
    CASE IsComposite(net, s) -> {}
      [] ~ IsComposite(net, s) /\ s[2] = "irdy" -> IrdyNeeds(net[Driver(net, s)], s[1])
      [] ~ IsComposite(net, s) /\ s[2] = "trdy" -> TrdyNeeds(net[Driver(net, s)], s[1])

\* For each component irdy and trdy of the channel at each of its ports.
CheckerView(net) ==
    LET signals == {irdy(c) : c \in DOMAIN Targets(net)} \cup {trdy(c) : c \in DOMAIN Targets(net)}
    IN  [deps |-> [s \in signals |-> Needs(net, s)],
         roots |-> [c \in DOMAIN net |->
                      UNION {{irdy(i), trdy(i)} : i \in Range(net[c].in) \cup Range(net[c].out)}],
         composite |-> {s \in signals : IsComposite(net, s)}]
===============================================================================
