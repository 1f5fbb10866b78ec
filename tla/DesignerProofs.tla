---------------------------- MODULE DesignerProofs ----------------------------
(***************************************************************************)
(* Proofs about Designer and Projects, for any components with any ports,  *)
(* any names and any files.                                                *)
(***************************************************************************)
EXTENDS Designer, SequenceTheorems, TLAPS

\* The pointers lead to ports, and components are found by any names.
RootTypes ==
    /\ components \in [DOMAIN components -> Objects]
    /\ output \in [Outputs -> Inputs \cup {None}]
    /\ input \in [Inputs -> Outputs \cup {None}]

CanvasTypes ==
    /\ name = [c \in OnCanvas |-> name[c]]
    /\ OnCanvas \subseteq dropped
    /\ dropped \subseteq Objects /\ misnamed \subseteq dropped
    /\ channels \subseteq Outputs \X Inputs
    /\ \A ch \in channels : Owner(ch[1]) \in OnCanvas /\ Owner(ch[2]) \in OnCanvas
    /\ wire \in Inputs \cup Outputs \cup {None}

\* The map of the network and the names on the canvas are inverse to each other, but for
\* misnamed components; the names of those are in no map, whose names have no blanks.
Named ==
    /\ \A c \in OnCanvas \ misnamed : name[c] \in DOMAIN components /\ components[name[c]] = c
    /\ \A n \in DOMAIN components :
          components[n] \in misnamed \/ (components[n] \in OnCanvas /\ name[components[n]] = n)
    /\ \A c \in OnCanvas \cap misnamed : Trimmed[name[c]] # name[c]
    /\ \A n \in DOMAIN components : Trimmed[n] = n

\* The channels of the components on the canvas do not leave it, except to misnamed
\* ones; components that were never dropped have none; and those on the canvas are drawn.
Drawn ==
    /\ \A o \in Outputs :
          output[o] # None /\ Owner(o) \in OnCanvas \ misnamed =>
              Owner(output[o]) \in OnCanvas \cup misnamed
    /\ \A o \in Outputs : Owner(o) \notin dropped => output[o] = None
    /\ \A i \in Inputs : Owner(i) \notin dropped => input[i] = None
    /\ \A o \in Outputs, i \in Inputs :
          Owner(o) \notin misnamed /\ Owner(i) \notin misnamed =>
              (<<o, i>> \in channels <=> Owner(o) \in OnCanvas /\ output[o] = i)

\* The port from which a channel is being drawn is on the canvas, and free unless its
\* component is misnamed.
WireIsFree ==
    wire # None =>
        /\ Owner(wire) \in OnCanvas
        /\ wire \in Outputs /\ Owner(wire) \notin misnamed => output[wire] = None
        /\ wire \in Inputs /\ Owner(wire) \notin misnamed => input[wire] = None

\* What the user's actions keep.
CanvasInv ==
    RootTypes /\ CanvasTypes /\ Named /\ ChannelsPaired /\ Drawn /\ WireIsFree
------------------------------------------------------------------------------
\* A port belongs to one component.
LEMMA Owners ==
    /\ \A p \in Inputs \cup Outputs : Owner(p) \in Objects /\ p # None
    /\ \A i \in Inputs, c \in Objects : i \in InputsOf[c] <=> Owner(i) = c
    /\ \A o \in Outputs, c \in Objects : o \in OutputsOf[c] <=> Owner(o) = c
    /\ \A c \in Objects : InputsOf[c] \subseteq Inputs /\ OutputsOf[c] \subseteq Outputs
    /\ Inputs \cap Outputs = {}
    /\ None \notin Objects
<1>1. \A c \in Objects : InputsOf[c] \subseteq Inputs /\ OutputsOf[c] \subseteq Outputs
  BY DEF Inputs, Outputs
<1>2. Inputs \cap Outputs = {} /\ None \notin Objects /\ None \notin Inputs \cup Outputs
  BY PortsAssumption DEF Inputs, Outputs
<1>3. ASSUME NEW p \in Inputs \cup Outputs
      PROVE  Owner(p) \in Objects /\ p \in InputsOf[Owner(p)] \cup OutputsOf[Owner(p)]
  <2>1. \E c \in Objects : p \in InputsOf[c] \cup OutputsOf[c]
    BY DEF Inputs, Outputs
  <2>2. QED
    BY <2>1 DEF Owner
<1>4. ASSUME NEW i \in Inputs, NEW c \in Objects PROVE i \in InputsOf[c] <=> Owner(i) = c
  <2>1. Owner(i) \in Objects /\ i \in InputsOf[Owner(i)]
    BY <1>1, <1>2, <1>3
  <2>2. QED
    BY <2>1, PortsAssumption
<1>5. ASSUME NEW o \in Outputs, NEW c \in Objects PROVE o \in OutputsOf[c] <=> Owner(o) = c
  <2>1. Owner(o) \in Objects /\ o \in OutputsOf[Owner(o)]
    BY <1>1, <1>2, <1>3
  <2>2. QED
    BY <2>1, PortsAssumption
<1>6. QED
  BY <1>1, <1>2, <1>3, <1>4, <1>5

\* Each component on the canvas finds its counterpart, and so do its ports, unless it is
\* misnamed: then it finds nothing.
LEMMA PortsFound ==
    ASSUME Named, CanvasTypes
    PROVE  /\ \A c \in OnCanvas \ misnamed : Counterpart(c) = c
           /\ \A c \in OnCanvas \cap misnamed : name[c] \notin DOMAIN components
           /\ \A p \in Inputs \cup Outputs :
                Owner(p) \in OnCanvas =>
                    /\ HasPort(p) <=> Owner(p) \notin misnamed
                    /\ p \in Outputs /\ Owner(p) \notin misnamed =>
                          (Connected(p) <=> output[p] # None)
                    /\ p \in Inputs /\ Owner(p) \notin misnamed =>
                          (Connected(p) <=> input[p] # None)
<1>1. \A c \in OnCanvas \ misnamed : Counterpart(c) = c
  BY DEF Named, Counterpart
<1>2. \A c \in OnCanvas \cap misnamed : name[c] \notin DOMAIN components
  BY DEF Named
<1>3. \A c \in OnCanvas \cap misnamed : Counterpart(c) = None
  BY <1>2 DEF Counterpart
<1>4. ASSUME NEW p \in Inputs \cup Outputs, Owner(p) \in OnCanvas
      PROVE  HasPort(p) <=> Owner(p) \notin misnamed
  BY <1>1, <1>3, <1>4, Owners DEF HasPort
<1>5. QED
  BY <1>1, <1>2, <1>4, Owners DEF Connected

\* A component is dropped under a name that the network does not know.
LEMMA DropKeeps ==
    ASSUME CanvasInv, NEW c \in Objects, NEW n \in Names, Drop(c, n)
    PROVE  CanvasInv'
<1>1. /\ n \notin DOMAIN components /\ c \notin dropped /\ c \notin OnCanvas
      /\ c \notin misnamed /\ Trimmed[n] = n
  BY NamesAssumption DEF Drop, GenerateName, Insert, CanvasInv, CanvasTypes
<1>2. /\ DOMAIN components' = DOMAIN components \cup {n}
      /\ components'[n] = c
      /\ \A m \in DOMAIN components : components'[m] = components[m]
      /\ components' \in [DOMAIN components' -> Objects]
  BY <1>1 DEF Drop, Insert, CanvasInv, RootTypes
<1>3. /\ OnCanvas' = OnCanvas \cup {c}
      /\ name'[c] = n
      /\ \A d \in OnCanvas : name'[d] = name[d]
      /\ name' = [d \in OnCanvas' |-> name'[d]]
  BY <1>1 DEF Drop, OnCanvas
<1>4. /\ dropped' = dropped \cup {c}
      /\ UNCHANGED <<output, input, channels, wire, misnamed>>
  BY DEF Drop
<1>5. RootTypes' /\ CanvasTypes'
  BY <1>2, <1>3, <1>4 DEF CanvasInv, RootTypes, CanvasTypes
<1>6. Named'
  <2>1. \A m \in DOMAIN components : components'[m] = components[m] /\ m # n
    BY <1>1, <1>2
  <2>2. \A d \in OnCanvas' \ misnamed : name'[d] \in DOMAIN components' /\ components'[name'[d]] = d
    BY <1>2, <1>3, <2>1 DEF CanvasInv, Named
  <2>3. ASSUME NEW m \in DOMAIN components'
        PROVE  components'[m] \in misnamed \/ (components'[m] \in OnCanvas' /\ name'[components'[m]] = m)
    <3>1. CASE m = n
      BY <1>2, <1>3, <3>1
    <3>2. CASE m # n
      BY <1>2, <1>3, <2>1, <3>2 DEF CanvasInv, Named
    <3>3. QED
      BY <3>1, <3>2
  <2>4. \A d \in OnCanvas' \cap misnamed : Trimmed[name'[d]] # name'[d]
    BY <1>1, <1>3 DEF CanvasInv, Named
  <2>5. \A m \in DOMAIN components' : Trimmed[m] = m
    BY <1>1, <1>2 DEF CanvasInv, Named
  <2>6. QED
    BY <1>4, <2>2, <2>3, <2>4, <2>5 DEF Named
<1>7. ChannelsPaired'
  BY <1>4 DEF CanvasInv, ChannelsPaired
<1>8. Drawn'
  <2>1. \A o \in Outputs : Owner(o) = c => output[o] = None
    BY <1>1 DEF CanvasInv, Drawn
  <2>2. QED
    BY <1>3, <1>4, <2>1, Owners DEF CanvasInv, Drawn, RootTypes
<1>9. WireIsFree'
  BY <1>3, <1>4 DEF CanvasInv, WireIsFree
<1>10. QED
  BY <1>5, <1>6, <1>7, <1>8, <1>9 DEF CanvasInv

\* A component gets a new name in the network and on the canvas.
LEMMA RenameKeeps ==
    ASSUME CanvasInv, NEW c \in Objects, NEW n \in Typed, Rename(c, n)
    PROVE  CanvasInv'
<1> DEFINE t == Trimmed[n]
<1>0. c \in OnCanvas /\ name[c] \in DOMAIN components /\ c \notin misnamed
  BY PortsFound DEF Rename, MayRename, CanvasInv
<1>1. /\ components[name[c]] = c
      /\ t \notin DOMAIN components /\ Trimmed[t] = t
  BY <1>0, NamesAssumption DEF Rename, MayRename, CanvasInv, Named
<1>2. components' = [m \in (DOMAIN components \ {name[c]}) \cup {t} |->
                        IF m = t THEN c ELSE components[m]]
  BY <1>1 DEF Rename, ChangeComponentName
<1>3. /\ OnCanvas' = OnCanvas
      /\ name' = [name EXCEPT ![c] = n]
      /\ misnamed' = IF t = n THEN misnamed ELSE misnamed \cup {c}
      /\ UNCHANGED <<output, input, channels, wire, dropped>>
  BY DEF Rename, Kept, OnCanvas
<1> HIDE DEF t
<1>4. name'[c] = n /\ \A d \in OnCanvas : d # c => name'[d] = name[d]
  BY <1>0, <1>3 DEF OnCanvas
<1>5. RootTypes' /\ CanvasTypes'
  <2>1. c \in Objects /\ c \in dropped
    BY <1>0 DEF CanvasInv, CanvasTypes
  <2>2. RootTypes'
    BY <1>2, <1>3 DEF CanvasInv, RootTypes
  <2>3. name' = [d \in OnCanvas' |-> name'[d]]
    BY <1>3 DEF OnCanvas
  <2>4. QED
    BY <1>3, <2>1, <2>2, <2>3 DEF CanvasInv, CanvasTypes
<1>6. Named'
  <2>1. /\ DOMAIN components' = (DOMAIN components \ {name[c]}) \cup {t}
        /\ components'[t] = c
        /\ \A m \in DOMAIN components \ {name[c]} : components'[m] = components[m]
    BY <1>1, <1>2
  <2>2. \A m \in DOMAIN components \ {name[c]} : components[m] # c
    BY <1>0 DEF CanvasInv, Named
  <2>3. CASE t = n
    BY <1>0, <1>1, <1>3, <1>4, <2>1, <2>2, <2>3 DEF CanvasInv, Named
  <2>4. CASE t # n
    <3>1. Trimmed[name'[c]] # name'[c] /\ misnamed' = misnamed \cup {c}
      BY <1>3, <1>4, <2>4 DEF t
    <3>2. QED
      <4>1. \A d \in OnCanvas' \ misnamed' :
               name'[d] \in DOMAIN components' /\ components'[name'[d]] = d
        <5>1. ASSUME NEW d \in OnCanvas \ misnamed, d # c
              PROVE  name[d] \in DOMAIN components \ {name[c]} /\ components[name[d]] = d
          BY <1>1, <5>1 DEF CanvasInv, Named
        <5>2. QED
          BY <1>1, <1>3, <1>4, <2>1, <3>1, <5>1
      <4>2. ASSUME NEW m \in DOMAIN components'
            PROVE  components'[m] \in misnamed' \/
                       (components'[m] \in OnCanvas' /\ name'[components'[m]] = m)
        <5>1. CASE m = t
          BY <2>1, <3>1, <5>1
        <5>2. CASE m # t
          BY <1>3, <1>4, <2>1, <2>2, <3>1, <5>2 DEF CanvasInv, Named
        <5>3. QED
          BY <5>1, <5>2
      <4>3. \A d \in OnCanvas' \cap misnamed' : Trimmed[name'[d]] # name'[d]
        BY <1>3, <1>4, <3>1 DEF CanvasInv, Named
      <4>4. \A m \in DOMAIN components' : Trimmed[m] = m
        BY <1>1, <2>1 DEF CanvasInv, Named
      <4>5. QED
        BY <4>1, <4>2, <4>3, <4>4 DEF Named
  <2>5. QED
    BY <2>3, <2>4
<1>7. ChannelsPaired' /\ Drawn' /\ WireIsFree'
  BY <1>3 DEF CanvasInv, ChannelsPaired, Drawn, WireIsFree
<1>8. QED
  BY <1>5, <1>6, <1>7 DEF CanvasInv

\* A component is removed with its channels, on both sides.
LEMMA DeleteKeeps ==
    ASSUME CanvasInv, NEW c \in Objects, Delete(c)
    PROVE  CanvasInv'
<1>0. CASE c \in misnamed
  <2>1. c \in OnCanvas /\ name[c] \notin DOMAIN components
    BY <1>0, PortsFound DEF Delete, CanvasInv
  <2>2. UNCHANGED <<components, output, input, dropped, misnamed>>
    BY <2>1 DEF Delete, RemoveComponent
  <2>3. /\ OnCanvas' = OnCanvas \ {c}
        /\ name' = [d \in OnCanvas \ {c} |-> name[d]]
        /\ channels' = {ch \in channels : Owner(ch[1]) # c /\ Owner(ch[2]) # c}
        /\ wire' = IF wire \in InputsOf[c] \cup OutputsOf[c] THEN None ELSE wire
    BY DEF Delete, OnCanvas
  <2>4. RootTypes' /\ CanvasTypes'
    BY <2>2, <2>3 DEF CanvasInv, RootTypes, CanvasTypes
  <2>5. Named'
    <3>1. \A d \in OnCanvas' : d \in OnCanvas /\ name'[d] = name[d]
      BY <2>3
    <3>2. \A n \in DOMAIN components : components[n] # c \/ components[n] \in misnamed
      BY <1>0
    <3>3. QED
      BY <2>2, <2>3, <3>1, <3>2 DEF CanvasInv, Named
  <2>9. ChannelsPaired'
    BY <2>2 DEF CanvasInv, ChannelsPaired
  <2>6. Drawn'
    BY <1>0, <2>2, <2>3 DEF CanvasInv, Drawn
  <2>7. WireIsFree'
    <3>1. ASSUME wire' # None
          PROVE  wire' = wire /\ Owner(wire) # c /\ wire \in Inputs \cup Outputs
      BY <2>3, <3>1, Owners DEF CanvasInv, CanvasTypes
    <3>2. QED
      BY <2>2, <2>3, <3>1 DEF CanvasInv, WireIsFree
  <2>8. QED
    BY <2>4, <2>5, <2>6, <2>7, <2>9 DEF CanvasInv
<1> SUFFICES ASSUME c \notin misnamed PROVE CanvasInv'
  BY <1>0
<1>1. c \in OnCanvas /\ name[c] \in DOMAIN components /\ components[name[c]] = c
  BY DEF Delete, CanvasInv, Named
<1>2. /\ output' = [o \in Outputs |-> IF o \in Loosened(c) THEN None ELSE output[o]]
      /\ input' = [i \in Inputs |-> IF input[i] \in Loosened(c) THEN None ELSE input[i]]
      /\ components' = [n \in DOMAIN components \ {name[c]} |-> components[n]]
  BY <1>1 DEF Delete, RemoveComponent
<1>3. /\ OnCanvas' = OnCanvas \ {c}
      /\ name' = [d \in OnCanvas \ {c} |-> name[d]]
      /\ channels' = {ch \in channels : Owner(ch[1]) # c /\ Owner(ch[2]) # c}
      /\ wire' = IF wire \in InputsOf[c] \cup OutputsOf[c] THEN None ELSE wire
      /\ dropped' = dropped /\ misnamed' = misnamed
  BY DEF Delete, OnCanvas
<1>4. \A o \in Outputs : o \in Loosened(c) <=>
            output[o] # None /\ (Owner(o) = c \/ Owner(output[o]) = c)
  BY Owners DEF Loosened, ValidOutput, CanvasInv, ChannelsPaired, RootTypes
<1>5. RootTypes' /\ CanvasTypes'
  BY <1>2, <1>3 DEF CanvasInv, RootTypes, CanvasTypes
<1>6. Named'
  <2>1. \A d \in OnCanvas' : d \in OnCanvas /\ d # c /\ name'[d] = name[d]
    BY <1>3
  <2>2. \A n \in DOMAIN components' :
           /\ n \in DOMAIN components /\ n # name[c] /\ components'[n] = components[n]
    BY <1>2
  <2>3. \A n \in DOMAIN components' : components[n] # c
    BY <1>1, <2>2 DEF CanvasInv, Named
  <2>4. \A d \in OnCanvas' \ misnamed :
           name'[d] \in DOMAIN components' /\ components'[name'[d]] = d
    <3>1. ASSUME NEW d \in OnCanvas' \ misnamed
          PROVE  name[d] \in DOMAIN components /\ components[name[d]] = d /\ name[d] # name[c]
      BY <1>1, <2>1 DEF CanvasInv, Named
    <3>2. QED
      BY <1>2, <2>1, <3>1
  <2>5. \A n \in DOMAIN components' :
           components'[n] \in misnamed \/
               (components'[n] \in OnCanvas' /\ name'[components'[n]] = n)
    BY <1>3, <2>2, <2>3 DEF CanvasInv, Named
  <2>6. /\ \A d \in OnCanvas' \cap misnamed : Trimmed[name'[d]] # name'[d]
        /\ \A n \in DOMAIN components' : Trimmed[n] = n
    BY <2>1, <2>2 DEF CanvasInv, Named
  <2>7. QED
    BY <1>3, <2>4, <2>5, <2>6 DEF Named
<1>7. ChannelsPaired'
  BY <1>2, <1>4, Owners DEF CanvasInv, ChannelsPaired, RootTypes
<1>8. Drawn'
  <2>1. \A o \in Outputs :
           (output'[o] = output[o] /\ o \notin Loosened(c)) \/ output'[o] = None
    BY <1>2
  <2>2. \A i \in Inputs : input'[i] \in {None, input[i]}
    BY <1>2
  <2>3. /\ \A o \in Outputs : Owner(o) \notin dropped' => output'[o] = None
        /\ \A i \in Inputs : Owner(i) \notin dropped' => input'[i] = None
    BY <1>3, <2>1, <2>2 DEF CanvasInv, Drawn
  <2>4. \A o \in Outputs :
           output'[o] # None /\ Owner(o) \in OnCanvas' \ misnamed' =>
               Owner(output'[o]) \in OnCanvas' \cup misnamed'
    BY <1>3, <1>4, <2>1 DEF CanvasInv, Drawn
  <2>5. ASSUME NEW o \in Outputs, NEW i \in Inputs,
               Owner(o) \notin misnamed, Owner(i) \notin misnamed
        PROVE  <<o, i>> \in channels' <=> Owner(o) \in OnCanvas' /\ output'[o] = i
    <3>1. (Owner(o) \in OnCanvas /\ output[o] = i /\ Owner(o) # c /\ Owner(i) # c)
                    <=> (Owner(o) \in OnCanvas' /\ output'[o] = i)
      BY <1>2, <1>3, <1>4, Owners
    <3>2. <<o, i>> \in channels <=> Owner(o) \in OnCanvas /\ output[o] = i
      BY <2>5 DEF CanvasInv, Drawn
    <3>3. <<o, i>> \in channels' <=> <<o, i>> \in channels /\ Owner(o) # c /\ Owner(i) # c
      BY <1>3
    <3>4. QED
      BY <3>1, <3>2, <3>3
  <2>6. QED
    BY <1>3, <2>3, <2>4, <2>5 DEF Drawn
<1>9. WireIsFree'
  <2>1. ASSUME wire' # None PROVE wire' = wire /\ Owner(wire) # c /\ wire \in Inputs \cup Outputs
    BY <1>3, <2>1, Owners DEF CanvasInv, CanvasTypes
  <2>2. QED
    BY <1>2, <1>3, <2>1 DEF CanvasInv, WireIsFree
<1>10. QED
  BY <1>5, <1>6, <1>7, <1>8, <1>9 DEF CanvasInv
------------------------------------------------------------------------------
\* A port is pressed, for the first time.
LEMMA StartWireKeeps ==
    ASSUME CanvasInv, NEW p \in Inputs \cup Outputs, StartWire(p)
    PROVE  CanvasInv'
<1>1. /\ wire' = p /\ Owner(p) \in OnCanvas /\ ~ Connected(p)
      /\ UNCHANGED <<components, output, input, name, channels, dropped, misnamed>>
  BY DEF StartWire, MayPress, rootVars
<1>2. /\ p \in Outputs /\ Owner(p) \notin misnamed => output[p] = None
      /\ p \in Inputs /\ Owner(p) \notin misnamed => input[p] = None
  BY <1>1, PortsFound DEF CanvasInv
<1>3. OnCanvas' = OnCanvas
  BY <1>1 DEF OnCanvas
<1>4. WireIsFree'
  BY <1>1, <1>2, <1>3 DEF WireIsFree
<1>5. RootTypes' /\ CanvasTypes' /\ Named' /\ ChannelsPaired' /\ Drawn'
  BY <1>1, <1>3 DEF CanvasInv, RootTypes, CanvasTypes, Named, ChannelsPaired, Drawn
<1>6. QED
  BY <1>4, <1>5 DEF CanvasInv

\* A second port is pressed: if both are found they are free, and connect() overwrites
\* nothing; if one is not, the channel is drawn and the network is left alone.
LEMMA EndWireKeeps ==
    ASSUME CanvasInv, NEW p \in Inputs \cup Outputs, EndWire(p)
    PROVE  CanvasInv'
<1>1. PICK o \in Outputs, i \in Inputs :
          /\ {o, i} = {p, wire}
          /\ channels' = channels \cup {<<o, i>>}
          /\ IF HasPort(o) /\ HasPort(i) THEN Connect(o, i) ELSE UNCHANGED <<output, input>>
  <2>1. wire \in Inputs \cup Outputs /\ (wire \in Inputs <=> p \in Outputs)
    BY DEF EndWire, IsValidPort, CanvasInv, CanvasTypes
  <2>2. CASE p \in Outputs
    BY <2>1, <2>2 DEF EndWire
  <2>3. CASE p \in Inputs
    BY <2>1, <2>3, Owners DEF EndWire
  <2>4. QED
    BY <2>2, <2>3
<1>2. /\ wire' = None /\ Owner(p) \in OnCanvas /\ ~ Connected(p) /\ wire # None
      /\ UNCHANGED <<components, name, dropped, misnamed>>
  BY DEF EndWire, MayPress, WireAfter
<1>3. /\ Owner(o) \in OnCanvas /\ Owner(i) \in OnCanvas
      /\ Owner(o) \notin misnamed => output[o] = None
      /\ Owner(i) \notin misnamed => input[i] = None
  <2>1. /\ p \in Outputs /\ Owner(p) \notin misnamed => output[p] = None
        /\ p \in Inputs /\ Owner(p) \notin misnamed => input[p] = None
    BY <1>2, PortsFound DEF CanvasInv
  <2>2. QED
    BY <1>1, <1>2, <2>1, Owners DEF CanvasInv, WireIsFree
<1>5. OnCanvas' = OnCanvas
  BY <1>2 DEF OnCanvas
<1>0. CASE Owner(o) \in misnamed \/ Owner(i) \in misnamed
  <2>1. UNCHANGED <<output, input>>
    BY <1>0, <1>1, <1>3, PortsFound DEF CanvasInv
  <2>2. RootTypes' /\ Named' /\ WireIsFree' /\ ChannelsPaired'
    BY <1>2, <1>5, <2>1 DEF CanvasInv, RootTypes, Named, WireIsFree, ChannelsPaired
  <2>6. CanvasTypes'
    BY <1>1, <1>2, <1>3, <1>5 DEF CanvasInv, CanvasTypes
  <2>3. \A u \in Outputs, v \in Inputs :
           Owner(u) \notin misnamed /\ Owner(v) \notin misnamed =>
               (<<u, v>> \in channels' <=> <<u, v>> \in channels)
    BY <1>0, <1>1
  <2>4. Drawn'
    BY <1>2, <1>5, <2>1, <2>3 DEF CanvasInv, Drawn
  <2>5. QED
    BY <2>2, <2>4, <2>6 DEF CanvasInv
<1> SUFFICES ASSUME Owner(o) \notin misnamed, Owner(i) \notin misnamed PROVE CanvasInv'
  BY <1>0
<1>4. /\ output' = [output EXCEPT ![o] = i]
      /\ input' = [input EXCEPT ![i] = o]
  BY <1>1, <1>3, PortsFound DEF CanvasInv, Connect
<1>6. RootTypes' /\ CanvasTypes' /\ Named' /\ WireIsFree'
  BY <1>1, <1>2, <1>4, <1>5 DEF CanvasInv, RootTypes, CanvasTypes, Named, WireIsFree
<1>7. ChannelsPaired'
  BY <1>3, <1>4, Owners DEF CanvasInv, ChannelsPaired, RootTypes
<1>8. Drawn'
  <2>1. /\ output'[o] = i /\ input'[i] = o
        /\ \A u \in Outputs : u # o => output'[u] = output[u]
        /\ \A v \in Inputs : v # i => input'[v] = input[v]
    BY <1>4 DEF CanvasInv, RootTypes
  <2>2. ASSUME NEW u \in Outputs, NEW v \in Inputs,
               Owner(u) \notin misnamed, Owner(v) \notin misnamed
        PROVE  <<u, v>> \in channels' <=> Owner(u) \in OnCanvas' /\ output'[u] = v
    <3>1. <<u, v>> \in channels <=> Owner(u) \in OnCanvas /\ output[u] = v
      BY <2>2 DEF CanvasInv, Drawn
    <3>2. \A x \in Inputs : output[o] # x
      BY <1>3, Owners
    <3>3. <<u, v>> \in channels' <=> <<u, v>> \in channels \/ (u = o /\ v = i)
      BY <1>1
    <3>4. CASE u = o
      BY <1>3, <1>5, <2>1, <3>1, <3>2, <3>3, <3>4
    <3>5. CASE u # o
      BY <1>5, <2>1, <3>1, <3>3, <3>5
    <3>6. QED
      BY <3>4, <3>5
  <2>3. QED
    BY <1>2, <1>3, <1>5, <2>1, <2>2 DEF CanvasInv, CanvasTypes, Drawn
<1>9. QED
  BY <1>6, <1>7, <1>8 DEF CanvasInv

\* A channel is deleted, in the network as well.
LEMMA DeleteChannelKeeps ==
    ASSUME CanvasInv, NEW o \in Outputs, NEW i \in Inputs, DeleteChannel(o, i)
    PROVE  CanvasInv'
<1>0. CASE Owner(o) \in misnamed \/ Owner(i) \in misnamed
  <2>1. Owner(o) \in OnCanvas /\ Owner(i) \in OnCanvas
    BY DEF DeleteChannel, CanvasInv, CanvasTypes
  <2>2. ~ (HasPort(o) /\ HasPort(i))
    BY <1>0, <2>1, PortsFound DEF CanvasInv
  <2>3. /\ channels' = channels \ {<<o, i>>}
        /\ UNCHANGED <<components, name, wire, dropped, misnamed, output, input>>
    BY <2>2 DEF DeleteChannel
  <2>4. OnCanvas' = OnCanvas
    BY <2>3 DEF OnCanvas
  <2>5. RootTypes' /\ CanvasTypes' /\ Named' /\ ChannelsPaired' /\ WireIsFree'
    BY <2>3, <2>4 DEF CanvasInv, RootTypes, CanvasTypes, Named, ChannelsPaired, WireIsFree
  <2>6. Drawn'
    BY <1>0, <2>3, <2>4 DEF CanvasInv, Drawn
  <2>7. QED
    BY <2>5, <2>6 DEF CanvasInv
<1> SUFFICES ASSUME Owner(o) \notin misnamed, Owner(i) \notin misnamed PROVE CanvasInv'
  BY <1>0
<1>1. /\ Owner(o) \in OnCanvas /\ output[o] = i /\ Owner(i) \in OnCanvas /\ input[i] = o
  BY Owners DEF DeleteChannel, CanvasInv, CanvasTypes, Drawn, ChannelsPaired
<1>2. /\ input' = [input EXCEPT ![i] = None]
      /\ output' = [output EXCEPT ![o] = None]
  <2>1. HasPort(o) /\ HasPort(i)
    BY <1>1, PortsFound DEF CanvasInv
  <2>2. output[o] \in InputsOf[Owner(i)]
    BY <1>1, Owners
  <2>3. ValidOutput(o)
    BY <1>1, Owners DEF ValidOutput
  <2>4. QED
    BY <1>1, <2>1, <2>2, <2>3 DEF DeleteChannel, Disconnect
<1>3. /\ channels' = channels \ {<<o, i>>}
      /\ UNCHANGED <<components, name, wire, dropped, misnamed>>
  BY DEF DeleteChannel
<1>4. OnCanvas' = OnCanvas
  BY <1>3 DEF OnCanvas
<1>5. RootTypes' /\ CanvasTypes' /\ Named'
  BY <1>2, <1>3, <1>4 DEF CanvasInv, RootTypes, CanvasTypes, Named
<1>6. ChannelsPaired'
  BY <1>1, <1>2, Owners DEF CanvasInv, ChannelsPaired, RootTypes
<1>7. WireIsFree'
  BY <1>2, <1>3, <1>4 DEF CanvasInv, WireIsFree, RootTypes
<1>8. Drawn'
  <2>1. /\ output'[o] = None /\ input'[i] = None
        /\ \A u \in Outputs : u # o => output'[u] = output[u]
        /\ \A v \in Inputs : v # i => input'[v] = input[v]
    BY <1>2 DEF CanvasInv, RootTypes
  <2>2. ASSUME NEW u \in Outputs, NEW v \in Inputs,
               Owner(u) \notin misnamed, Owner(v) \notin misnamed
        PROVE  <<u, v>> \in channels' <=> Owner(u) \in OnCanvas' /\ output'[u] = v
    <3>1. <<u, v>> \in channels <=> Owner(u) \in OnCanvas /\ output[u] = v
      BY <2>2 DEF CanvasInv, Drawn
    <3>2. <<u, v>> \in channels' <=> <<u, v>> \in channels /\ ~ (u = o /\ v = i)
      BY <1>3
    <3>3. QED
      BY <1>1, <1>4, <2>1, <3>1, <3>2, Owners
  <2>3. QED
    BY <1>3, <1>4, <2>1, <2>2 DEF CanvasInv, Drawn
<1>9. QED
  BY <1>5, <1>6, <1>7, <1>8 DEF CanvasInv

\* The networks of composites have nothing to do with the canvas.
LEMMA CanvasUntouched ==
    ASSUME CanvasInv,
           UNCHANGED <<components, output, input, name, channels, wire, dropped, misnamed>>
    PROVE  CanvasInv'
BY DEF CanvasInv, RootTypes, CanvasTypes, Named, ChannelsPaired, Drawn, WireIsFree, OnCanvas
------------------------------------------------------------------------------
\* The canvas begins empty.
LEMMA CanvasAtFirst == Init => CanvasInv
<1> SUFFICES ASSUME Init PROVE CanvasInv
  OBVIOUS
<1>1. DOMAIN components = {} /\ DOMAIN name = {} /\ name = [c \in {} |-> name[c]]
      /\ components \in [{} -> Objects]
  BY DEF Init, ProjectInit
<1>2. RootTypes /\ CanvasTypes /\ Named
  BY <1>1 DEF Init, ProjectInit, RootTypes, CanvasTypes, Named, OnCanvas
<1>3. ChannelsPaired /\ Drawn /\ WireIsFree
  BY <1>1, Owners DEF Init, ProjectInit, ChannelsPaired, Drawn, WireIsFree, OnCanvas
<1>4. QED
  BY <1>2, <1>3 DEF CanvasInv

LEMMA NewModelKeeps == ASSUME CanvasInv, NewModel PROVE CanvasInv'
<1>1. /\ DOMAIN components' = {} /\ OnCanvas' = {} /\ name' = [c \in {} |-> name'[c]]
      /\ components' \in [{} -> Objects]
      /\ channels' = {} /\ wire' = None /\ UNCHANGED <<dropped, misnamed, output, input>>
  BY DEF NewModel, Clear, OnCanvas
<1>2. RootTypes' /\ CanvasTypes' /\ Named'
  BY <1>1 DEF CanvasInv, RootTypes, CanvasTypes, Named
<1>3. ChannelsPaired' /\ Drawn' /\ WireIsFree'
  BY <1>1 DEF CanvasInv, ChannelsPaired, Drawn, WireIsFree
<1>4. QED
  BY <1>2, <1>3 DEF CanvasInv

LEMMA StepKeepsCanvas == CanvasInv /\ [Next]_vars => CanvasInv'
<1> SUFFICES ASSUME CanvasInv, [Next]_vars PROVE CanvasInv'
  OBVIOUS
<1>0. CASE \E c \in Objects : \E n \in Names : Drop(c, n)
  BY <1>0, DropKeeps
<1>1. CASE \E c \in Objects : Delete(c) \/ \E n \in Typed : Rename(c, n)
  BY <1>1, DeleteKeeps, RenameKeeps
<1>2. CASE \E p \in Inputs \cup Outputs : StartWire(p) \/ EndWire(p)
  BY <1>2, StartWireKeeps, EndWireKeeps
<1>3. CASE CancelWire
  BY <1>3 DEF CancelWire, rootVars, CanvasInv, RootTypes, CanvasTypes, Named,
              ChannelsPaired, Drawn, WireIsFree, OnCanvas
<1>4. CASE \E o \in Outputs, i \in Inputs : DeleteChannel(o, i)
  BY <1>4, DeleteChannelKeeps
<1>5. CASE NewModel
  BY <1>5, NewModelKeeps
<1>6. CASE \E f \in Files : LoadComposite(f) \/ UnloadComposite(f)
  BY <1>6, CanvasUntouched DEF LoadComposite, UnloadComposite, UnloadNetwork, rootVars,
                               canvasVars
<1>7. CASE LoadStep
  BY <1>7, CanvasUntouched DEF LoadStep, Resolve, LoadUsed, FinishLoad, AbortLoad, rootVars,
                               canvasVars
<1>8. CASE UNCHANGED vars
  BY <1>8, CanvasUntouched DEF vars, rootVars, canvasVars
<1>9. QED
  BY <1>0, <1>1, <1>2, <1>3, <1>4, <1>5, <1>6, <1>7, <1>8 DEF Next

\* The invariant holds after any edits, also with a wire pending and in a new model.
THEOREM CanvasInvariance == Spec => []CanvasInv
BY CanvasAtFirst, StepKeepsCanvas, PTL DEF Spec

\* No pointer between two ports is ever overwritten without the one that leads back:
\* connect() does not ask, but only free ports come to it (xmas.cpp:85, XPort.qml).
THEOREM ChannelsStayPaired == Spec => []ChannelsPaired
BY CanvasInvariance, PTL DEF CanvasInv

\* Whatever the user does, components on the canvas find their own counterparts by
\* name, the network has no others, and the channels drawn are those of the network;
\* all but the components that got a name with blanks around it (component.cpp:70).
THEOREM CanvasStaysMirror == Spec => []CanvasMirrorsNetwork
<1>1. CanvasInv => CanvasMirrorsNetwork
  <2> SUFFICES ASSUME CanvasInv PROVE CanvasMirrorsNetwork
    OBVIOUS
  <2>1. \A c \in OnCanvas \ misnamed : Counterpart(c) = c
    BY PortsFound DEF CanvasInv
  <2>2. InRoot \ misnamed = OnCanvas \ misnamed
    BY DEF CanvasInv, RootTypes, Named, InRoot, Range
  <2>3. ASSUME NEW ch \in Outputs \X Inputs,
               Owner(ch[1]) \notin misnamed, Owner(ch[2]) \notin misnamed
        PROVE  ch \in channels <=> Owner(ch[1]) \in OnCanvas /\ output[ch[1]] = ch[2]
    BY <2>3 DEF CanvasInv, Drawn
  <2>4. channels \subseteq Outputs \X Inputs
    BY DEF CanvasInv, CanvasTypes
  <2>5. QED
    BY <2>1, <2>2, <2>3, <2>4 DEF CanvasMirrorsNetwork, WellNamed
<1>2. QED
  BY CanvasInvariance, <1>1, PTL
------------------------------------------------------------------------------
\* The books of the networks that are loaded.
RegistryTypes ==
    /\ refersTo \in [Composites -> Files \cup {None}]
    /\ networks \in [DOMAIN networks -> {"dummy", "loaded"}]
    /\ DOMAIN networks \subseteq Files
    /\ uses \in [Files -> SUBSET (Files \X {"dummy", "loaded"})]
    /\ loading \in Seq(Files)

\* The networks whose loading is not finished are dummies, each used in turn by those
\* before it.
Stacked ==
    /\ \A i \in DOMAIN loading : loading[i] \in DOMAIN networks /\ networks[loading[i]] = "dummy"
    /\ \A i, j \in DOMAIN loading : loading[i] = loading[j] => i = j
    /\ \A i, j \in DOMAIN loading : i <= j => UsesInTurn(loading[i], loading[j])

InLoading == {loading[i] : i \in DOMAIN loading}

\* References of networks lead to networks that are there, and if to a dummy to one that
\* a failed load left behind; or they close a circle; and what is not there has none.
Lasting(u) == u[1] \in DOMAIN networks /\ networks[u[1]] = u[2] /\ u[1] \notin InLoading
Circular(f, u) == u[2] = "dummy" /\ UsesInTurn(u[1], f)

References ==
    /\ \A f \in Files : \A u \in uses[f] : Lasting(u) \/ Circular(f, u)
    /\ \A f \in Files \ (Loaded \cup InLoading) : uses[f] = {}

RootRefers == \A c \in InRoot \cap Composites : refersTo[c] \in Loaded

RegistryInv == RegistryTypes /\ Stacked /\ References /\ RootRefers

\* The networks that are being loaded use the one on top of the stack in turn.
LEMMA TopIsUsed ==
    ASSUME RegistryTypes, Stacked, loading # <<>>
    PROVE  /\ Loading \in Files /\ Loading \in InLoading
           /\ \A g \in InLoading : networks[g] = "dummy" /\ UsesInTurn(g, Loading)
<1>1. /\ Len(loading) \in DOMAIN loading /\ Loading = loading[Len(loading)]
      /\ DOMAIN loading = 1 .. Len(loading) /\ Len(loading) \in Nat
      /\ \A i \in DOMAIN loading : loading[i] \in Files
  BY DEF RegistryTypes, Loading, Last
<1>2. QED
  BY <1>1 DEF Stacked, InLoading

\* Pushing a file that is in no map yet: f is not loaded and nothing refers to it.
LEMMA EnterLoadKeeps ==
    ASSUME RegistryInv, NEW f \in Files, EnterLoad(f), UNCHANGED <<components, refersTo>>,
           loading # <<>> => f \in Uses[Loading]
    PROVE  RegistryInv'
<1>1. /\ f \notin DOMAIN networks
      /\ networks' = [g \in DOMAIN networks \cup {f} |-> IF g = f THEN "dummy" ELSE networks[g]]
      /\ loading' = Append(loading, f)
      /\ uses' = uses
  BY DEF EnterLoad, Register
<1>2. /\ DOMAIN networks' = DOMAIN networks \cup {f} /\ networks'[f] = "dummy"
      /\ \A g \in DOMAIN networks : networks'[g] = networks[g]
  BY <1>1
<1>3. /\ Len(loading) \in Nat /\ DOMAIN loading = 1 .. Len(loading)
      /\ DOMAIN loading' = 1 .. Len(loading) + 1 /\ loading' \in Seq(Files)
      /\ \A i \in DOMAIN loading : loading'[i] = loading[i]
      /\ loading'[Len(loading) + 1] = f
  BY <1>1 DEF RegistryInv, RegistryTypes
<1>4. \A i \in DOMAIN loading : loading[i] # f
  BY <1>1 DEF RegistryInv, Stacked
<1>5. InLoading' = InLoading \cup {f}
  BY <1>3 DEF InLoading
<1>6. Loaded' = Loaded
  BY <1>1, <1>2 DEF Loaded
<1>7. RegistryTypes'
  BY <1>1, <1>3 DEF RegistryInv, RegistryTypes
<1>8. Stacked'
  <2>1. \A i \in DOMAIN loading' :
           loading'[i] \in DOMAIN networks' /\ networks'[loading'[i]] = "dummy"
    BY <1>2, <1>3 DEF RegistryInv, Stacked
  <2>2. \A i, j \in DOMAIN loading' : loading'[i] = loading'[j] => i = j
    BY <1>3, <1>4 DEF RegistryInv, Stacked
  <2>3. ASSUME NEW i \in DOMAIN loading', NEW j \in DOMAIN loading', i <= j
        PROVE  UsesInTurn(loading'[i], loading'[j])
    <3>1. CASE j # Len(loading) + 1
      BY <1>3, <2>3, <3>1 DEF RegistryInv, Stacked
    <3>2. CASE i = Len(loading) + 1
      BY <1>3, <2>3, <3>2 DEF UsesInTurn
    <3>3. CASE j = Len(loading) + 1 /\ i # Len(loading) + 1
      <4>1. loading'[i] \in InLoading /\ loading # <<>>
        BY <1>3, <2>3, <3>3 DEF InLoading
      <4>2. UsesInTurn(loading'[i], Loading) /\ f \in Uses[Loading] /\ Loading \in Files
        BY <4>1, TopIsUsed DEF RegistryInv
      <4>3. QED
        BY <1>3, <3>3, <4>2 DEF UsesInTurn
    <3>4. QED
      BY <3>1, <3>2, <3>3
  <2>4. QED
    BY <2>1, <2>2, <2>3 DEF Stacked
<1>9. References'
  <2>1. ASSUME NEW g \in Files, NEW u \in uses[g] PROVE Lasting(u)' \/ Circular(g, u)
    <3>1. CASE Lasting(u)
      <4>1. u[1] \in DOMAIN networks /\ networks[u[1]] = u[2] /\ u[1] \notin InLoading
        BY <3>1 DEF Lasting
      <4>2. u[1] # f
        BY <1>1, <4>1
      <4>3. QED
        BY <1>2, <1>5, <4>1, <4>2 DEF Lasting
    <3>2. QED
      BY <3>1 DEF RegistryInv, References
  <2>2. \A g \in Files \ (Loaded' \cup InLoading') : uses[g] = {}
    BY <1>5, <1>6 DEF RegistryInv, References
  <2>3. QED
    BY <1>1, <2>1, <2>2 DEF References
<1>10. RootRefers'
  BY <1>6 DEF RegistryInv, RootRefers, InRoot
<1>11. QED
  BY <1>7, <1>8, <1>9, <1>10 DEF RegistryInv

\* A composite of the network on top finds another network.
LEMMA ResolveKeeps ==
    ASSUME RegistryInv, NEW g \in Files, Resolve(g)
    PROVE  RegistryInv'
<1>1. /\ Loading \in Files /\ Loading \in InLoading /\ g \in DOMAIN networks
      /\ g \in InLoading => networks[g] = "dummy" /\ UsesInTurn(g, Loading)
  BY TopIsUsed DEF Resolve, RegistryInv
<1>2. /\ uses' = [uses EXCEPT ![Loading] = @ \cup {<<g, networks[g]>>}]
      /\ UNCHANGED <<networks, loading, components, refersTo>>
  BY DEF Resolve, rootVars
<1>3. /\ uses'[Loading] = uses[Loading] \cup {<<g, networks[g]>>}
      /\ \A f \in Files : f # Loading => uses'[f] = uses[f]
  BY <1>1, <1>2 DEF RegistryInv, RegistryTypes
<1>4. networks[g] \in {"dummy", "loaded"}
  BY <1>1 DEF RegistryInv, RegistryTypes
<1>5. RegistryTypes'
  BY <1>1, <1>2, <1>4 DEF RegistryInv, RegistryTypes
<1>6. Loaded' = Loaded /\ InLoading' = InLoading /\ InRoot' = InRoot
  BY <1>2 DEF Loaded, InLoading, InRoot
<1>7. References'
  <2>1. ASSUME NEW f \in Files, NEW u \in uses'[f] PROVE Lasting(u) \/ Circular(f, u)
    <3>1. CASE u \in uses[f]
      BY <3>1 DEF RegistryInv, References
    <3>2. CASE f = Loading /\ u = <<g, networks[g]>>
      BY <1>1, <3>2 DEF Lasting, Circular
    <3>3. QED
      BY <1>3, <2>1, <3>1, <3>2
  <2>2. \A f \in Files \ (Loaded \cup InLoading) : uses'[f] = {}
    BY <1>1, <1>3 DEF RegistryInv, References
  <2>3. QED
    BY <1>2, <1>6, <2>1, <2>2 DEF References, Lasting
<1>8. Stacked' /\ RootRefers'
  BY <1>2, <1>6 DEF RegistryInv, Stacked, RootRefers
<1>9. QED
  BY <1>5, <1>7, <1>8 DEF RegistryInv

\* A composite of the network on top needs a network that is not there.
LEMMA LoadUsedKeeps ==
    ASSUME RegistryInv, NEW g \in Files, LoadUsed(g)
    PROVE  RegistryInv'
BY EnterLoadKeeps DEF LoadUsed, Unresolved, rootVars

\* The network takes the place of its dummy: nobody refers to that but in a circle.
LEMMA FinishLoadKeeps ==
    ASSUME RegistryInv, FinishLoad
    PROVE  RegistryInv'
<1> DEFINE n == Len(loading)
<1>1. /\ Loading = loading[n] /\ n \in DOMAIN loading /\ DOMAIN loading = 1 .. n /\ n \in Nat
      /\ loading' = SubSeq(loading, 1, n - 1)
      /\ loading \in Seq(Files)
  BY DEF FinishLoad, Loading, Last, Front, RegistryInv, RegistryTypes
<1> HIDE DEF n
<1>2. /\ loading' \in Seq(Files) /\ DOMAIN loading' = 1 .. n - 1
      /\ \A i \in 1 .. n - 1 : loading'[i] = loading[i]
  BY <1>1
<1>3. Loading \in Files /\ Loading \in DOMAIN networks /\ Loading \in InLoading
  BY <1>1, TopIsUsed DEF RegistryInv, Stacked, FinishLoad
<1>4. /\ networks' = [g \in DOMAIN networks |-> IF g = Loading THEN "loaded" ELSE networks[g]]
      /\ UNCHANGED <<uses, components, refersTo>>
  BY <1>3 DEF FinishLoad, Register, rootVars
<1>5. InLoading' = InLoading \ {Loading}
  <2>1. \A i \in 1 .. n - 1 : loading[i] # Loading
    BY <1>1 DEF RegistryInv, Stacked
  <2>2. \A i \in 1 .. n : i \in 1 .. n - 1 \/ loading[i] = Loading
    BY <1>1
  <2>3. \A i \in 1 .. n - 1 : i \in 1 .. n
    BY <1>1
  <2>4. QED
    BY <1>1, <1>2, <2>1, <2>2, <2>3 DEF InLoading
<1>6. Loaded' = Loaded \cup {Loading}
  BY <1>3, <1>4 DEF Loaded
<1>7. RegistryTypes'
  BY <1>2, <1>4 DEF RegistryInv, RegistryTypes
<1>8. Stacked'
  <2>1. \A i \in DOMAIN loading' : i \in DOMAIN loading /\ i # n /\ loading'[i] = loading[i]
    BY <1>1, <1>2
  <2>3. \A i \in DOMAIN loading' :
           loading'[i] \in DOMAIN networks' /\ networks'[loading'[i]] = "dummy"
    BY <1>1, <1>4, <2>1 DEF RegistryInv, Stacked
  <2>4. \A i, j \in DOMAIN loading' : loading'[i] = loading'[j] => i = j
    BY <2>1 DEF RegistryInv, Stacked
  <2>5. \A i, j \in DOMAIN loading' : i <= j => UsesInTurn(loading'[i], loading'[j])
    BY <2>1 DEF RegistryInv, Stacked
  <2>6. QED
    BY <2>3, <2>4, <2>5 DEF Stacked
<1>9. References'
  <2>1. ASSUME NEW f \in Files, NEW u \in uses[f] PROVE Lasting(u)' \/ Circular(f, u)
    <3>1. CASE Lasting(u)
      <4>1. u[1] \in DOMAIN networks /\ networks[u[1]] = u[2] /\ u[1] \notin InLoading
        BY <3>1 DEF Lasting
      <4>2. u[1] # Loading
        BY <1>3, <4>1
      <4>3. QED
        BY <1>4, <1>5, <4>1, <4>2 DEF Lasting
    <3>2. QED
      BY <3>1 DEF RegistryInv, References
  <2>2. \A f \in Files \ (Loaded' \cup InLoading') : uses[f] = {}
    BY <1>5, <1>6 DEF RegistryInv, References
  <2>3. QED
    BY <1>4, <2>1, <2>2 DEF References
<1>10. RootRefers'
  BY <1>4, <1>6 DEF RegistryInv, RootRefers, InRoot
<1>11. QED
  BY <1>7, <1>8, <1>9, <1>10 DEF RegistryInv

\* A load fails, and with it all that are waiting for it; their dummies stay.
LEMMA AbortLoadKeeps ==
    ASSUME RegistryInv, AbortLoad
    PROVE  RegistryInv'
<1>1. /\ uses' = [f \in Files |-> IF f \in ToSet(loading) THEN {} ELSE uses[f]]
      /\ loading' = <<>>
      /\ UNCHANGED <<networks, components, refersTo>>
  BY DEF AbortLoad, rootVars
<1>2. ToSet(loading) = InLoading /\ InLoading' = {} /\ loading' \in Seq(Files)
  BY <1>1 DEF ToSet, InLoading
<1>3. Loaded' = Loaded /\ InRoot' = InRoot
  BY <1>1 DEF Loaded, InRoot
<1>4. RegistryTypes'
  BY <1>1, <1>2 DEF RegistryInv, RegistryTypes
<1>5. References'
  BY <1>1, <1>2, <1>3 DEF RegistryInv, References, Lasting
<1>6. Stacked' /\ RootRefers'
  BY <1>1, <1>3 DEF RegistryInv, Stacked, RootRefers
<1>7. QED
  BY <1>4, <1>5, <1>6 DEF RegistryInv

\* A network is unloaded that no composite refers to.
LEMMA UnloadKeeps ==
    ASSUME RegistryInv, NEW f \in Files, UnloadNetwork(f)
    PROVE  RegistryInv'
<1>1. /\ loading = <<>> /\ f \in Loaded /\ ~ InUse(f)
      /\ networks' = [g \in DOMAIN networks \ {f} |-> networks[g]]
      /\ uses' = [uses EXCEPT ![f] = {}]
      /\ UNCHANGED <<loading, components, refersTo>>
  BY DEF UnloadNetwork, rootVars
<1>2. InLoading = {} /\ InLoading' = {}
  BY <1>1 DEF InLoading
<1>3. Loaded' = Loaded \ {f}
  BY <1>1 DEF Loaded
<1>4. /\ uses'[f] = {}
      /\ \A g \in Files : g # f => uses'[g] = uses[g]
  BY <1>1 DEF RegistryInv, RegistryTypes
<1>5. RegistryTypes' /\ Stacked'
  BY <1>1 DEF RegistryInv, RegistryTypes, Stacked
<1>6. References'
  <2>1. ASSUME NEW g \in Files, NEW u \in uses'[g] PROVE Lasting(u)' \/ Circular(g, u)
    <3>1. g # f /\ u \in uses[g] /\ g \in Loaded
      BY <1>2, <1>4, <2>1 DEF RegistryInv, References
    <3>2. CASE Lasting(u)
      <4>1. u[1] \in DOMAIN networks /\ networks[u[1]] = u[2]
        BY <3>2 DEF Lasting
      <4>2. u = <<u[1], u[2]>>
        BY <3>1 DEF RegistryInv, RegistryTypes
      <4>3. u[1] # f
        BY <1>1, <3>1, <4>1, <4>2 DEF InUse, Loaded
      <4>4. QED
        BY <1>1, <1>2, <4>1, <4>3 DEF Lasting
    <3>3. QED
      BY <3>1, <3>2 DEF RegistryInv, References
  <2>2. \A g \in Files \ (Loaded' \cup InLoading') : uses'[g] = {}
    BY <1>2, <1>3, <1>4 DEF RegistryInv, References
  <2>3. QED
    BY <1>2, <2>1, <2>2 DEF References
<1>7. RootRefers'
  BY <1>1, <1>3 DEF RegistryInv, RootRefers, InRoot, InUse
<1>8. QED
  BY <1>5, <1>6, <1>7 DEF RegistryInv

\* What the canvas does to the root network.
LEMMA RootKeeps ==
    ASSUME RegistryInv, UNCHANGED registryVars,
           refersTo' \in [Composites -> Files \cup {None}],
           \A c \in InRoot' \cap Composites : refersTo'[c] \in Loaded
    PROVE  RegistryInv'
BY DEF RegistryInv, RegistryTypes, Stacked, References, Lasting, RootRefers, registryVars,
       Loaded, InLoading

LEMMA CanvasKeepsRegistry ==
    ASSUME RegistryInv, NEW c \in Objects,
           \/ \E n \in Names : Drop(c, n)
           \/ Delete(c)
           \/ \E n \in Typed : Rename(c, n)
    PROVE  RegistryInv'
<1>1. ASSUME NEW n \in Names, Drop(c, n) PROVE RegistryInv'
  <2>1. components' = [m \in DOMAIN components \cup {n} |->
                           IF m = n THEN c ELSE components[m]]
    BY <1>1 DEF Drop, Insert
  <2>2. InRoot' \subseteq InRoot \cup {c}
    BY <2>1 DEF InRoot, Range
  <2>3. /\ refersTo' \in [Composites -> Files \cup {None}]
        /\ \A d \in Composites : d # c => refersTo'[d] = refersTo[d]
        /\ c \in Composites => refersTo'[c] \in Loaded
    BY <1>1 DEF Drop, RefersToLibrary, RegistryInv, RegistryTypes, Loaded
  <2>4. UNCHANGED registryVars
    BY <1>1 DEF Drop, registryVars
  <2>5. \A d \in InRoot' \cap Composites : refersTo'[d] \in Loaded
    BY <2>2, <2>3 DEF RegistryInv, RootRefers
  <2>6. QED
    BY <2>3, <2>4, <2>5, RootKeeps
<1>2. CASE Delete(c)
  <2>1. InRoot' \subseteq InRoot
    BY <1>2 DEF Delete, RemoveComponent, InRoot, Range
  <2>2. UNCHANGED refersTo /\ UNCHANGED registryVars
    BY <1>2 DEF Delete, registryVars
  <2>3. QED
    BY <2>1, <2>2, RootKeeps DEF RegistryInv, RegistryTypes, RootRefers
<1>3. ASSUME NEW n \in Typed, Rename(c, n) PROVE RegistryInv'
  <2>1. InRoot' \subseteq InRoot
    BY <1>3 DEF Rename, MayRename, ChangeComponentName, InRoot, Range
  <2>2. UNCHANGED refersTo /\ UNCHANGED registryVars
    BY <1>3 DEF Rename, registryVars
  <2>3. QED
    BY <2>1, <2>2, RootKeeps DEF RegistryInv, RegistryTypes, RootRefers
<1>4. QED
  BY <1>1, <1>2, <1>3
------------------------------------------------------------------------------
\* Nothing is loaded at first, and in a new model.
LEMMA RegistryAtFirst == Init => RegistryInv
<1> SUFFICES ASSUME Init PROVE RegistryInv
  OBVIOUS
<1>1. /\ DOMAIN networks = {} /\ DOMAIN components = {} /\ DOMAIN loading = {}
      /\ loading \in Seq(Files) /\ networks \in [{} -> {"dummy", "loaded"}]
  BY DEF Init, ProjectInit
<1>2. RegistryTypes /\ Stacked /\ References
  BY <1>1 DEF Init, ProjectInit, RegistryTypes, Stacked, References, InLoading
<1>3. RootRefers
  BY <1>1 DEF RootRefers, InRoot, Range
<1>4. QED
  BY <1>2, <1>3 DEF RegistryInv

LEMMA NewModelKeepsRegistry == ASSUME RegistryInv, NewModel PROVE RegistryInv'
<1>1. /\ DOMAIN networks' = {} /\ DOMAIN components' = {}
      /\ networks' \in [{} -> {"dummy", "loaded"}]
      /\ loading = <<>> /\ uses' = [f \in Files |-> {}]
      /\ UNCHANGED <<refersTo, loading>>
  BY DEF NewModel, Clear, Idle
<1>2. RegistryTypes' /\ Stacked' /\ References'
  BY <1>1 DEF RegistryInv, RegistryTypes, Stacked, References, InLoading
<1>3. RootRefers'
  BY <1>1 DEF RootRefers, InRoot, Range
<1>4. QED
  BY <1>2, <1>3 DEF RegistryInv

LEMMA StepKeepsRegistry == RegistryInv /\ [Next]_vars => RegistryInv'
<1> SUFFICES ASSUME RegistryInv, [Next]_vars PROVE RegistryInv'
  OBVIOUS
<1>0. ASSUME UNCHANGED <<components, refersTo>>, UNCHANGED registryVars PROVE RegistryInv'
  BY <1>0, RootKeeps DEF RegistryInv, RegistryTypes, RootRefers, InRoot
<1>1. CASE \/ \E c \in Objects : \E n \in Names : Drop(c, n)
           \/ \E c \in Objects : Delete(c) \/ \E n \in Typed : Rename(c, n)
  BY <1>1, CanvasKeepsRegistry
<1>2. CASE \E p \in Inputs \cup Outputs : StartWire(p) \/ EndWire(p)
  BY <1>0, <1>2 DEF StartWire, EndWire, rootVars, registryVars
<1>3. CASE CancelWire
  BY <1>0, <1>3 DEF CancelWire, rootVars, registryVars
<1>4. CASE \E o \in Outputs, i \in Inputs : DeleteChannel(o, i)
  BY <1>0, <1>4 DEF DeleteChannel, registryVars
<1>5. CASE NewModel
  BY <1>5, NewModelKeepsRegistry
<1>6. ASSUME NEW f \in Files, LoadComposite(f) PROVE RegistryInv'
  BY <1>6, EnterLoadKeeps DEF LoadComposite, Idle, rootVars
<1>7. ASSUME NEW f \in Files, UnloadComposite(f) PROVE RegistryInv'
  BY <1>7, UnloadKeeps DEF UnloadComposite
<1>8. CASE LoadStep
  BY <1>8, ResolveKeeps, LoadUsedKeeps, FinishLoadKeeps, AbortLoadKeeps DEF LoadStep
<1>9. CASE UNCHANGED vars
  BY <1>0, <1>9 DEF vars, rootVars, registryVars
<1>10. QED
  BY <1>1, <1>2, <1>3, <1>4, <1>5, <1>6, <1>7, <1>8, <1>9 DEF Next

\* The books are right whatever is loaded, and wherever a load fails.
THEOREM RegistryInvariance == Spec => []RegistryInv
BY RegistryAtFirst, StepKeepsRegistry, PTL DEF Spec

\* No composite refers to a network that was freed, whatever is loaded and unloaded, in
\* whatever order, and wherever a load fails (unloadNetwork, loadNetwork); all but the
\* references to the dummy of a network that uses the composite's own in turn.
THEOREM CompositesAlwaysRefer == Spec => []CompositesRefer
<1>1. RegistryInv => CompositesRefer
  BY DEF RegistryInv, RegistryTypes, References, Lasting, Circular, RootRefers, CompositesRefer, Loaded
<1>2. QED
  BY RegistryInvariance, <1>1, PTL
==============================================================================
