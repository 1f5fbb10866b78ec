------------------------------ MODULE Designer -------------------------------
(***************************************************************************)
(* The designer (xmd): a canvas of components and channels, drawn in QML,  *)
(* that must agree with the root network of the project, and the user who  *)
(* edits it.  A canvas component and its ports find their counterparts in  *)
(* the network by name, each time anew (component.cpp, port.cpp).  Objects *)
(* stand for both: Drop allocates a component of the network for one that  *)
(* is dropped on the canvas.                                               *)
(***************************************************************************)
EXTENDS Projects

CONSTANTS Generated,  \* the names generateName tries for each component, in order
          Typed,      \* the names a user may type, blank ones left out
          Trimmed     \* QString::trimmed

\* Names are generated without blanks, and none are left around a trimmed name.
ASSUME NamesAssumption ==
    /\ \A c \in Objects : \A i \in DOMAIN Generated[c] :
           Trimmed[Generated[c][i]] = Generated[c][i]
    /\ \A n \in Typed : Trimmed[Trimmed[n]] = Trimmed[n]

VARIABLES name,       \* Component::m_name, of the components on the canvas
          channels,   \* the channels on the canvas
          wire,       \* XNetwork's wire.port1, where a channel is being drawn
          dropped,    \* the components that were dropped so far
          misnamed    \* those that got a name with blanks around it

canvasVars == <<name, channels, wire, dropped, misnamed>>
vars == <<rootVars, registryVars, canvasVars>>

Init ==
    /\ ProjectInit
    /\ name = <<>> /\ channels = {} /\ wire = None /\ dropped = {} /\ misnamed = {}

OnCanvas == DOMAIN name
Idle == loading = <<>>
------------------------------------------------------------------------------

\* Component::xmas_component: the component of the network with the name of c.
Counterpart(c) == IF name[c] \in DOMAIN components THEN components[name[c]] ELSE None

\* XPort::getPort: a port of the counterpart.
HasPort(p) == Counterpart(Owner(p)) = Owner(p)

Connected(p) ==
    /\ HasPort(p)
    /\ IF p \in Outputs THEN output[p] # None ELSE input[p] # None

\* generateName: n is the first name that no component on the canvas has.
GenerateName(c, n) ==
    \E i \in DOMAIN Generated[c] :
        /\ n = Generated[c][i] /\ n \notin Range(name)
        /\ \A k \in 1 .. i - 1 : Generated[c][k] \in Range(name)

\* A composite is dropped from the library, which lists the loaded networks.
RefersToLibrary(c) ==
    IF c \in Composites
    THEN \E f \in Loaded : refersTo' = [refersTo EXCEPT ![c] = f]
    ELSE UNCHANGED refersTo

\* createComponent of xcomponent.js and addXmasComponent: if the name is taken in
\* the network, the component is taken from the canvas again.
Drop(c, n) ==
    /\ Idle /\ c \notin dropped
    /\ GenerateName(c, n)
    /\ Insert(n, c)
    /\ RefersToLibrary(c)
    /\ name' = [d \in OnCanvas \cup {c} |-> IF d = c THEN n ELSE name[d]]
    /\ dropped' = dropped \cup {c}
    /\ UNCHANGED <<output, input, registryVars, channels, wire, misnamed>>

\* What setName keeps of the name that was typed.
Kept(n) == n

\* Component::setName: the network gets the trimmed name, the canvas the typed one,
\* and a component whose name has blanks around it does not find itself any more.
Rename(c, n) ==
    /\ Idle /\ c \in OnCanvas /\ n # name[c]
    /\ MayRename(name[c], Trimmed[n])
    /\ ChangeComponentName(name[c], Trimmed[n])
    /\ name' = [name EXCEPT ![c] = Kept(n)]
    /\ misnamed' = IF Trimmed[n] = n THEN misnamed ELSE misnamed \cup {c}
    /\ UNCHANGED <<output, input, refersTo, registryVars, channels, wire, dropped>>

\* model::Network::removeComponent, then the component is destroyed with its ports
\* and these with their channels.  wire.port1 is null if its port was among them.
Delete(c) ==
    /\ Idle /\ c \in OnCanvas
    /\ RemoveComponent(name[c])
    /\ name' = [d \in OnCanvas \ {c} |-> name[d]]
    /\ channels' = {ch \in channels : Owner(ch[1]) # c /\ Owner(ch[2]) # c}
    /\ wire' = IF wire \in InputsOf[c] \cup OutputsOf[c] THEN None ELSE wire
    /\ UNCHANGED <<refersTo, registryVars, dropped, misnamed>>
------------------------------------------------------------------------------

\* Mutant of MayPress: the handler does not ask whether the port is connected.
MayPressAny(p) == Owner(p) \in OnCanvas

\* XPort's onPressed passes unconnected ports on only.
MayPress(p) == Owner(p) \in OnCanvas /\ ~ Connected(p)

\* isValidPort: an input to an output, of two components unless it is a composite.
IsValidPort(p) ==
    /\ wire \in Inputs <=> p \in Outputs
    /\ Owner(wire) # Owner(p) \/ Owner(p) \in Composites

\* wiring(port), for the first port of a channel.
StartWire(p) ==
    /\ Idle /\ wire = None /\ MayPress(p)
    /\ wire' = p
    /\ UNCHANGED <<rootVars, registryVars, name, channels, dropped, misnamed>>

WireAfter == None

\* wiring(port), for the second: doConnect draws the channel and connects the ports
\* if both are found.
EndWire(p) ==
    LET o == IF p \in Outputs THEN p ELSE wire
        i == IF p \in Outputs THEN wire ELSE p
    IN  /\ Idle /\ wire # None /\ MayPress(p) /\ IsValidPort(p)
        /\ channels' = channels \cup {<<o, i>>}
        /\ IF HasPort(o) /\ HasPort(i) THEN Connect(o, i) ELSE UNCHANGED <<output, input>>
        /\ wire' = WireAfter
        /\ UNCHANGED <<components, refersTo, registryVars, name, dropped, misnamed>>

CancelWire ==
    /\ Idle /\ wire # None
    /\ wire' = None
    /\ UNCHANGED <<rootVars, registryVars, name, channels, dropped, misnamed>>

\* The channel's menu: disconnect what is found of it, and destroy it.
DeleteChannel(o, i) ==
    /\ Idle /\ <<o, i>> \in channels
    /\ IF HasPort(o) /\ HasPort(i) /\ output[o] \in InputsOf[Owner(i)]
       THEN Disconnect(o) ELSE UNCHANGED <<output, input>>
    /\ channels' = channels \ {<<o, i>>}
    /\ UNCHANGED <<components, refersTo, registryVars, name, wire, dropped, misnamed>>

\* newModel: a new project, then every component is removed from the canvas.
NewModel ==
    /\ Idle /\ Clear
    /\ name' = <<>> /\ channels' = {} /\ wire' = None
    /\ UNCHANGED <<dropped, misnamed>>

LoadComposite(f) ==
    /\ Idle
    /\ EnterLoad(f)
    /\ UNCHANGED <<rootVars, canvasVars>>

LoadStep ==
    /\ \/ \E g \in Files : Resolve(g) \/ LoadUsed(g)
       \/ FinishLoad
       \/ AbortLoad
    /\ UNCHANGED canvasVars

UnloadComposite(f) == UnloadNetwork(f) /\ UNCHANGED canvasVars

Next ==
    \/ \E c \in Objects : \E n \in Names : Drop(c, n)
    \/ \E c \in Objects : Delete(c) \/ \E n \in Typed : Rename(c, n)
    \/ \E p \in Inputs \cup Outputs : StartWire(p) \/ EndWire(p)
    \/ CancelWire
    \/ \E o \in Outputs, i \in Inputs : DeleteChannel(o, i)
    \/ NewModel
    \/ \E f \in Files : LoadComposite(f) \/ UnloadComposite(f)
    \/ LoadStep

Spec == Init /\ [][Next]_vars
------------------------------------------------------------------------------

\* The two pointers of a channel agree: no port of any component, removed ones
\* included, points to a port that does not point back.  connect() does not look
\* whether the ports are free (xmas.cpp:77); that they are is due to the protocol
\* of pressed ports in the canvas.
ChannelsPaired ==
    /\ \A o \in Outputs : output[o] # None => input[output[o]] = o
    /\ \A i \in Inputs : input[i] # None => output[input[i]] = i

\* Channels between components that never got a name with blanks around it.
WellNamed(chs) == {ch \in chs : Owner(ch[1]) \notin misnamed /\ Owner(ch[2]) \notin misnamed}

\* What is drawn is what is there: each component on the canvas finds its own
\* counterpart by name, the network has no others, and the channels on the canvas
\* are those of the network (network.cpp, component.cpp, port.cpp, xchannel.js).
\* Excepted are the components that got a name with blanks around it, and their
\* channels (component.cpp:70): what is wrong with them does not spread to others.
CanvasMirrorsNetwork ==
    /\ \A c \in OnCanvas \ misnamed : Counterpart(c) = c
    /\ InRoot \ misnamed = OnCanvas \ misnamed
    /\ WellNamed(channels) =
           WellNamed({ch \in Outputs \X Inputs :
                         Owner(ch[1]) \in OnCanvas /\ output[ch[1]] = ch[2]})

\* A component on the canvas has the name that its counterpart has in the network:
\* "must be unique and same as in xmas" (component.cpp:40).  It does not hold: a name that
\* is typed with blanks around it is trimmed in the network only.
SameNameAsInNetwork == \A c \in OnCanvas : Counterpart(c) = c

\* No composite refers to a network that was freed: neither one on the canvas nor
\* one in a network that is loaded (unloadNetwork, and the dummies of loadNetwork).
\* Excepted is a reference to the dummy of a network that uses the composite's own in
\* turn: the dummy is freed when the network is complete (xmasproject.cpp:177).
CompositesRefer ==
    /\ \A c \in InRoot \cap Composites : refersTo[c] \in Loaded
    /\ \A f \in Loaded : \A u \in uses[f] :
          \/ u[1] \in DOMAIN networks /\ networks[u[1]] = u[2]
          \/ u[2] = "dummy" /\ UsesInTurn(u[1], f)
==============================================================================
