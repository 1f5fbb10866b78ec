------------------------------ MODULE Projects -------------------------------
(***************************************************************************)
(* A project (xmasproject.cpp): its root network, the map of components by *)
(* name with the pointers between their ports (xmas.cpp), and the networks *)
(* that were loaded for composites.  The operators are the functions of    *)
(* XMASProject and XMASNetwork; who calls them is in the module Designer.  *)
(* A network that is being loaded is first registered as a dummy, and each *)
(* composite in its file loads its network in turn: loading is the stack   *)
(* of the calls of loadNetwork.                                            *)
(***************************************************************************)
EXTENDS Naturals, Sequences, SequencesExt, FiniteSets

CONSTANTS Objects,      \* the components that may be allocated
          InputsOf,     \* the input ports of each
          OutputsOf,    \* and its output ports
          Composites,   \* those that are composites
          Names,        \* what a component may be called
          Files,        \* the files of networks
          Uses,         \* the files that the composites of each refer to
          Unreadable,   \* files that are no JSON
          Malformed,    \* and files that are no network
          None

Inputs  == UNION {InputsOf[c] : c \in Objects}
Outputs == UNION {OutputsOf[c] : c \in Objects}

ASSUME PortsAssumption ==
    /\ Composites \subseteq Objects
    /\ None \notin Inputs \cup Outputs \cup Files \cup Objects
    /\ \A c, d \in Objects : InputsOf[c] \cap OutputsOf[d] = {}
    /\ \A c, d \in Objects : c # d =>
           InputsOf[c] \cap InputsOf[d] = {} /\ OutputsOf[c] \cap OutputsOf[d] = {}

\* What g uses, and what that uses in turn, leads to f.
UsesInTurn(g, f) ==
    \A S \in SUBSET Files : g \in S /\ (\A h \in S : Uses[h] \subseteq S) => f \in S

Owner(p) == CHOOSE c \in Objects : p \in InputsOf[c] \cup OutputsOf[c]

VARIABLES
    components,   \* the map of the root network, from names to components
    output,       \* Output::output, of every output port
    input,        \* Input::input, of every input port
    refersTo,     \* XMASComposite::network, of the composites of the root
    networks,     \* the map of the project: is it a dummy or loaded?
    uses,         \* the networks that the composites of a network refer to
    loading       \* the files whose loadNetwork has not returned

rootVars == <<components, output, input, refersTo>>
registryVars == <<networks, uses, loading>>

ProjectInit ==
    /\ components = <<>>
    /\ output = [o \in Outputs |-> None]
    /\ input = [i \in Inputs |-> None]
    /\ refersTo = [c \in Composites |-> None]
    /\ networks = <<>> /\ uses = [f \in Files |-> {}] /\ loading = <<>>
------------------------------------------------------------------------------

InRoot == Range(components)

\* XMASProject::insert: an exception if the name is taken.
Insert(name, c) ==
    /\ name \notin DOMAIN components
    /\ components' = [n \in DOMAIN components \cup {name} |->
                          IF n = name THEN c ELSE components[n]]

Connect(o, i) ==
    /\ output' = [output EXCEPT ![o] = i]
    /\ input' = [input EXCEPT ![i] = o]

\* Output::valid.
ValidOutput(o) == output[o] # None /\ input[output[o]] = o

\* disconnect(Output&) does nothing unless the channel is valid.
Disconnect(o) ==
    IF ValidOutput(o)
    THEN /\ input' = [input EXCEPT ![output[o]] = None]
         /\ output' = [output EXCEPT ![o] = None]
    ELSE UNCHANGED <<input, output>>

\* Mutant of Loosened: the outputs that lead to the component are forgotten.
LoosenedOutputs(c) == {o \in OutputsOf[c] : ValidOutput(o)}

\* The outputs whose channel ends when component c is removed.
Loosened(c) ==
    {o \in Outputs : ValidOutput(o) /\ (o \in OutputsOf[c] \/ output[o] \in InputsOf[c])}

\* XMASNetwork::removeComponent: disconnect all ports, erase the name.
RemoveComponent(name) ==
    IF name \in DOMAIN components
    THEN LET c == components[name] IN
         /\ output' = [o \in Outputs |-> IF o \in Loosened(c) THEN None ELSE output[o]]
         /\ input' = [i \in Inputs |-> IF input[i] \in Loosened(c) THEN None ELSE input[i]]
         /\ components' = [n \in DOMAIN components \ {name} |-> components[n]]
    ELSE UNCHANGED <<components, output, input>>

\* XMASNetwork::changeComponentName succeeds.
MayRename(old, new) == old \in DOMAIN components /\ new \notin DOMAIN components

ChangeComponentName(old, new) ==
    components' = [n \in (DOMAIN components \ {old}) \cup {new} |->
                      IF n = new THEN components[old] ELSE components[n]]

\* XMASProject::clear.
Clear ==
    /\ components' = <<>> /\ networks' = <<>>
    /\ uses' = [f \in Files |-> {}]
    /\ UNCHANGED <<output, input, refersTo, loading>>
------------------------------------------------------------------------------
Register(f, state) == networks' = [g \in DOMAIN networks \cup {f} |->
                                       IF g = f THEN state ELSE networks[g]]

Loaded == {f \in DOMAIN networks : networks[f] = "loaded"}

\* loadNetwork(f), up to the first composite.
EnterLoad(f) ==
    /\ f \notin DOMAIN networks \cup Unreadable
    /\ Register(f, "dummy")
    /\ loading' = Append(loading, f)
    /\ UNCHANGED uses

Loading == Last(loading)

Unresolved == {g \in Uses[Loading] : \A s \in {"dummy", "loaded"} : <<g, s>> \notin uses[Loading]}

\* A composite of the network being loaded refers to a network that is there,
\* possibly as a dummy because its own load is still going on.
Resolve(g) ==
    /\ loading # <<>> /\ g \in Unresolved /\ g \in DOMAIN networks
    /\ uses' = [uses EXCEPT ![Loading] = @ \cup {<<g, networks[g]>>}]
    /\ UNCHANGED <<networks, loading, rootVars>>

\* It refers to one that is not, and loadNetwork is called for that one.
LoadUsed(g) ==
    /\ loading # <<>> /\ g \in Unresolved
    /\ EnterLoad(g)
    /\ UNCHANGED rootVars

\* The network replaces its dummy, which is freed.
FinishLoad ==
    /\ loading # <<>> /\ Unresolved = {} /\ Loading \notin Malformed
    /\ Register(Loading, "loaded")
    /\ loading' = Front(loading)
    /\ UNCHANGED <<uses, rootVars>>

\* An exception leaves all the calls of loadNetwork; their dummies stay.
AbortLoad ==
    /\ loading # <<>>
    /\ \/ Loading \in Malformed
       \/ Unresolved \cap Unreadable # {}
    /\ uses' = [f \in Files |-> IF f \in ToSet(loading) THEN {} ELSE uses[f]]
    /\ loading' = <<>>
    /\ UNCHANGED <<networks, rootVars>>

\* Mutant of InUse: only the root network is searched for composites.
InUseByRoot(f) == \E c \in InRoot \cap Composites : refersTo[c] = f

\* Does a composite of another network refer to network f?
InUse(f) ==
    \/ \E c \in InRoot \cap Composites : refersTo[c] = f
    \/ \E g \in Loaded \ {f} : <<f, "loaded">> \in uses[g]

\* unloadNetwork(f).
UnloadNetwork(f) ==
    /\ loading = <<>> /\ f \in Loaded /\ ~ InUse(f)
    /\ networks' = [g \in DOMAIN networks \ {f} |-> networks[g]]
    /\ uses' = [uses EXCEPT ![f] = {}]
    /\ UNCHANGED <<loading, rootVars>>
==============================================================================
