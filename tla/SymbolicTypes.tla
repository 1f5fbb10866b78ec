---------------------------- MODULE SymbolicTypes ----------------------------
(***************************************************************************)
(* SymbolicTypes() of xmv/datamodel/symbolic.cpp, as it is compiled: which *)
(* packets can be on which channel of a network.  Rounds over all          *)
(* components go on until one changes nothing; then all types are          *)
(* simplified.  The components are in a std::set of pointers, so that the  *)
(* order of a round depends on the addresses of the components.            *)
(***************************************************************************)
EXTENDS PacketFlow, SwitchSplit

CONSTANTS Names,       \* the keys under which packets may have fields
          Reachable    \* the values that can reach each channel: the least flow

\* A packet of the network.
IsNamed(p) == IsPacket(p) /\ DOMAIN p \subseteq Names

ASSUME TypesAssumption ==
    /\ \A o \in Channels : \A p \in Emitted[o] : IsNamed(p)
    /\ \A c \in Components : Kind[c] = "switch" => \A f \in SwitchFunction[c] : IsPacket(f)

VARIABLES types,      \* SymbolicTypesExtension::availablePackets of each channel
          order,      \* the order of allComponents
          turn,       \* the component whose turn it is, by its place in that order
          port,       \* its input port
          happened,   \* somethingHappend of iterativePropagate()
          changed,    \* somethingHappend of the round
          ending,     \* the rounds are over: types are simplified for the last time
          phase,      \* what is done with the type of the input
          at,         \* the iterator of the second loop of simplify()
          combined,   \* combinedSomething
          pending,    \* packets about to be attached, with their channel
          precise     \* history: so far, what was done with packets is what is done with
                      \* each of their values

loopVars == <<order, turn, port, happened, changed, ending>>
simplifyVars == <<at, combined>>
vars == <<types, loopVars, phase, simplifyVars, pending, precise, splitVars>>

Here == order[turn]
Input == Inputs[Here][port]

\* The sources are about to attach their packets.
Init ==
    /\ types = [o \in Channels |-> <<>>]
    /\ order \in {s \in [1 .. Cardinality(Components) -> Components] : ToSet(s) = Components}
    /\ turn = 1 /\ port = 1
    /\ happened = FALSE /\ changed = FALSE /\ ending = FALSE
    /\ phase = "sources"
    /\ at = 1 /\ combined = FALSE
    /\ pending = UNION {{<<o, p>> : p \in Emitted[o]} : o \in Channels}
    /\ packet = <<>> /\ todo = {} /\ seen = {} /\ outA = {} /\ outB = {}
    /\ precise = TRUE

IsLeast(i, S) == i \in S /\ \A j \in S : i <= j
------------------------------------------------------------------------------
\* attachPackets: one packet is added to the type of its channel.
Attach ==
    /\ phase \in {"sources", "attach"}
    /\ \E a \in pending, reallocates \in BOOLEAN :
          /\ types' = [types EXCEPT ![a[1]] = AddPacket(@, a[2], reallocates)]
          /\ pending' = pending \ {a}
    /\ UNCHANGED <<loopVars, phase, simplifyVars, splitVars, precise>>

AllAttached ==
    /\ phase \in {"sources", "attach"} /\ pending = {}
    /\ phase' = IF phase = "sources" THEN "look" ELSE "forward"
    /\ UNCHANGED <<types, loopVars, simplifyVars, pending, splitVars, precise>>
------------------------------------------------------------------------------
Unpropagated(vec) == {i \in DOMAIN vec : ~ vec[i].propagated}

\* The input is left out when all its packets were propagated.
Look ==
    /\ phase = "look"
    /\ phase' = IF ending \/ Unpropagated(types[Input]) # {} THEN "erase" ELSE "leave"
    /\ UNCHANGED <<types, loopVars, simplifyVars, pending, splitVars, precise>>

EraseOne ==
    /\ phase = "erase"
    /\ \E i \in DOMAIN types[Input] :
          /\ IsLeast(i, Superfluous(types[Input]))
          /\ types' = [types EXCEPT ![Input] = RemoveAt(@, i)]
    /\ UNCHANGED <<loopVars, phase, simplifyVars, pending, splitVars, precise>>

EraseDone ==
    /\ phase = "erase" /\ Superfluous(types[Input]) = {}
    /\ phase' = "combine" /\ at' = 1 /\ combined' = FALSE
    /\ UNCHANGED <<types, loopVars, pending, splitVars, precise>>

\* The combination of packets that differ in a field is wrong if that one says which
\* values it has not (FieldCombine).
CombinesExactly(p, r) ==
    \A k \in DOMAIN p : p[k] # r[k] /\ p[k].kind = "enum" => ~ p[k].complement

\* The next entry with one that it can be combined with takes that one's place, too.
CombineOne ==
    /\ phase = "combine"
    /\ \E i, j \in DOMAIN types[Input] :
          /\ IsLeast(i, {k \in at .. Len(types[Input]) : Mates(types[Input], k) # {}})
          /\ IsLeast(j, Mates(types[Input], i))
          /\ types' = [types EXCEPT ![Input] = Merged(@, i, j)]
          /\ at' = i
          /\ precise' = (precise /\ CombinesExactly(types[Input][i].packet, types[Input][j].packet))
    /\ combined' = TRUE
    /\ UNCHANGED <<loopVars, phase, pending, splitVars>>

\* The end of a pass: another one if it combined something.
CombineDone ==
    /\ phase = "combine"
    /\ \A k \in at .. Len(types[Input]) : Mates(types[Input], k) = {}
    /\ at' = 1 /\ combined' = FALSE
    /\ phase' = IF combined THEN "combine" ELSE IF ending THEN "leave" ELSE "forward"
    /\ UNCHANGED <<types, loopVars, pending, splitVars, precise>>
------------------------------------------------------------------------------
\* Mutant of Marked: a packet is not marked.
NotMarked(e) == e

Marked(e) == Entry(e.packet, TRUE)

\* The function makes of a packet what it is to make of each of its values: it may make
\* more, of fields that depend on one another or where its conditions overlap.
AppliesExactly(c, p) == All(Applied(c, {p})) = UNION {MadeOf(c, x) : x \in PacketMeaning(p)}

\* The next packet that was not propagated yet is marked and forwarded.  A function that
\* throws ends all with its exception.
Forward ==
    /\ phase = "forward"
    /\ \E i \in DOMAIN types[Input] :
         /\ IsLeast(i, Unpropagated(types[Input]))
         /\ Kind[Here] = "function" => ~ Throws(Here, {types[Input][i].packet})
         /\ types' = [types EXCEPT ![Input][i] = Marked(@)]
         /\ IF Kind[Here] = "switch"
            THEN /\ phase' = "split"
                 /\ packet' = types[Input][i].packet
                 /\ todo' = SwitchFunction[Here] /\ seen' = {}
                 /\ outA' = {} /\ outB' = {types[Input][i].packet}
                 /\ UNCHANGED <<pending, precise>>
            ELSE /\ phase' = "attach"
                 /\ pending' = ToSet(Outputs[Here])
                               \X Forwarded(Here, port, types[Input][i].packet, types)
                 /\ precise' = (precise /\ (Kind[Here] = "function" =>
                                               AppliesExactly(Here, types[Input][i].packet)))
                 /\ UNCHANGED splitVars
    /\ happened' = TRUE
    /\ UNCHANGED <<order, turn, port, changed, ending, simplifyVars>>

\* The loops of a switch; values of two kinds are compared as if nothing were left.
SplitOn ==
    /\ phase = "split"
    /\ \E f \in todo : Split(f) /\ precise' = (precise /\ SameKinds(f, packet))
    /\ UNCHANGED <<types, loopVars, phase, simplifyVars, pending>>

SplitDone ==
    /\ phase = "split" /\ todo = {}
    /\ pending' = ({Outputs[Here][1]} \X outA) \cup ({Outputs[Here][2]} \X outB)
    /\ phase' = "attach"
    /\ packet' = <<>> /\ seen' = {} /\ outA' = {} /\ outB' = {}
    /\ UNCHANGED <<types, loopVars, simplifyVars, todo, precise>>

ForwardDone ==
    /\ phase = "forward" /\ Unpropagated(types[Input]) = {}
    /\ phase' = "leave"
    /\ UNCHANGED <<types, loopVars, simplifyVars, pending, splitVars, precise>>
------------------------------------------------------------------------------
NextInput ==
    /\ phase = "leave" /\ port < Len(Inputs[Here])
    /\ port' = port + 1 /\ phase' = "look"
    /\ UNCHANGED <<types, order, turn, happened, changed, ending, simplifyVars, pending, splitVars,
                   precise>>

\* Mutant of Happened: the result of the last component counts.
HappenedLast == happened

\* somethingHappend |= iterativePropagate(c).
Happened == changed \/ happened

NextComponent ==
    /\ phase = "leave" /\ port = Len(Inputs[Here]) /\ turn < Len(order)
    /\ turn' = turn + 1 /\ port' = 1 /\ phase' = "look"
    /\ changed' = Happened /\ happened' = FALSE
    /\ UNCHANGED <<types, order, ending, simplifyVars, pending, splitVars, precise>>

\* The end of a round, or of the loop that simplifies all types.
NextRound ==
    /\ phase = "leave" /\ port = Len(Inputs[Here]) /\ turn = Len(order)
    /\ turn' = 1 /\ port' = 1
    /\ changed' = FALSE /\ happened' = FALSE
    /\ ending' = ~ Happened
    /\ phase' = IF ending THEN "done" ELSE "look"
    /\ UNCHANGED <<types, order, simplifyVars, pending, splitVars, precise>>

Next == \/ Attach \/ AllAttached
        \/ Look \/ EraseOne \/ EraseDone \/ CombineOne \/ CombineDone
        \/ Forward \/ SplitOn \/ SplitDone \/ ForwardDone
        \/ NextInput \/ NextComponent \/ NextRound

\* A sequential program: it takes steps until it is done.  (Weak fairness of
\* Next, written without ENABLED: Next is enabled as long as it is not done and
\* no function throws.)
Fairness == []<>(phase = "done") \/ []<><<Next>>_vars

Spec == Init /\ [][Next]_vars /\ Fairness
------------------------------------------------------------------------------

\* In the end the types are the values that can reach the channels, in whatever
\* order the components are visited, loops in the network included: unless an operation on
\* packets was not exact, when complements were combined, values of two kinds compared, or
\* a function made more of a packet than of its values.
TypesAreExact ==
    phase = "done" /\ precise => \A o \in Channels : TypeMeaning(types[o]) = Reachable[o]

\* The rounds come to an end.
Terminates == <>(phase = "done")
==============================================================================
