----------------------------- MODULE NusmvExport -----------------------------
(***************************************************************************)
(* The model print_nusmv() writes (xmv/vt/reachability/nusmv.cpp): what the *)
(* text means to NuSMV.  A queue is an array and a size, its oldest packet  *)
(* at the end of the array; a variable t chooses a transition, and others   *)
(* what sources, sinks and joins choose.                                    *)
(***************************************************************************)
EXTENDS Reachability

\* enum_type: of a type the values of its first packet.
EnumType(type) == ToSet(type[1])

QueueType(q) == EnumType(Types(Outs(q)[1]))

\* A queue that can hold one value only needs no "none".
Constant(q) == Cardinality(QueueType(q)) = 1

Capacity(q) == N.size[q]

\* init(...): the state as arrays.
EncodedState(s) ==
    [n |-> [q \in DOMAIN s |-> Len(s[q])],
     at |-> [q \in DOMAIN s |-> [i \in 1 .. Capacity(q) |->
        IF Constant(q) THEN CHOOSE v \in QueueType(q) : TRUE
        ELSE IF Capacity(q) - Len(s[q]) <= i - 1 THEN s[q][i - Capacity(q) + Len(s[q])]
        ELSE None]]]

\* The input variables: of each component the type of its first port.
InputVars(t) == [c \in {t.out[i].comp : i \in DOMAIN t.out} |->
    EnumType((CHOOSE o \in ToSet(t.out) : o.comp = c).type)]

Inputs(t) == {f \in [DOMAIN InputVars(t) -> UNION {InputVars(t)[c] : c \in DOMAIN InputVars(t)}] :
                 \A c \in DOMAIN f : f[c] \in InputVars(t)[c]}

\* What expressions see: the fronts of the queues and the input variables.
Fronts(x, in) == [q \in DOMAIN x.n |-> x.at[q][Capacity(q)]] @@ in

\* The INVAR constraints of transition t.
Allowed(x, t, in) ==
    /\ \A q \in ToSet(t.outQueues) : x.n[q] # 0
    /\ \A i \in DOMAIN t.in : x.n[t.in[i].queue] # Capacity(t.in[i].queue)
    /\ \A c \in t.cond : Holds(N, reverse, c, Fronts(x, in))

Gets(t, q) == {i \in DOMAIN t.in : t.in[i].queue = q}

\* next(size): the first case that applies.
NextSize(x, t, q) ==
    IF q \in ToSet(t.outQueues) /\ x.n[q] > 0 THEN x.n[q] - 1
    ELSE IF Gets(t, q) # {} /\ x.n[q] < Capacity(q) THEN x.n[q] + 1
    ELSE x.n[q]

\* Mutant of NextAt: a packet is put next to the first one.
NextAtFront(x, t, in, q, i) ==
    IF Constant(q) THEN x.at[q][i]
    ELSE IF q \in ToSet(t.outQueues) THEN (IF i > 1 THEN x.at[q][i - 1] ELSE None)
    ELSE IF Gets(t, q) # {} /\ x.n[q] = Capacity(q) - i + 1
         THEN PacketOf(N, reverse, t.in[Min(Gets(t, q))].f, Fronts(x, in))
    ELSE x.at[q][i]

\* next(at(i)): a packet that leaves moves the others on, one that comes goes to
\* the last free place.
NextAt(x, t, in, q, i) ==
    IF Constant(q) THEN x.at[q][i]
    ELSE IF q \in ToSet(t.outQueues) THEN (IF i > 1 THEN x.at[q][i - 1] ELSE None)
    ELSE IF Gets(t, q) # {} /\ x.n[q] = Capacity(q) - i
         THEN PacketOf(N, reverse, t.in[Min(Gets(t, q))].f, Fronts(x, in))
    ELSE x.at[q][i]

NusmvNext(x) ==
    {LET t == choice[1]  in == choice[2]
     IN  [n |-> [q \in DOMAIN x.n |-> NextSize(x, t, q)],
          at |-> [q \in DOMAIN x.n |-> [i \in 1 .. Capacity(q) |-> NextAt(x, t, in, q, i)]]] :
     choice \in UNION {{<<work.gts[g], in>> :
                           in \in {f \in Inputs(work.gts[g]) : Allowed(x, work.gts[g], f)}} :
                         g \in DOMAIN work.gts}}

\* The negation of the CTLSPEC: sizes, and where the search goes forward the
\* packets in the occupied part of the arrays.
SpecifiedState(x) ==
    IF reverse THEN \A q \in DOMAIN x.n : x.n[q] = 0
    ELSE /\ \A q \in DOMAIN x.n : x.n[q] = Len(target[q])
         /\ \A q \in DOMAIN x.n : \A i \in 1 .. Capacity(q) :
               Capacity(q) - Len(target[q]) <= i - 1 =>
                   x.at[q][i] = target[q][i - Capacity(q) + Len(target[q])]
------------------------------------------------------------------------------
\* What print_nusmv assumes: one packet in each type, no functions (they are
\* written without their argument), and no transition that takes a packet from a
\* queue and puts one into it (the second is lost).
Exportable ==
    /\ \A h \in ChannelsOf(N) : Len(Types(h)) = 1
    /\ \A c \in ComponentsOf(N) : Kind(c) # "function"
    /\ \A g \in DOMAIN work.gts : \A i \in DOMAIN work.gts[g].in :
          work.gts[g].in[i].queue \notin ToSet(work.gts[g].outQueues)

\* The exported model and the search agree: from each state that is searched they
\* make the same steps, and they look for the same state.
NusmvAgrees ==
    stage = "search" /\ frontier # <<>> /\ Exportable =>
        \A s \in {Head(frontier)} :
            /\ NusmvNext(EncodedState(s)) = {EncodedState(r) : r \in NextStates(s)}
            /\ SpecifiedState(EncodedState(s)) <=> IsFound(s)
==============================================================================
