----------------------------- MODULE Transitions -----------------------------
(***************************************************************************)
(* The transitions of a network (xmv/vt/reachability/transition.{h,cpp},   *)
(* the first half of reachable.cpp): a component after the other extends   *)
(* the transitions that hang on its channels, with the flow of the packets *)
(* or against it.                                                          *)
(*                                                                         *)
(* A SymbolicFunction is the component a packet is taken from and the      *)
(* functions it passes.  A channel stands for its initiator port.          *)
(***************************************************************************)
EXTENDS Transfers

FunctionOf(c) == [from |-> c, passes |-> <<>>]          \* sym_input_from, sym_end_of_queue
Passing(f, c) == [f EXCEPT !.passes = Append(@, c)]

ContainedIn(f, set) == [op |-> "in", f |-> f, set |-> set]
NotContainedIn(f, set) == [op |-> "not in", f |-> f, set |-> set]
EqualTo(f, g) == [op |-> "equals", f |-> f, g |-> g]

\* The packet of function f under the assignment map.
PacketOf(n, back, f, map) ==
    FoldLeft(LAMBDA v, c : IF back THEN n.inverse[c][v] ELSE n.map[c][v],
             map[f.from], f.passes)

Holds(n, back, cond, map) ==
    LET value == PacketOf(n, back, cond.f, map)
    IN  CASE cond.op = "in" -> value \in cond.set
          [] cond.op = "not in" -> value \notin cond.set
          [] cond.op = "equals" -> value = PacketOf(n, back, cond.g, map)
------------------------------------------------------------------------------
\* GenericTransition: out (a component and the type it chooses from),
\* out_queues, in_queues with in_funcs, and the conditions.
Transition == [out |-> <<>>, outQueues |-> <<>>, in |-> <<>>, cond |-> {}]

AddOut(t, c, type) == [t EXCEPT !.out = Append(@, [comp |-> c, type |-> type])]
AddOutQueue(t, q) == [t EXCEPT !.outQueues = Append(@, q)]
AddIn(t, q, f) == [t EXCEPT !.in = Append(@, [queue |-> q, f |-> f])]
AddCondition(t, cond) == [t EXCEPT !.cond = @ \cup {cond}]

\* Mutant of Merge: the conditions of the other one are forgotten.
MergeFlows(t, u) ==
    [out |-> t.out \o u.out, outQueues |-> t.outQueues \o u.outQueues,
     in |-> t.in \o u.in, cond |-> t.cond]

Merge(t, u) ==
    [out |-> t.out \o u.out, outQueues |-> t.outQueues \o u.outQueues,
     in |-> t.in \o u.in, cond |-> t.cond \cup u.cond]

TypeSize(type) == FoldLeft(LAMBDA acc, p : acc + Len(p), 0, type)

\* Transitions: sizes_ and product_.
CombinationCount(t) == FoldLeft(LAMBDA acc, o : acc * TypeSize(o.type), 1, t.out)

\* The choice-th value of a type, counted over its packets.
ChoiceOf(type, choice) == FlattenSeq(type)[choice + 1]

\* trans_iterator::operator*: the k-th combination of what is chosen.
Chosen(t, k) ==
    LET counter[i \in 1 .. Len(t.out)] ==
            IF i = 1 THEN k ELSE counter[i - 1] \div TypeSize(t.out[i - 1].type)
    IN  [i \in DOMAIN t.out |->
            ChoiceOf(t.out[i].type, counter[i] % TypeSize(t.out[i].type))]

\* build_map: what is inserted first stays.
MapOf(s, t, choices) ==
    FoldLeft(LAMBDA m, i : m @@ (t.out[i].comp :> choices[i]),
             [q \in ToSet(t.outQueues) |-> Top(s, q)], [i \in DOMAIN t.out |-> i])

IsEnabled(n, back, s, t, choices) ==
    /\ \A q \in ToSet(t.outQueues) : ~ IsEmpty(s, q)
    /\ \A i \in DOMAIN t.in : ~ IsFull(n, s, t.in[i].queue)
    /\ \A c \in t.cond : Holds(n, back, c, MapOf(s, t, choices))

Execute(n, back, s, t, choices) ==
    FoldLeft(LAMBDA r, in : Push(r, in.queue, PacketOf(n, back, in.f, MapOf(s, t, choices))),
             FoldLeft(Pop, s, t.outQueues), t.in)

\* The states the transitions gts lead to.
Successors(n, back, gts, s) ==
    UNION {{Execute(n, back, s, t, x) :
               x \in {Chosen(t, k) : k \in {j \in 0 .. CombinationCount(t) - 1 :
                                               IsEnabled(n, back, s, t, Chosen(t, j))}}} :
              t \in {gts[g] : g \in DOMAIN gts}}
------------------------------------------------------------------------------
(* ComputeTransitions.  w.gts are the transitions, w.lists what hangs on    *)
(* the channels: each transition with the function of its packet there.    *)

Add(w, g, f, h) == [w EXCEPT !.lists[h] = @ @@ (g :> f)]

Fresh(w) == IF DOMAIN w.gts = {} THEN 1 ELSE Max(DOMAIN w.gts) + 1

NewTransition(w, t, f, h) ==
    LET g == Fresh(w) IN Add([w EXCEPT !.gts = @ @@ (g :> t)], g, f, h)

\* insert_transition: g wherever its original hangs.
InsertTransition(w, g, original) ==
    [w EXCEPT !.lists = [h \in DOMAIN @ |->
        IF original \in DOMAIN @[h] THEN @[h] @@ (g :> @[h][original]) ELSE @[h]]]

\* clone_transition; the clone is Fresh(w).
Clone(w, g) == InsertTransition([w EXCEPT !.gts = @ @@ (Fresh(w) :> w.gts[g])], Fresh(w), g)

MergeInto(w, g, b) == InsertTransition([w EXCEPT !.gts[g] = Merge(@, w.gts[b])], g, b)

Without(fun, keys) == [k \in DOMAIN fun \ keys |-> fun[k]]

RemoveTransitions(w, gs) ==
    [gts |-> Without(w.gts, gs), lists |-> [h \in DOMAIN w.lists |-> Without(w.lists[h], gs)]]

Condition(w, g, cond) == [w EXCEPT !.gts[g] = AddCondition(@, cond)]

\* The transitions that hang on a channel, each with its function.
OnEach(w, h, Op(_, _, _)) ==
    FoldLeft(LAMBDA acc, g : Op(acc, g, w.lists[h][g]),
             w, SetToSortSeq(DOMAIN w.lists[h], <))

\* Each pair of transitions on h and k becomes one, and Op does what is special
\* with the new transition and the functions of the two; those of the pairs go.
Product(w, h, k, Op(_, _, _, _)) ==
    LET pair(acc, a, b) ==
            Op(MergeInto(Clone(acc, a), Fresh(acc), b), Fresh(acc), w.lists[h][a], w.lists[k][b])
    IN  RemoveTransitions(
            FoldLeft(LAMBDA acc, ab : pair(acc, ab[1], ab[2]), w,
                     SetToSeq((DOMAIN w.lists[h]) \X (DOMAIN w.lists[k]))),
            (DOMAIN w.lists[h]) \cup (DOMAIN w.lists[k]))
==============================================================================
