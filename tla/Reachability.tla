---------------------------- MODULE Reachability ----------------------------
(***************************************************************************)
(* isReachable() of xmv/vt/reachability/reachable.cpp: can a network reach  *)
(* a state?  The components are put in an order, their transitions are      *)
(* computed in that order, and the states are searched, from the empty      *)
(* network to the state or (reverse) from the state to the empty network.   *)
(***************************************************************************)
EXTENDS Transitions

CONSTANTS Goals,         \* the states asked for, of each network
          Sets,          \* the orders std::set gives the components of a network
          Clones         \* as many clones of one loop may be visited by it (a bound)

VARIABLES net,           \* the network, by name
          target,        \* the state s asked for
          reverse, bfs,  \* the flags
          stage,         \* "order", "transitions", "search" or "done"
          next,          \* the deque of TotalOrderBuilder
          total,         \* its result, of which a queue is part twice
          visited,       \* VisitedExtension
          work,          \* the transitions computed so far
          revisits,      \* was a clone visited by the loop that made it?
          frontier,      \* next_states, the one to be taken first in front
          reached,       \* reached_states: digests
          answer

reachVars == <<net, target, reverse, bfs, stage, next, total, visited, work, revisits,
          frontier, reached, answer>>

N == Networks[net]
Kind(c) == N.kind[c]
Ins(c) == N.in[c]
Outs(c) == N.out[c]
Types(h) == N.types[h]

BehindOf(h) == CHOOSE c \in ComponentsOf(N) : h \in ToSet(Outs(c))
AheadOf(h) == CHOOSE c \in ComponentsOf(N) : h \in ToSet(Ins(c))

\* Where packets come from and go to, in the direction of the search.
From(c) == IF reverse THEN Outs(c) ELSE Ins(c)
To(c) == IF reverse THEN Ins(c) ELSE Outs(c)
Predecessors(c) == {IF reverse THEN AheadOf(h) ELSE BehindOf(h) : h \in ToSet(From(c))}
Successor(h) == IF reverse THEN BehindOf(h) ELSE AheadOf(h)
Starts(c) == Kind(c) = "queue" \/ Kind(c) = IF reverse THEN "sink" ELSE "source"
Joins(c) == Kind(c) \in IF reverse THEN {"switch", "fork"} ELSE {"join", "merge"}

ReachInit ==
    /\ net \in DOMAIN Networks
    /\ target \in Goals[net]
    /\ reverse \in BOOLEAN /\ bfs \in BOOLEAN /\ revisits = FALSE
    /\ \E set \in Sets[net] :
          next = SelectSeq(set, LAMBDA c : Starts(c))
    /\ total = <<>> /\ visited = {}
    /\ work = [gts |-> <<>>, lists |-> [h \in ChannelsOf(N) |-> <<>>]]
    /\ frontier = <<>> /\ reached = {}
    \* a state without packets is the initial one
    /\ answer = InitialState(target)
    /\ stage = IF answer THEN "done" ELSE "order"
------------------------------------------------------------------------------
\* A join or a merge waits until both its predecessors were visited.
Waits(c) == Joins(c) /\ (c \in visited \/ ~ (Predecessors(c) \subseteq visited))

\* TotalOrderBuilder::build(), one component.
OrderComponent ==
    /\ stage = "order" /\ next # <<>>
    /\ LET c == Head(next)
           again == Kind(c) = "queue" /\ c \in visited
           successors == IF again THEN <<>> ELSE [i \in DOMAIN To(c) |-> Successor(To(c)[i])]
       IN  IF Waits(c)
           THEN next' = Tail(next) /\ UNCHANGED <<total, visited>>
           ELSE /\ next' = Tail(next) \o successors
                /\ total' = Append(total, c)
                /\ visited' = visited \cup {c}
    /\ UNCHANGED <<net, target, reverse, bfs, stage, work, revisits, frontier, reached, answer>>

\* Every component is ordered; the marks are taken away.
OrderDone ==
    /\ stage = "order" /\ next = <<>>
    /\ stage' = "transitions"
    /\ visited' = {}
    /\ UNCHANGED <<net, target, reverse, bfs, next, total, work, revisits, frontier, reached, answer>>
------------------------------------------------------------------------------
(* ComputeTransitions, visit: what component c makes of the transitions w.  *)

\* A loop over a hash table while it grows: whether it gets to a clone that was put
\* there depends on the hash of its address, for each clone.  Those in again it gets
\* to, clones of clones included.
Growing(w, h, again, Op(_, _, _)) ==
    FoldLeft(LAMBDA acc, g : IF g \in DOMAIN acc.lists[h] THEN Op(acc, g, acc.lists[h][g]) ELSE acc,
             OnEach(w, h, Op), SetToSortSeq(again, <))

VisitEnd(c, w) ==
    IF Starts(c)
    THEN NewTransition(w, AddOut(Transition, c, Types(To(c)[1])), FunctionOf(c), To(c)[1])
    ELSE w

\* The first time a queue gives a packet, the second time it gets one.
VisitQueue(c, w) ==
    LET gives == AddCondition(AddOutQueue(Transition, c),
                              ContainedIn(FunctionOf(c), Values(Types(Ins(c)[1]))))
    IN  IF c \notin visited
        THEN NewTransition(w, gives, FunctionOf(c), To(c)[1])
        ELSE OnEach(w, From(c)[1], LAMBDA acc, g, f : [acc EXCEPT !.gts[g] = AddIn(@, c, f)])

VisitFunction(c, w) ==
    OnEach(w, From(c)[1], LAMBDA acc, g, f : Add(acc, g, Passing(f, c), To(c)[1]))

VisitJoin(c, w) ==
    LET a == Ins(c)[1]  b == Ins(c)[2]  o == Outs(c)[1]
        takesA == N.takesA[c]
        other(acc, g) ==
            [acc EXCEPT !.gts[g] = AddOut(@, c, Types(IF takesA THEN b ELSE a))]
    IN  IF ~ reverse
        THEN Product(w, a, b, LAMBDA acc, g, f, k : Add(acc, g, IF takesA THEN f ELSE k, o))
        ELSE OnEach(w, o, LAMBDA acc, g, f :
                Add(Add(other(acc, g), g, IF takesA THEN f ELSE FunctionOf(c), a),
                    g, IF takesA THEN FunctionOf(c) ELSE f, b))

\* Mutant of VisitFork: against the flow, both outputs may give other packets.
VisitForkLoose(c, w) ==
    LET a == Outs(c)[1]  b == Outs(c)[2]  i == Ins(c)[1]
    IN  IF ~ reverse
        THEN OnEach(w, i, LAMBDA acc, g, f : Add(Add(acc, g, f, a), g, f, b))
        ELSE Product(w, a, b, LAMBDA acc, g, f, k : Add(acc, g, f, i))

VisitFork(c, w) ==
    LET a == Outs(c)[1]  b == Outs(c)[2]  i == Ins(c)[1]
    IN  IF ~ reverse
        THEN OnEach(w, i, LAMBDA acc, g, f : Add(Add(acc, g, f, a), g, f, b))
        ELSE Product(w, a, b, LAMBDA acc, g, f, k :
                Add(Condition(acc, g, EqualTo(f, k)), g, f, i))

VisitMerge(c, w, again) ==
    LET a == Ins(c)[1]  b == Ins(c)[2]  o == Outs(c)[1]
        into(h, f) == ContainedIn(f, Values(Types(h)))
        both(acc, g, f) ==
            LET n == Fresh(acc)
                split == Condition(Condition(Clone(acc, g), g, into(a, f)), n, into(b, f))
            IN  Add(Add(split, g, f, a), n, f, b)
        pass(acc, g, f) == Add(acc, g, f, o)
    IN  IF ~ reverse THEN OnEach(OnEach(w, a, pass), b, pass) ELSE Growing(w, o, again, both)

VisitSwitch(c, w, again) ==
    LET a == Outs(c)[1]  b == Outs(c)[2]  i == Ins(c)[1]
        accepted(f) == ContainedIn(f, N.accepts[c])
        other(f) == NotContainedIn(f, N.accepts[c])
        both(acc, g, f) ==
            LET n == Fresh(acc)
                split == Condition(Condition(Clone(acc, g), g, accepted(f)), n, other(f))
            IN  Add(Add(split, g, f, a), n, f, b)
    IN  IF ~ reverse THEN Growing(w, i, again, both)
        ELSE OnEach(OnEach(w, a, LAMBDA acc, g, f : Add(Condition(acc, g, accepted(f)), g, f, i)),
                    b, LAMBDA acc, g, f : Add(Condition(acc, g, other(f)), g, f, i))

Visit(c, w, again) ==
    CASE Kind(c) \in {"source", "sink"} -> VisitEnd(c, w)
      [] Kind(c) = "queue" -> VisitQueue(c, w)
      [] Kind(c) = "function" -> VisitFunction(c, w)
      [] Kind(c) = "join" -> VisitJoin(c, w)
      [] Kind(c) = "fork" -> VisitFork(c, w)
      [] Kind(c) = "merge" -> VisitMerge(c, w, again)
      [] Kind(c) = "switch" -> VisitSwitch(c, w, again)

ComputeComponent ==
    /\ stage = "transitions" /\ total # <<>>
    /\ \E again \in SUBSET (Fresh(work) .. Fresh(work) + Clones - 1) :
          /\ again # {} => Kind(Head(total)) = IF reverse THEN "merge" ELSE "switch"
          /\ work' = Visit(Head(total), work, again)
          /\ again \subseteq DOMAIN work'.gts
          /\ revisits' = (revisits \/ again # {})
    /\ visited' = IF Kind(Head(total)) = "queue" THEN visited \cup {Head(total)} ELSE visited
    /\ total' = Tail(total)
    /\ UNCHANGED <<net, target, reverse, bfs, stage, next, frontier, reached, answer>>

StartState == IF reverse THEN target ELSE Empty(N)

StartSearch ==
    /\ stage = "transitions" /\ total = <<>>
    /\ stage' = "search"
    /\ frontier' = <<StartState>>
    /\ reached' = {Digest(N, StartState)}
    /\ UNCHANGED <<net, target, reverse, bfs, next, total, visited, work, revisits, answer>>
------------------------------------------------------------------------------
NextStates(s) == Successors(N, reverse, work.gts, s)

\* Is s what the search looks for?
IsFound(s) == IF reverse THEN InitialState(s) ELSE Digest(N, s) = Digest(N, target)

\* One state is taken from the deque and its successors are put there, at the
\* end or, without bfs, in front.
Expand ==
    /\ stage = "search" /\ frontier # <<>>
    /\ LET succ == NextStates(Head(frontier))
           new == SetToSeq({s \in succ : Digest(N, s) \notin reached})
       IN  IF \E s \in succ : IsFound(s)
           THEN answer' = TRUE /\ stage' = "done" /\ UNCHANGED <<frontier, reached>>
           ELSE /\ frontier' = IF bfs THEN Tail(frontier) \o new ELSE new \o Tail(frontier)
                /\ reached' = reached \cup {Digest(N, new[i]) : i \in DOMAIN new}
                /\ UNCHANGED <<answer, stage>>
    /\ UNCHANGED <<net, target, reverse, bfs, next, total, visited, work, revisits>>

Exhausted ==
    /\ stage = "search" /\ frontier = <<>>
    /\ stage' = "done"
    /\ UNCHANGED <<net, target, reverse, bfs, next, total, visited, work, revisits, frontier,
                   reached, answer>>

ReachNext == \/ OrderComponent \/ OrderDone \/ ComputeComponent \/ StartSearch
        \/ Expand \/ Exhausted

ReachSpec == ReachInit /\ [][ReachNext]_reachVars
------------------------------------------------------------------------------
\* The state whose queues hold the packets the other way round.
Mirror(s) == [q \in DOMAIN s |-> Reverse(s[q])]

\* With the flow the answer is right: a state is found if and only if packets
\* can move from the empty network to it, in both kinds of search, in every
\* order of the components, and whichever clones are visited.
ForwardIsExact ==
    stage = "done" /\ ~ reverse => (answer <=> CanReach(net, target))

\* Against the flow packets are pushed and popped at the ends they would be with
\* the flow: what is asked is whether the mirrored state can be reached.  The
\* answer is never wrongly "no", and never wrongly "yes" if no clone is visited.
ReverseIsExactOfMirror ==
    stage = "done" /\ reverse =>
        /\ CanReach(net, Mirror(target)) => answer
        /\ answer /\ ~ revisits => CanReach(net, Mirror(target))

\* Every step of the search moves packets the way components do, or, against the
\* flow and if no clone is visited, undoes a step of the mirrored states.  (A
\* clone of a merge that is visited goes back into both inputs.)
StepsAreTransfers ==
    stage = "search" /\ frontier # <<>> /\ ~ (reverse /\ revisits) =>
        \A s \in {Head(frontier)} : \A r \in NextStates(s) :
            IF reverse THEN Mirror(s) \in Moved(net, Mirror(r)) ELSE r \in Moved(net, s)
==============================================================================
