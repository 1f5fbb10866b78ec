--------------------------- MODULE MCReachability ---------------------------
(***************************************************************************)
(* The checks of the verification tool for TLC: reachability, with what is  *)
(* exported to NuSMV, and the cycle checker, in behaviours of their own.    *)
(***************************************************************************)
EXTENDS NusmvExport, CycleChecker, SignalNetworks

CONSTANTS req, rsp

VARIABLE part

(***************************************************************************)
(* Reachability on five networks: the one of typical.test.cpp with sources, *)
(* forks, merges, a switch and a join; one where what a fork duplicates     *)
(* goes through one queue on one side, and through a queue, a function and  *)
(* another queue on the other side, before it is joined; a loop; two        *)
(* sources that a join lets move together; and two that a merge leads to a  *)
(* switch, so that its loop makes several clones.                           *)
(***************************************************************************)
Both == <<<<req, rsp>>>>

Typical ==
    [channels |-> <<"a", "b", "c", "d", "e", "g", "h", "k", "l", "n", "o", "p">>,
     kind |-> [src0a |-> "source", src0b |-> "source", src1 |-> "source", sm |-> "merge",
               f |-> "fork", m |-> "merge", q0 |-> "queue", q1 |-> "queue", sw |-> "switch",
               j |-> "join", s0 |-> "sink", s1 |-> "sink"],
     in |-> [src0a |-> <<>>, src0b |-> <<>>, src1 |-> <<>>, sm |-> <<"a", "b">>, f |-> <<"c">>,
             m |-> <<"e", "g">>, q0 |-> <<"d">>, q1 |-> <<"h">>, sw |-> <<"k">>,
             j |-> <<"l", "n">>, s0 |-> <<"p">>, s1 |-> <<"o">>],
     out |-> [src0a |-> <<"a">>, src0b |-> <<"b">>, src1 |-> <<"g">>, sm |-> <<"c">>,
              f |-> <<"d", "e">>, m |-> <<"h">>, q0 |-> <<"l">>, q1 |-> <<"k">>,
              sw |-> <<"n", "o">>, j |-> <<"p">>, s0 |-> <<>>, s1 |-> <<>>],
     emits |-> [src0a |-> <<<<rsp>>>>, src0b |-> <<<<req>>>>, src1 |-> <<<<req>>>>],
     types |-> [h \in {"a", "b", "c", "d", "e", "g", "h", "k", "l", "n", "o", "p"} |->
                  CASE h \in {"a", "n", "p"} -> <<<<rsp>>>>
                    [] h \in {"b", "g", "o"} -> <<<<req>>>>
                    [] OTHER -> Both],
     size |-> [q0 |-> 2, q1 |-> 2], takesA |-> [j |-> FALSE], accepts |-> [sw |-> {rsp}],
     map |-> <<>>, inverse |-> <<>>, queues |-> <<"q0", "q1">>]

Swap == (req :> rsp) @@ (rsp :> req)

Pipeline ==
    [channels |-> <<"a", "b", "c", "d", "e", "g", "h", "k">>,
     kind |-> [src |-> "source", f |-> "fork", q0 |-> "queue", q1 |-> "queue",
               fn |-> "function", q2 |-> "queue", j |-> "join", sink |-> "sink"],
     in |-> [src |-> <<>>, f |-> <<"a">>, q0 |-> <<"b">>, q1 |-> <<"c">>, fn |-> <<"d">>,
             q2 |-> <<"e">>, j |-> <<"g", "h">>, sink |-> <<"k">>],
     out |-> [src |-> <<"a">>, f |-> <<"b", "c">>, q0 |-> <<"g">>, q1 |-> <<"d">>,
              fn |-> <<"e">>, q2 |-> <<"h">>, j |-> <<"k">>, sink |-> <<>>],
     emits |-> [src |-> <<<<req>>, <<rsp>>>>],
     types |-> [h \in {"a", "b", "c", "d", "e", "g", "h", "k"} |->
                  IF h = "a" THEN <<<<req>>, <<rsp>>>> ELSE Both],
     size |-> [q0 |-> 2, q1 |-> 1, q2 |-> 1], takesA |-> [j |-> TRUE], accepts |-> <<>>,
     map |-> [fn |-> Swap], inverse |-> [fn |-> Swap], queues |-> <<"q0", "q1", "q2">>]

\* What two sources give together goes round until it is a response.
Ring ==
    [channels |-> <<"a", "b", "c", "d", "e", "g", "h", "k">>,
     kind |-> [s1 |-> "source", s2 |-> "source", j |-> "join", q0 |-> "queue",
               m |-> "merge", q1 |-> "queue", sw |-> "switch", sink |-> "sink"],
     in |-> [s1 |-> <<>>, s2 |-> <<>>, j |-> <<"a", "b">>, q0 |-> <<"c">>, m |-> <<"d", "e">>,
             q1 |-> <<"g">>, sw |-> <<"h">>, sink |-> <<"k">>],
     out |-> [s1 |-> <<"a">>, s2 |-> <<"b">>, j |-> <<"c">>, q0 |-> <<"d">>, m |-> <<"g">>,
              q1 |-> <<"h">>, sw |-> <<"k", "e">>, sink |-> <<>>],
     emits |-> [s1 |-> Both, s2 |-> <<<<req>>, <<rsp>>>>],
     types |-> [h \in {"a", "b", "c", "d", "e", "g", "h", "k"} |->
                  CASE h = "e" -> <<<<req>>>>
                    [] h = "k" -> <<<<rsp>>>>
                    [] h = "b" -> <<<<req>>, <<rsp>>>>
                    [] OTHER -> Both],
     size |-> [q0 |-> 1, q1 |-> 2], takesA |-> [j |-> FALSE], accepts |-> [sw |-> {rsp}],
     map |-> <<>>, inverse |-> <<>>, queues |-> <<"q0", "q1">>]

\* Two sources fork into a join and a queue each: they move together.
Pair ==
    [channels |-> <<"a", "b", "c", "d", "e", "g", "h", "k", "l">>,
     kind |-> [s1 |-> "source", s2 |-> "source", f1 |-> "fork", f2 |-> "fork", j |-> "join",
               q0 |-> "queue", q1 |-> "queue", t0 |-> "sink", t1 |-> "sink", t2 |-> "sink"],
     in |-> [s1 |-> <<>>, s2 |-> <<>>, f1 |-> <<"a">>, f2 |-> <<"b">>, j |-> <<"d", "e">>,
             q0 |-> <<"c">>, q1 |-> <<"g">>, t0 |-> <<"k">>, t1 |-> <<"l">>, t2 |-> <<"h">>],
     out |-> [s1 |-> <<"a">>, s2 |-> <<"b">>, f1 |-> <<"c", "d">>, f2 |-> <<"e", "g">>,
              j |-> <<"h">>, q0 |-> <<"k">>, q1 |-> <<"l">>, t0 |-> <<>>, t1 |-> <<>>,
              t2 |-> <<>>],
     emits |-> [s1 |-> Both, s2 |-> Both],
     types |-> [h \in {"a", "b", "c", "d", "e", "g", "h", "k", "l"} |-> Both],
     size |-> [q0 |-> 1, q1 |-> 2], takesA |-> [j |-> FALSE], accepts |-> <<>>,
     map |-> <<>>, inverse |-> <<>>, queues |-> <<"q0", "q1">>]

Fan ==
    [channels |-> <<"a", "b", "c", "d", "e", "g", "h">>,
     kind |-> [s1 |-> "source", s2 |-> "source", m |-> "merge", sw |-> "switch",
               q0 |-> "queue", q1 |-> "queue", t0 |-> "sink", t1 |-> "sink"],
     in |-> [s1 |-> <<>>, s2 |-> <<>>, m |-> <<"a", "b">>, sw |-> <<"c">>, q0 |-> <<"d">>,
             q1 |-> <<"e">>, t0 |-> <<"g">>, t1 |-> <<"h">>],
     out |-> [s1 |-> <<"a">>, s2 |-> <<"b">>, m |-> <<"c">>, sw |-> <<"d", "e">>,
              q0 |-> <<"g">>, q1 |-> <<"h">>, t0 |-> <<>>, t1 |-> <<>>],
     emits |-> [s1 |-> Both, s2 |-> <<<<req>>>>],
     types |-> [h \in {"a", "b", "c", "d", "e", "g", "h"} |->
                  CASE h \in {"b", "e", "h"} -> <<<<req>>>>
                    [] h \in {"d", "g"} -> <<<<rsp>>>>
                    [] OTHER -> Both],
     size |-> [q0 |-> 1, q1 |-> 2], takesA |-> <<>>, accepts |-> [sw |-> {rsp}],
     map |-> <<>>, inverse |-> <<>>, queues |-> <<"q0", "q1">>]

MCNetworks == [pair |-> Pair, fan |-> Fan, ring |-> Ring, typical |-> Typical, pipeline |-> Pipeline]

MCGoals == [n \in DOMAIN MCNetworks |->
    IF n = "typical"
    THEN {[q0 |-> a, q1 |-> b] : a \in {<<>>, <<rsp>>, <<rsp, rsp>>, <<req, rsp>>},
                                 b \in {<<>>, <<req>>, <<rsp, req>>}}
    ELSE IF n = "fan"
    THEN {[q0 |-> a, q1 |-> b] : a \in {<<>>, <<rsp>>}, b \in {<<req>>, <<req, req>>, <<>>}}
    ELSE IF n \in {"ring", "pair"}
    THEN {[q0 |-> a, q1 |-> b] : a \in {<<req>>, <<rsp>>, <<>>}, b \in {<<>>, <<req, rsp>>, <<rsp, req>>}}
    ELSE {[q0 |-> a, q1 |-> b, q2 |-> c] : a \in {<<req>>, <<rsp, req>>, <<req, req>>},
                                           b \in {<<>>, <<rsp>>, <<req>>}, c \in {<<rsp>>, <<>>}}]

MCSets == [n \in DOMAIN MCNetworks |->
    IF n = "typical"
    THEN {<<"q0", "q1", "src0a", "src0b", "src1", "s0", "s1">>,
          <<"s1", "src1", "src0b", "q1", "s0", "src0a", "q0">>}
    ELSE IF n = "fan"
    THEN {<<"s1", "q0", "t0", "s2", "q1", "t1">>, <<"t1", "q1", "s2", "q0", "t0", "s1">>}
    ELSE IF n = "pair"
    THEN {<<"t1", "s1", "q1", "t2", "q0", "s2", "t0">>, <<"s2", "s1", "t0", "t1", "t2", "q0", "q1">>}
    ELSE IF n = "ring"
    THEN {<<"s1", "q1", "sink", "q0", "s2">>, <<"q0", "q1", "s2", "s1", "sink">>}
    ELSE {<<"q2", "src", "q1", "q0", "sink">>, <<"sink", "src", "q0", "q1", "q2">>}]
------------------------------------------------------------------------------
(* The cycle checker: all ways to wire five channels between a fork, a      *)
(* join and two queues, or between a switch, a merge, a queue and a         *)
(* function, and two networks with a composite.                             *)
Comp(k, i, o) == [kind |-> k, in |-> i, out |-> o]

MCComponents == {"x", "y", "z", "u"}

Channels == 1 .. 5

MCSignals == {irdy(c) : c \in Channels} \cup {trdy(c) : c \in Channels}

\* w: the inputs, in the order of the components, of channels 1 to 5.  No
\* component feeds itself, and the two inputs of y are in order.
Wirings == {w \in [Channels -> Channels] :
              /\ \A i, j \in Channels : w[i] = w[j] => i = j
              /\ w[1] \notin {1, 2} /\ 3 \notin {w[2], w[3]} /\ w[2] < w[3]
              /\ w[4] # 4 /\ w[5] # 5}

Family(x, y, u) ==
    {[x |-> Comp(x, <<w[1]>>, <<1, 2>>), y |-> Comp(y, <<w[2], w[3]>>, <<3>>),
      z |-> Comp("queue", <<w[4]>>, <<4>>), u |-> Comp(u, <<w[5]>>, <<5>>)] : w \in Wirings}

Forks == Family("fork", "join", "queue")

Switches == Family("switch", "merge", "function")

\* A fork and a join, or a switch and a merge, around a composite.
Composites == {[x |-> Comp("fork", <<5>>, <<1, 2>>), y |-> Comp("join", <<1, 2>>, <<3>>),
                z |-> Comp("composite", <<3>>, <<4>>), u |-> Comp("queue", <<4>>, <<5>>)],
               [x |-> Comp("switch", <<5>>, <<1, 2>>), y |-> Comp("merge", <<1, 2>>, <<3>>),
                z |-> Comp("composite", <<3>>, <<4>>), u |-> Comp("queue", <<4>>, <<5>>)]}

PrimitiveNetworks == {CheckerView(wired) : wired \in Forks \cup Switches}

CompositeNetworks == {CheckerView(wired) : wired \in Composites}

AllNetworks == PrimitiveNetworks \cup CompositeNetworks
------------------------------------------------------------------------------
NothingAsked ==
    /\ net = "fan" /\ target = Empty(Fan) /\ reverse = FALSE /\ bfs = FALSE
    /\ stage = "order" /\ next = <<>> /\ total = <<>> /\ visited = {}
    /\ work = [gts |-> <<>>, lists |-> <<>>] /\ revisits = FALSE
    /\ frontier = <<>> /\ reached = {} /\ answer = FALSE

NothingChecked == network = (CHOOSE view \in Views : TRUE) /\ Init

MCInit ==
    \/ part = "reach" /\ ReachInit /\ NothingChecked
    \/ part = "check" /\ Init /\ NothingAsked

MCNext ==
    \/ part = "reach" /\ ReachNext /\ UNCHANGED <<part, vars>>
    \/ part = "check" /\ Next /\ UNCHANGED <<part, reachVars>>

MCSpec == MCInit /\ [][MCNext]_<<part, vars, reachVars>>

==============================================================================
