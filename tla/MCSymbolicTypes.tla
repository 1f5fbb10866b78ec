--------------------------- MODULE MCSymbolicTypes ---------------------------
(***************************************************************************)
(* SymbolicTypes for TLC: a network with a loop.  Requests and responses   *)
(* of a source go through a merge and a queue to a switch; requests come   *)
(* back, as responses, through a function with a condition; responses are  *)
(* joined with tokens of a second source and sunk.                         *)
(***************************************************************************)
EXTENDS SymbolicTypes

CONSTANTS req, rsp, tok

MCChannels == {"src", "merged", "queued", "requests", "answers", "responses",
               "tokens", "joined"}

MCComponents == {"merge", "queue", "switch", "function", "join", "sink"}

MCKind == [c \in MCComponents |-> c]

MCInputs == [merge |-> <<"src", "answers">>, queue |-> <<"merged">>,
             switch |-> <<"queued">>, function |-> <<"requests">>,
             join |-> <<"tokens", "responses">>, sink |-> <<"joined">>]

MCOutputs == [merge |-> <<"merged">>, queue |-> <<"queued">>,
              switch |-> <<"requests", "responses">>, function |-> <<"answers">>,
              join |-> <<"joined">>, sink |-> <<>>]

P(e, lo, hi) == [k \in {"type", "dst"} |-> IF k = "type" THEN e ELSE Interval(lo, hi)]

\* A packet of the source.
From(e, lo, hi) == [k \in {"type", "dst", "hop"} |->
    IF k = "hop" THEN Interval(0, 1) ELSE P(e, lo, hi)[k]]

\* The two packets of the tokens touch, and are combined.
Token(e, lo, hi) == [k \in {"type", "hop"} |->
                        IF k = "type" THEN Enum(e, FALSE) ELSE Interval(lo, hi)]

MCEmitted == [o \in MCChannels |->
    CASE o = "src" -> {From(Enum({req}, FALSE), 0, 2), From(Enum({req}, TRUE), 1, 3)}
      [] o = "tokens" -> {Token({tok}, 0, 1), Token({tok}, 1, 2)}
      [] o \notin {"src", "tokens"} -> {}]

MCSwitchFunction == [c \in {"switch"} |->
    {[k \in {"type"} |-> Enum({req}, FALSE)], P(Enum({rsp}, FALSE), 2, 3)}]

MCNames == {"type", "dst", "hop"}
------------------------------------------------------------------------------
(* "if type in {req} then type := rsp, dst := dst + 1                      *)
(*  else type := type, dst := 1", as ParsedXMASFunction does it: a field   *)
(*  that is not assigned, hop, is gone.                                    *)

Condition == [type |-> Enum({req}, FALSE)]

\* One packet for each choice of a type and a destination.
Assigned(kinds, destinations) == {[type |-> t, dst |-> d] : t \in kinds, d \in destinations}

MCApplied(c, ps) ==
    LET met == UNION {PacketIntersection(p, Condition) : p \in ps}
        others == UNION {PacketDifference(p, Condition) : p \in ps}
    IN  Assigned({Enum({rsp}, FALSE) : p \in met},
                 {Interval(p.dst.min + 1, p.dst.max + 1) : p \in met})
        \cup Assigned({p.type : p \in others}, {Interval(1, 2) : p \in others})

MCThrows(c, ps) == \E p \in ps : ~ {"type", "dst"} \subseteq DOMAIN p

MCMadeOf(c, x) == IF x.type = req THEN {[type |-> rsp, dst |-> x.dst + 1]}
                  ELSE {[type |-> x.type, dst |-> 1]}
------------------------------------------------------------------------------

\* What the sources emit, and what the components make of it again and again.
RECURSIVE Reach(_)
Reach(flow) ==
    LET next == [o \in Channels |-> flow[o] \cup
                   UNION {Produced(c, flow, o) :
                             c \in {d \in Components : o \in ToSet(Outputs[d])}}]
    IN  IF next = flow THEN flow ELSE Reach(next)

MCReachable == Reach([o \in MCChannels |-> All(MCEmitted[o])])

ASSUME Closed(Reachable)
==============================================================================
