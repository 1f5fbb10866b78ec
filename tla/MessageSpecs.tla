------------------------------ MODULE MessageSpecs ------------------------------
(***************************************************************************)
(* Message specifications (xmv/datamodel/messagespec.cpp): a source may    *)
(* say where its packets end and as what, "(sink1, p) && (sink2, q)".      *)
(* CheckMessageSpec() follows the packets of each source through the       *)
(* network, which gives a formula, and compares it with what was said.     *)
(***************************************************************************)
EXTENDS PacketFlow

CONSTANTS ItemSets   \* what may be said: sets of [from, packets, spec], from a channel

VARIABLES items,     \* what there is to check
          formulas,  \* history: what was found for those that are checked
          problems   \* how many did not agree

specVars == <<items, formulas, problems>>

Null == [is |-> "null"]
End(c, packets) == [is |-> "end", at |-> c, packets |-> packets]
EndLookup(c, packets) == [is |-> "lookup", at |-> c, packets |-> packets]
Error(o, packets) == [is |-> "error", at |-> o, packets |-> packets]
AndSpec(f, g) == [is |-> "and", a |-> f, b |-> g]
OrSpec(f, g) == [is |-> "or", a |-> f, b |-> g]

\* A specification in the text of a source: ends and operators from left to right, && no
\* stronger than ||.
Said(first, more) ==
    FoldLeft(LAMBDA f, t : IF t.op = "and" THEN AndSpec(f, t.end) ELSE OrSpec(f, t.end),
             first, more)

Target(o) == CHOOSE c \in Components : o \in ToSet(Inputs[c])
------------------------------------------------------------------------------
\* What is left of a packet when all conditions are subtracted from it.
Rest(p, conditions) ==
    FoldSet(LAMBDA f, left : UNION {PacketDifference(r, f) : r \in left},
            {p}, conditions)

\* What a switch lets out.
OutputA(c, packets) ==
    UNION {PacketIntersection(p, f) : p \in packets, f \in SwitchFunction[c]}
OutputB(c, packets) == UNION {Rest(p, SwitchFunction[c]) : p \in packets}

\* Either output, or the one there is.
Either(f, g) == IF f = Null THEN g ELSE IF g = Null THEN f ELSE OrSpec(f, g)

\* Mutant of Copies: as if the packet took one of the outputs.
CopiesEither(f, g) == Either(f, g)

\* Each output of a fork.
Copies(f, g) == IF f = Null THEN g ELSE AndSpec(f, g)

\* ConstructFormula(o, visited, packets): where the packets that go through channel o
\* end.  A packet that was in a channel before, on the way to it, is a loop.
RECURSIVE Formula(_, _, _)
Formula(o, visited, packets) ==
    LET c == Target(o)
        onward(n, ps) == Formula(Outputs[c][n], visited \cup {<<o, p>> : p \in packets}, ps)
    IN  CASE packets = {} -> Null
          [] packets # {} /\ (\E p \in packets : <<o, p>> \in visited) -> Error(o, packets)
          [] OTHER ->
               CASE Kind[c] = "sink" -> End(c, packets)
                 [] Kind[c] \in {"queue", "merge", "join"} -> onward(1, packets)
                 [] Kind[c] = "function" -> onward(1, Applied(c, packets))
                 [] Kind[c] = "switch" ->
                      Either(onward(1, OutputA(c, packets)), onward(2, OutputB(c, packets)))
                 [] Kind[c] = "fork" -> Copies(onward(1, packets), onward(2, packets))

\* operator==: operands may be exchanged, but they are not regrouped, and an end that is
\* looked up by name never equals one that was found.
RECURSIVE Same(_, _)
Same(f, g) ==
    /\ f.is = g.is
    /\ f.is \in {"and", "or"} =>
          IF Same(f.a, g.a) THEN Same(f.b, g.b) ELSE Same(f.a, g.b) /\ Same(f.b, g.a)
    /\ f.is \notin {"and", "or"} => f = g

SpecInit ==
    /\ items \in ItemSets
    /\ formulas = <<>>
    /\ problems = 0

\* MessageSpecWorkerItem::execute(), in any order.
Check(i) ==
    LET f == Formula(i.from, {}, i.packets)
    IN  /\ items' = items \ {i}
        /\ formulas' = (i :> f) @@ formulas
        /\ problems' = IF Same(i.spec, f) THEN problems ELSE problems + 1

SpecNext == \E i \in items : Check(i)

\* CheckMessageSpec() returns.
Correct == items = {} /\ problems = 0
------------------------------------------------------------------------------
(* The reference: one packet with values x.                                *)

\* Where it may be next: channels, or the sink.
Onward(o, x) ==
    LET c == Target(o)
        matches == \E f \in SwitchFunction[c] : Accepts(f, x)
    IN  CASE Kind[c] = "sink" -> {<<c, x>>}
          [] Kind[c] \in {"queue", "merge", "fork"} -> {<<n, x>> : n \in ToSet(Outputs[c])}
          [] Kind[c] = "function" -> {<<Outputs[c][1], y>> : y \in MadeOf(c, x)}
          [] Kind[c] = "switch" -> {<<Outputs[c][IF matches THEN 1 ELSE 2], x>>}

RECURSIVE Trail(_)
Trail(seen) ==
    LET more == seen \cup UNION {Onward(y[1], y[2]) : y \in {z \in seen : z[1] \in Channels}}
    IN  IF more = seen THEN seen ELSE Trail(more)

AtSinks(seen) == {y \in seen : y[1] \notin Channels}

\* It comes back to a channel as the same.
Loops(o, x) == \E y \in Trail({<<o, x>>}) : /\ y[1] \in Channels
                                           /\ y \in Trail(Onward(y[1], y[2]))

RECURSIVE Leaves(_)
Leaves(f) == IF f.is \in {"and", "or"} THEN Leaves(f.a) \cup Leaves(f.b) ELSE {f}

\* The ways in which a formula may be met: the ends that are reached together.
RECURSIVE Ways(_)
Ways(f) ==
    CASE f.is = "or" -> Ways(f.a) \cup Ways(f.b)
      [] f.is = "and" -> {v \cup w : v \in Ways(f.a), w \in Ways(f.b)}
      [] f.is \notin {"and", "or"} -> {{f}}

Delivered(leaves) ==
    UNION {{<<e.at, x>> : x \in UNION {PacketMeaning(p) : p \in e.packets}} : e \in leaves}

Concrete(packets) == UNION {PacketMeaning(p) : p \in packets}

\* What a formula says is so: the ends it names, with the values it names there, are
\* those that the packets reach, and each packet reaches all the ends of one of the
\* ways, and those only.
Says(f, o, packets) ==
    /\ Delivered(Leaves(f)) = UNION {AtSinks(Trail({<<o, x>>})) : x \in Concrete(packets)}
    /\ \A x \in Concrete(packets) : \E w \in Ways(f) :
          LET reached == AtSinks(Trail({<<o, x>>}))
          IN  /\ {y[1] : y \in reached} = {e.at : e \in w}
              /\ reached \subseteq Delivered(w)

HasError(f) == \E e \in Leaves(f) : e.is = "error"

\* The formula of a source is what its packets do, one by one: copies go to all ends of
\* an "and", whatever becomes of them on the way, alternatives are taken by someone, and
\* a loop is reported if and only if a packet can go around.  So if the check finds no
\* problems, what was said is what happens.
SpecsAreExact ==
    /\ \A i \in DOMAIN formulas :
          IF formulas[i] = Null THEN i.packets = {}
          ELSE IF HasError(formulas[i]) THEN \E x \in Concrete(i.packets) : Loops(i.from, x)
          ELSE /\ \A x \in Concrete(i.packets) : ~ Loops(i.from, x)
               /\ Says(formulas[i], i.from, i.packets)
    /\ Correct => \A i \in DOMAIN formulas :
          i.spec # Null /\ ~ HasError(i.spec) => Says(i.spec, i.from, i.packets)
==============================================================================
