--------------------------- MODULE PacketExpressions ---------------------------
(***************************************************************************)
(* The packet expressions of xmv/datamodel/parse.cpp ("type in {req, rsp}  *)
(* && dst < 4"): what the parser makes of one as it reads it.  It keeps    *)
(* the set of symbolic packets read so far, and those of the brackets and  *)
(* operators around it; operators of one level are applied from left to    *)
(* right, and && binds no stronger than ||.                                *)
(***************************************************************************)
EXTENDS SymbolicPackets, Sequences

CONSTANTS Keys,            \* names in expressions
          Numbers,         \* numbers in expressions, those in intervals with a sign too
          Enumerations,    \* sets of letters between braces
          MaxOperations    \* how long an expression may be

\* Names are no numbers.
ASSUME ExpressionsAssumption ==
    /\ Numbers \subseteq Int
    /\ Enumerations \subseteq SUBSET Letters
    /\ \A v \in Letters \cup {Other} : v \notin Int

VARIABLES operands,   \* the packet sets of the open brackets, innermost last, and for
                      \* each what it was read from: the values it is said of
          crashed     \* the parser has read behind the end of a vector, or divided by 0

exprVars == <<operands, crashed>>

\* Constant expressions: a number, or two with an operator, while they stay below MaxValue.
Arithmetic(op, i, j) ==
    CASE op = "+" -> i + j
      [] op = "-" -> i - j
      [] op = "*" -> i * j
      [] op = "/" -> i \div j
      [] op = "mod" -> i % j

\* Only in an interval a number has a sign, elsewhere it is an operator.
Unsigned == Numbers \cap Nat

Bounds == {n \in Unsigned \cup {Arithmetic(op, i, j) : op \in {"+", "-", "*"}, i, j \in Unsigned}
                         \cup {Arithmetic(op, i, j) : op \in {"/", "mod"}, i \in Unsigned,
                                                     j \in Unsigned \ {0}} : n < MaxValue}

Valuations == [Keys -> Values]

\* set: SymbolicPacketSet.  History: says are the values that the expression as written
\* is true of; plain, whether the parser promises to mean the same; and its length.
Operand(set, says, plain, length) ==
    [set |-> set, says |-> says, plain |-> plain, length |-> length]

ExprInit == operands = <<>> /\ crashed = FALSE

Innermost == operands[Len(operands)]
Outer == operands[Len(operands) - 1]
Length == FoldFunction(LAMBDA e, n : e.length + n, 0, operands)

Replace(e) == operands' = [operands EXCEPT ![Len(operands)] = e]
ReplaceTwo(e) == operands' = Append(SubSeq(operands, 1, Len(operands) - 2), e)

Mentioned(e) == UNION {DOMAIN p : p \in e.set}

\* All packets have the same fields, so that a condition on each field of each packet
\* is one on the values.
Uniform(e) == \A p \in e.set : DOMAIN p = Mentioned(e)

\* The values of e of which each field that it mentions is in range.
Within(e, range) == {x \in e.says : \A k \in Mentioned(e) : x[k] \in range}

\* Room for one more operation.
MayGrow == ~ crashed /\ Length < MaxOperations
------------------------------------------------------------------------------
\* A name: any packet with that field.
Variable ==
    /\ MayGrow /\ Len(operands) < 3
    /\ \E k \in Keys :
          operands' = Append(operands,
              Operand({[key \in {k} |-> AnyField]}, Valuations, TRUE, 1))
    /\ UNCHANGED crashed

Restricted(p, f) == [k \in DOMAIN p |-> CHOOSE g \in FieldIntersection(p[k], f) : TRUE]

\* A field that has nothing in common with what it is compared to.
Empty(p, f) == \E k \in DOMAIN p : FieldIntersection(p[k], f) = {}

\* == and in, with an interval or an enumeration: every field is restricted to it.
EqualTo(f) ==
    /\ MayGrow /\ operands # <<>>
    /\ IF \E p \in Innermost.set : Empty(p, f)
       THEN crashed' = TRUE /\ UNCHANGED operands
       ELSE /\ Replace(Operand({Restricted(p, f) : p \in Innermost.set},
                               Within(Innermost, Meaning(f)),
                               Innermost.plain /\ Uniform(Innermost), Innermost.length + 1))
            /\ UNCHANGED crashed

Equal ==
    \/ \E lo, hi \in Numbers : EqualTo(Interval(lo, hi + 1))
    \/ \E vs \in Enumerations : EqualTo(Enum(vs, FALSE))

Negated(set) == UNION {PacketNegate(p) : p \in set}

\* What "not e" says: e was about one field, and its kind tells the other values.
Complement(e) ==
    LET p == CHOOSE q \in e.set : TRUE
        k == CHOOSE key \in DOMAIN p : TRUE
        universe == CASE p[k].kind = "any" -> Values
                      [] p[k].kind = "interval" -> 0 .. MaxValue - 1
                      [] p[k].kind = "enum" -> Letters \cup {Other}
    IN  {x \in Valuations : x[k] \in universe} \ e.says

\* A negation is taken field by field and packet by packet, and the results are
\* alternatives: only of one packet with one field it is the complement.
Negatable(e) == \E p \in e.set : e.set = {p} /\ \E k \in DOMAIN p : DOMAIN p = {k}

\* ! and, after an ==, != and notin.
Negate ==
    /\ MayGrow /\ operands # <<>>
    /\ Replace(Operand(Negated(Innermost.set),
                       IF Negatable(Innermost) THEN Complement(Innermost) ELSE {},
                       Innermost.plain /\ Negatable(Innermost), Innermost.length + 1))
    /\ UNCHANGED crashed
------------------------------------------------------------------------------
\* lessAs, greaterEqualAs, ...: the bound is set, whatever it was; a field without
\* bounds gets both; an enumeration is left alone.
Below(f, b) ==
    CASE f.kind = "interval" -> [f EXCEPT !.max = b]
      [] f.kind = "any" -> Interval(0, b)
      [] f.kind = "enum" -> f

Above(f, b) ==
    CASE f.kind = "interval" -> [f EXCEPT !.min = b]
      [] f.kind = "any" -> Interval(b, MaxValue)
      [] f.kind = "enum" -> f

OnFields(Op(_), set) == {[k \in DOMAIN p |-> Op(p[k])] : p \in set}

\* The comparison narrows what is there: else it says something else than it does.
Narrows(old, new) ==
    old.kind = "any" \/ (old.kind = "interval" /\ old.min <= new.min /\ new.max <= old.max)

Compare(Op(_), range) ==
    /\ MayGrow /\ operands # <<>>
    /\ Replace(Operand(OnFields(Op, Innermost.set), Within(Innermost, range),
                       /\ Innermost.plain /\ Uniform(Innermost)
                       /\ \A p \in Innermost.set : \A k \in DOMAIN p : Narrows(p[k], Op(p[k])),
                       Innermost.length + 1))
    /\ UNCHANGED crashed

Less == \E b \in Bounds : Compare(LAMBDA f : Below(f, b), 0 .. b - 1)
LessEqual == \E b \in Bounds : Compare(LAMBDA f : Below(f, b + 1), 0 .. b)
Greater == \E b \in Bounds : Compare(LAMBDA f : Above(f, b + 1), b + 1 .. MaxValue - 1)
GreaterEqual == \E b \in Bounds : Compare(LAMBDA f : Above(f, b), b .. MaxValue - 1)

\* A division by zero in a constant expression is executed.
DivideByZero ==
    /\ MayGrow /\ operands # <<>> /\ 0 \in Numbers
    /\ crashed' = TRUE /\ UNCHANGED operands
------------------------------------------------------------------------------
\* Two packets at once: fields that both have are intersected, and a pair without a
\* common value is left out.
Both(p, r) ==
    LET common == DOMAIN p \cap DOMAIN r
    IN  IF \E k \in common : FieldIntersection(p[k], r[k]) = {} THEN {}
        ELSE {[k \in DOMAIN p \cup DOMAIN r |->
                 IF k \in common THEN CHOOSE f \in FieldIntersection(p[k], r[k]) : TRUE
                 ELSE IF k \in DOMAIN p THEN p[k] ELSE r[k]]}

\* Mutant of PerformAnd: the fields of one packet only.
PerformAndFirst(a, b) ==
    UNION {{Restrict(x, DOMAIN p) : x \in Both(p, r)} : p \in a, r \in b}

PerformAnd(a, b) == UNION {Both(p, r) : p \in a, r \in b}

PerformOr(a, b) == a \cup b

\* What is restricted on the left has nothing in common with a bare name on the right,
\* though the other way around it has: "k == 1 && k" is said of nothing.
Ordered(a, b) == \A p \in a.set, r \in b.set : \A k \in DOMAIN p \cap DOMAIN r :
                    r[k] = AnyField => p[k] = AnyField

And ==
    /\ MayGrow /\ Len(operands) >= 2
    /\ ReplaceTwo(Operand(PerformAnd(Outer.set, Innermost.set), Outer.says \cap Innermost.says,
                          Outer.plain /\ Innermost.plain /\ Ordered(Outer, Innermost),
                          Outer.length + Innermost.length + 1))
    /\ UNCHANGED crashed

Or ==
    /\ MayGrow /\ Len(operands) >= 2
    /\ ReplaceTwo(Operand(PerformOr(Outer.set, Innermost.set), Outer.says \cup Innermost.says,
                          Outer.plain /\ Innermost.plain,
                          Outer.length + Innermost.length + 1))
    /\ UNCHANGED crashed

\* c ? a : b is (c && a) || (! c && b).
IfThenElse ==
    /\ MayGrow /\ Len(operands) = 3
    /\ LET c == operands[1]  yes == operands[2]  no == operands[3]
           not == [c EXCEPT !.set = Negated(c.set),
                            !.says = IF Negatable(c) THEN Complement(c) ELSE {}]
       IN  operands' = <<Operand(PerformOr(PerformAnd(c.set, yes.set), PerformAnd(not.set, no.set)),
                                 (c.says \cap yes.says) \cup (not.says \cap no.says),
                                 /\ c.plain /\ yes.plain /\ no.plain /\ Negatable(c)
                                 /\ Ordered(c, yes) /\ Ordered(not, no),
                                 c.length + yes.length + no.length + 1)>>
    /\ UNCHANGED crashed

ExprNext == \/ Variable \/ Equal \/ Negate
            \/ Less \/ LessEqual \/ Greater \/ GreaterEqual
            \/ DivideByZero \/ And \/ Or \/ IfThenElse

ExprSpec == ExprInit /\ [][ExprNext]_exprVars
------------------------------------------------------------------------------
Denotes(set) == {x \in Valuations : \E p \in set : \A k \in DOMAIN p : x[k] \in Meaning(p[k])}

\* An expression stands for the packets it says: however conditions, alternatives, both
\* and if-then-else are nested, as long as what is negated is about one field and in one
\* piece, a comparison only narrows what was read before it, and a bare name does not
\* follow a condition on it.
ExpressionMeansWhatItSays ==
    \A i \in DOMAIN operands :
        LET e == operands[i] IN e.plain => Denotes(e.set) = e.says
==============================================================================
