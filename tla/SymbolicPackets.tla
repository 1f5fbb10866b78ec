---------------------------- MODULE SymbolicPackets ----------------------------
(***************************************************************************)
(* The symbolic packets of xmv/datamodel: a packet maps keys to fields, a  *)
(* field stands for a set of values.  Three kinds of field are used: an    *)
(* enumeration of values or its complement, a half-open interval of        *)
(* numbers, and "any", which the parser puts under a name that is not      *)
(* restricted yet.                                                         *)
(*                                                                         *)
(* The vectors that the operations fill are sets here: which packets there *)
(* are is what matters, not their order.                                   *)
(***************************************************************************)
EXTENDS Integers, FiniteSetsExt, Functions

CONSTANTS Letters,     \* the values an enumeration may name
          Other,       \* a value no enumeration names: the alphabet is open
          MaxValue     \* numeric_limits<interval_type>::max()

ASSUME PacketsAssumption == Other \notin Letters /\ MaxValue \in Nat

AnyField == [kind |-> "any"]
Enum(vs, c) == [kind |-> "enum", values |-> vs, complement |-> c]
Interval(lo, hi) == [kind |-> "interval", min |-> lo, max |-> hi]

IsField(f) ==
    \/ f = AnyField
    \/ f.kind = "enum" /\ f.values \subseteq Letters /\ f.complement \in BOOLEAN
         /\ f = Enum(f.values, f.complement)
    \/ f.kind = "interval" /\ f.min \in Int /\ f.max \in Int
         /\ f = Interval(f.min, f.max)

\* A packet has a field for each of its keys.
IsPacket(p) ==
    /\ IsFiniteSet(DOMAIN p)
    /\ p = [k \in DOMAIN p |-> p[k]]
    /\ \A k \in DOMAIN p : IsField(p[k])

LowerOf(x, y) == IF x < y THEN x ELSE y
HigherOf(x, y) == IF x < y THEN y ELSE x

\* The values a field stands for.
Values == Letters \cup {Other} \cup 0 .. MaxValue - 1

Meaning(f) ==
    CASE f.kind = "any" -> Values
      [] f.kind = "enum" -> IF f.complement THEN (Letters \cup {Other}) \ f.values
                            ELSE f.values
      [] f.kind = "interval" -> f.min .. f.max - 1
------------------------------------------------------------------------------
Valid(f) ==
    CASE f.kind = "any" -> TRUE
      [] f.kind = "enum" -> f.complement \/ f.values # {}
      [] f.kind = "interval" -> f.max > f.min

EnumIntersection(f, g) ==
    CASE ~ f.complement /\ ~ g.complement -> Enum(f.values \cap g.values, FALSE)
      [] f.complement /\ g.complement -> Enum(f.values \cup g.values, TRUE)
      [] ~ f.complement /\ g.complement -> Enum(f.values \ g.values, FALSE)
      [] f.complement /\ ~ g.complement -> Enum(g.values \ f.values, FALSE)

IntervalIntersection(f, g) ==
    LET lo == HigherOf(f.min, g.min)
        hi == LowerOf(f.max, g.max)
    IN  IF lo < hi THEN {Interval(lo, hi)} ELSE {}

\* f->getIntersection(g).
FieldIntersection(f, g) ==
    CASE f.kind = "any" -> {g}
      [] f.kind # "any" /\ f.kind # g.kind -> {}
      [] f.kind = "enum" /\ g.kind = "enum" -> {EnumIntersection(f, g)}
      [] f.kind = "interval" /\ g.kind = "interval" -> IntervalIntersection(f, g)

EnumDifference(f, g) ==
    CASE ~ f.complement /\ ~ g.complement -> Enum(f.values \ g.values, FALSE)
      [] f.complement /\ g.complement -> Enum(g.values \ f.values, FALSE)
      [] ~ f.complement /\ g.complement -> Enum(f.values \cap g.values, FALSE)
      [] f.complement /\ ~ g.complement -> Enum(f.values \cup g.values, TRUE)

\* Mutant of IntervalDifference: what lies above g is forgotten.
IntervalDifferenceBelow(f, g) ==
    {i \in {Interval(f.min, LowerOf(f.max, g.min))} : i.min < i.max}

IntervalDifference(f, g) ==
    {i \in {Interval(f.min, LowerOf(f.max, g.min)),
            Interval(HigherOf(f.min, g.max), f.max)} : i.min < i.max}

\* The fields f->getDifference(g) hands to its callback.
FieldDifference(f, g) ==
    CASE f.kind = "any" \/ f.kind # g.kind -> {}
      [] f.kind = "enum" /\ g.kind = "enum" -> {EnumDifference(f, g)}
      [] f.kind = "interval" /\ g.kind = "interval" -> IntervalDifference(f, g)

\* Mutant of EnumContains: a complement in an enumeration is looked up by name.
EnumContainsByName(f, g) ==
    IF f.complement THEN (g.complement /\ f.values \subseteq g.values)
                         \/ (~ g.complement /\ f.values \cap g.values = {})
    ELSE g.values \subseteq f.values

EnumContains(f, g) ==
    CASE ~ f.complement /\ g.complement -> FALSE
      [] f.complement /\ ~ g.complement -> g.values \cap f.values = {}
      [] f.complement /\ g.complement -> f.values \subseteq g.values
      [] ~ f.complement /\ ~ g.complement -> g.values \subseteq f.values

\* f->contains(g).
FieldContains(f, g) ==
    CASE f.kind = "any" \/ f.kind # g.kind -> FALSE
      [] f.kind = "enum" /\ g.kind = "enum" -> EnumContains(f, g)
      [] f.kind = "interval" /\ g.kind = "interval" -> f.min <= g.min /\ g.max <= f.max

Touches(f, g) == \/ f.min <= g.min /\ g.min <= f.max
                 \/ f.min <= g.max /\ g.max <= f.max

\* f->isCombinable(g).
FieldCombinable(f, g) ==
    CASE f.kind = "any" \/ f.kind # g.kind -> FALSE
      [] f.kind = "enum" /\ g.kind = "enum" -> f.complement = g.complement
      [] f.kind = "interval" /\ g.kind = "interval" -> Touches(f, g)

\* f->combine(g), of fields that are combinable.  The combination of two
\* complements is a plain enumeration: the flag is not set.
FieldCombine(f, g) ==
    IF f.kind = "interval"
    THEN Interval(LowerOf(f.min, g.min), HigherOf(f.max, g.max))
    ELSE Enum(IF f.complement THEN f.values \cap g.values ELSE f.values \cup g.values, FALSE)

\* f->negate().
FieldNegate(f) ==
    CASE f.kind = "any" -> {}
      [] f.kind = "enum" -> {Enum(f.values, ~ f.complement)}
      [] f.kind = "interval" ->
           (IF f.min > 0 THEN {Interval(0, f.min)} ELSE {})
           \cup (IF f.max < MaxValue THEN {Interval(f.max, MaxValue)} ELSE {})
------------------------------------------------------------------------------
PacketValid(p) == \A k \in DOMAIN p : Valid(p[k])

PacketMeaning(p) ==
    {x \in [DOMAIN p -> UNION {Meaning(p[k]) : k \in DOMAIN p}] :
        \A k \in DOMAIN p : x[k] \in Meaning(p[k])}

\* What packets stand for together.
All(S) == UNION {PacketMeaning(p) : p \in S}

\* f accepts the values x of a packet that has all the fields of f.
Accepts(f, x) == \A k \in DOMAIN f : x[k] \in Meaning(f[k])

\* Both need the fields of a in p, else they throw "can not switch on fields
\* that are possible non-existent".
Comparable(p, a) == DOMAIN a \subseteq DOMAIN p

\* The fields of p are of the kind of those of r, and none may be anything.
SameKinds(p, r) == \A k \in DOMAIN p : p[k].kind = r[k].kind /\ p[k].kind # "any"

\* p.getIntersection(a): one packet for each choice of the intersected fields.
PacketIntersection(p, a) ==
    LET fields(k) == {f \in IF k \in DOMAIN a THEN FieldIntersection(p[k], a[k])
                            ELSE {p[k]} : Valid(f)}
    IN  {r \in [DOMAIN p -> UNION {fields(k) : k \in DOMAIN p}] :
            \A k \in DOMAIN p : r[k] \in fields(k)}

\* p.getDifference(a): packets that differ from a in one field, the others
\* are left as they are in p.
PacketDifference(p, a) ==
    {r \in UNION {{[p EXCEPT ![k] = d] : d \in FieldDifference(p[k], a[k])} :
                      k \in DOMAIN a} : PacketValid(r)}

\* a.contains(p).
PacketContains(a, p) ==
    DOMAIN a = DOMAIN p /\ \A k \in DOMAIN a : FieldContains(a[k], p[k])

\* p.isCombinable(r): the same keys, at most one field that differs, and that
\* one combinable.
PacketCombinable(p, r) ==
    /\ DOMAIN p = DOMAIN r
    /\ LET D == {k \in DOMAIN p : p[k] # r[k]}
       IN  Cardinality(D) <= 1 /\ \A k \in D : FieldCombinable(p[k], r[k])

PacketCombine(p, r) ==
    [k \in DOMAIN p |-> IF p[k] = r[k] THEN p[k] ELSE FieldCombine(p[k], r[k])]

\* p.negate(): each field negated, in all combinations.
PacketNegate(p) ==
    {r \in [DOMAIN p -> UNION {FieldNegate(p[k]) : k \in DOMAIN p}] :
        \A k \in DOMAIN p : r[k] \in FieldNegate(p[k])}
==============================================================================
