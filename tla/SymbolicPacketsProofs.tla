-------------------------- MODULE SymbolicPacketsProofs --------------------------
(***************************************************************************)
(* Proofs about symbolic packets: for any network, any packets that its    *)
(* sources emit and any switching functions, and for any operands that an  *)
(* expression is built from.  In this order: what the operations on fields *)
(* make of the sets that fields stand for; what the operations on packets  *)
(* make of them; the loops of a switch (SwitchSplit); the algebra that     *)
(* simplify() relies on; types and components, where what is done with     *)
(* packets is shown to be what is done with each of their values; the      *)
(* fixpoint (SymbolicTypes); what expressions mean (PacketExpressions);    *)
(* and what functions leave nothing out of (PacketFunctions).              *)
(***************************************************************************)
EXTENDS SymbolicTypes, PacketExpressions, PacketFunctions, FiniteSetTheorems, SequenceTheorems, TLAPS

\* The fields there are: anything, names or all but those, and intervals.
Fields ==
    {AnyField}
    \cup {Enum(vs, c) : vs \in SUBSET Letters, c \in BOOLEAN}
    \cup {Interval(lo, hi) : lo \in Int, hi \in Int}

LEMMA FieldsAre == \A f : IsField(f) <=> f \in Fields
<1>1. ASSUME NEW f, IsField(f) PROVE f \in Fields
  <2>1. CASE f = AnyField
    BY <2>1 DEF Fields
  <2>2. CASE f.kind = "enum" /\ f.values \subseteq Letters /\ f.complement \in BOOLEAN
               /\ f = Enum(f.values, f.complement)
    BY <2>2 DEF Fields
  <2>3. CASE f.kind = "interval" /\ f.min \in Int /\ f.max \in Int
               /\ f = Interval(f.min, f.max)
    BY <2>3 DEF Fields
  <2>4. QED
    BY <1>1, <2>1, <2>2, <2>3 DEF IsField
<1>2. ASSUME NEW f \in Fields PROVE IsField(f)
  BY DEF Fields, IsField, Enum, Interval
<1>3. QED
  BY <1>1, <1>2

\* A field of each kind, taken apart.
LEMMA FieldCases ==
    ASSUME NEW f \in Fields
    PROVE  \/ f.kind = "any" /\ f = AnyField
           \/ /\ f.kind = "enum" /\ f.values \in SUBSET Letters /\ f.complement \in BOOLEAN
              /\ f = Enum(f.values, f.complement)
              /\ Meaning(f) = IF f.complement THEN (Letters \cup {Other}) \ f.values
                                              ELSE f.values
              /\ Valid(f) <=> f.complement \/ f.values # {}
           \/ /\ f.kind = "interval" /\ f.min \in Int /\ f.max \in Int
              /\ f = Interval(f.min, f.max)
              /\ Meaning(f) = f.min .. f.max - 1
              /\ Valid(f) <=> f.max > f.min
<1>1. f = AnyField => f.kind = "any"
  BY DEF AnyField
<1>2. ASSUME NEW vs \in SUBSET Letters, NEW c \in BOOLEAN, f = Enum(vs, c)
      PROVE  /\ f.kind = "enum" /\ f.values \in SUBSET Letters /\ f.complement \in BOOLEAN
             /\ f = Enum(f.values, f.complement)
             /\ Meaning(f) = IF f.complement THEN (Letters \cup {Other}) \ f.values
                                             ELSE f.values
             /\ Valid(f) <=> f.complement \/ f.values # {}
  BY <1>2 DEF Enum, Meaning, Valid
<1>3. ASSUME NEW lo \in Int, NEW hi \in Int, f = Interval(lo, hi)
      PROVE  /\ f.kind = "interval" /\ f.min \in Int /\ f.max \in Int
             /\ f = Interval(f.min, f.max)
             /\ Meaning(f) = f.min .. f.max - 1
             /\ Valid(f) <=> f.max > f.min
  BY <1>3 DEF Interval, Meaning, Valid
<1>4. \/ f = AnyField
      \/ \E vs \in SUBSET Letters, c \in BOOLEAN : f = Enum(vs, c)
      \/ \E lo \in Int, hi \in Int : f = Interval(lo, hi)
  BY DEF Fields
<1>5. CASE \E vs \in SUBSET Letters, c \in BOOLEAN : f = Enum(vs, c)
  BY ONLY <1>2, <1>5
<1>6. CASE \E lo \in Int, hi \in Int : f = Interval(lo, hi)
  BY ONLY <1>3, <1>6
<1>7. QED
  BY ONLY <1>1, <1>4, <1>5, <1>6

LEMMA EnumMeaning ==
    ASSUME NEW vs \in SUBSET Letters, NEW c \in BOOLEAN
    PROVE  /\ Enum(vs, c) \in Fields /\ Enum(vs, c).kind = "enum"
           /\ Enum(vs, c).values = vs /\ Enum(vs, c).complement = c
           /\ Meaning(Enum(vs, c)) = IF c THEN (Letters \cup {Other}) \ vs ELSE vs
BY DEF Fields, Enum, Meaning

LEMMA IntervalMeaning ==
    ASSUME NEW lo \in Int, NEW hi \in Int
    PROVE  /\ Interval(lo, hi) \in Fields /\ Interval(lo, hi).kind = "interval"
           /\ Interval(lo, hi).min = lo /\ Interval(lo, hi).max = hi
           /\ Meaning(Interval(lo, hi)) = lo .. hi - 1
BY DEF Fields, Interval, Meaning

\* valid() tells the fields that stand for something.
LEMMA ValidIsNonempty ==
    ASSUME NEW f \in Fields, f.kind # "any"
    PROVE  Valid(f) <=> Meaning(f) # {}
<1>1. CASE f.kind = "enum"
  BY <1>1, FieldCases, PacketsAssumption
<1>2. CASE f.kind = "interval"
  <2>1. f.max > f.min => f.min \in Meaning(f)
    BY <1>2, FieldCases
  <2>2. QED
    BY <1>2, <2>1, FieldCases
<1>3. QED
  BY <1>1, <1>2, FieldCases

\* What all the fields of a set stand for together.
Together(F) == UNION {Meaning(h) : h \in F}

\* getIntersection of fields of one kind is the intersection.
LEMMA IntersectionOfFields ==
    ASSUME NEW f \in Fields, NEW g \in Fields
    PROVE  /\ FieldIntersection(f, g) \subseteq Fields
           /\ Together(FieldIntersection(f, g)) \subseteq Meaning(g)
           /\ f.kind # "any" => /\ Together(FieldIntersection(f, g)) \subseteq Meaning(f)
                                /\ \A h \in FieldIntersection(f, g) : h.kind = f.kind
           /\ f.kind = g.kind /\ f.kind # "any" =>
                Together(FieldIntersection(f, g)) = Meaning(f) \cap Meaning(g)
<1>1. CASE f.kind = "any"
  BY <1>1 DEF FieldIntersection, Together
<1>2. CASE f.kind # "any" /\ f.kind # g.kind
  BY <1>2 DEF FieldIntersection, Together
<1>3. CASE f.kind = "enum" /\ g.kind = "enum"
  <2> DEFINE e == EnumIntersection(f, g)
  <2>1. FieldIntersection(f, g) = {e}
    BY <1>3 DEF FieldIntersection
  <2>2. /\ f.values \in SUBSET Letters /\ f.complement \in BOOLEAN
        /\ g.values \in SUBSET Letters /\ g.complement \in BOOLEAN
        /\ Meaning(f) = IF f.complement THEN (Letters \cup {Other}) \ f.values ELSE f.values
        /\ Meaning(g) = IF g.complement THEN (Letters \cup {Other}) \ g.values ELSE g.values
    BY <1>3, FieldCases
  <2> HIDE DEF e
  <2>3. e \in Fields /\ e.kind = "enum" /\ Meaning(e) = Meaning(f) \cap Meaning(g)
    <3>1. CASE ~ f.complement /\ ~ g.complement
      <4>1. e = Enum(f.values \cap g.values, FALSE) /\ f.values \cap g.values \in SUBSET Letters
        BY <2>2, <3>1 DEF e, EnumIntersection
      <4>2. e \in Fields /\ e.kind = "enum" /\ Meaning(e) = IF FALSE THEN (Letters \cup {Other}) \ (f.values \cap g.values) ELSE f.values \cap g.values
        BY ONLY <4>1, EnumMeaning, FALSE \in BOOLEAN
      <4>3. QED
        BY <2>2, <3>1, <4>2, PacketsAssumption
    <3>2. CASE f.complement /\ g.complement
      <4>1. e = Enum(f.values \cup g.values, TRUE) /\ f.values \cup g.values \in SUBSET Letters
        BY <2>2, <3>2 DEF e, EnumIntersection
      <4>2. e \in Fields /\ e.kind = "enum" /\ Meaning(e) = IF TRUE THEN (Letters \cup {Other}) \ (f.values \cup g.values) ELSE f.values \cup g.values
        BY ONLY <4>1, EnumMeaning, TRUE \in BOOLEAN
      <4>3. QED
        BY <2>2, <3>2, <4>2, PacketsAssumption
    <3>3. CASE ~ f.complement /\ g.complement
      <4>1. e = Enum(f.values \ g.values, FALSE) /\ f.values \ g.values \in SUBSET Letters
        BY <2>2, <3>3 DEF e, EnumIntersection
      <4>2. e \in Fields /\ e.kind = "enum" /\ Meaning(e) = IF FALSE THEN (Letters \cup {Other}) \ (f.values \ g.values) ELSE f.values \ g.values
        BY ONLY <4>1, EnumMeaning, FALSE \in BOOLEAN
      <4>3. QED
        BY <2>2, <3>3, <4>2, PacketsAssumption
    <3>4. CASE f.complement /\ ~ g.complement
      <4>1. e = Enum(g.values \ f.values, FALSE) /\ g.values \ f.values \in SUBSET Letters
        BY <2>2, <3>4 DEF e, EnumIntersection
      <4>2. e \in Fields /\ e.kind = "enum" /\ Meaning(e) = IF FALSE THEN (Letters \cup {Other}) \ (g.values \ f.values) ELSE g.values \ f.values
        BY ONLY <4>1, EnumMeaning, FALSE \in BOOLEAN
      <4>3. QED
        BY <2>2, <3>4, <4>2, PacketsAssumption
    <3>5. QED
      BY <2>2, <3>1, <3>2, <3>3, <3>4
  <2>4. QED
    BY <1>3, <2>1, <2>3 DEF Together
<1>4. CASE f.kind = "interval" /\ g.kind = "interval"
  <2> DEFINE lo == HigherOf(f.min, g.min)
             hi == LowerOf(f.max, g.max)
  <2>1. FieldIntersection(f, g) = IF lo < hi THEN {Interval(lo, hi)} ELSE {}
    BY <1>4 DEF FieldIntersection, IntervalIntersection
  <2>2. /\ f.min \in Int /\ f.max \in Int /\ g.min \in Int /\ g.max \in Int
        /\ Meaning(f) = f.min .. f.max - 1 /\ Meaning(g) = g.min .. g.max - 1
    BY <1>4, FieldCases
  <2>3. lo \in Int /\ hi \in Int /\ lo .. hi - 1 = Meaning(f) \cap Meaning(g)
    BY <2>2 DEF HigherOf, LowerOf
  <2> HIDE DEF lo, hi
  <2>4. ~ (lo < hi) => lo .. hi - 1 = {}
    BY <2>3
  <2>5. QED
    BY <1>4, <2>1, <2>3, <2>4, IntervalMeaning DEF Together
<1>5. QED
  BY <1>1, <1>2, <1>3, <1>4, FieldCases

\* getDifference of fields of one kind is the difference.
LEMMA DifferenceOfFields ==
    ASSUME NEW f \in Fields, NEW g \in Fields
    PROVE  /\ FieldDifference(f, g) \subseteq Fields
           /\ Together(FieldDifference(f, g)) \cap Meaning(g) = {}
           /\ Together(FieldDifference(f, g)) \subseteq Meaning(f)
           /\ \A h \in FieldDifference(f, g) : h.kind = f.kind
           /\ f.kind = g.kind /\ f.kind # "any" =>
                Together(FieldDifference(f, g)) = Meaning(f) \ Meaning(g)
<1>1. CASE f.kind = "any" \/ f.kind # g.kind
  BY <1>1 DEF FieldDifference, Together
<1>3. CASE f.kind = "enum" /\ g.kind = "enum"
  <2> DEFINE e == EnumDifference(f, g)
  <2>1. FieldDifference(f, g) = {e}
    BY <1>3 DEF FieldDifference
  <2>2. /\ f.values \in SUBSET Letters /\ f.complement \in BOOLEAN
        /\ g.values \in SUBSET Letters /\ g.complement \in BOOLEAN
        /\ Meaning(f) = IF f.complement THEN (Letters \cup {Other}) \ f.values ELSE f.values
        /\ Meaning(g) = IF g.complement THEN (Letters \cup {Other}) \ g.values ELSE g.values
    BY <1>3, FieldCases
  <2> HIDE DEF e
  <2>3. e \in Fields /\ e.kind = "enum" /\ Meaning(e) = Meaning(f) \ Meaning(g)
    <3>1. CASE ~ f.complement /\ ~ g.complement
      <4>1. e = Enum(f.values \ g.values, FALSE) /\ f.values \ g.values \in SUBSET Letters
        BY <2>2, <3>1 DEF e, EnumDifference
      <4>2. e \in Fields /\ e.kind = "enum" /\ Meaning(e) = IF FALSE THEN (Letters \cup {Other}) \ (f.values \ g.values) ELSE f.values \ g.values
        BY ONLY <4>1, EnumMeaning, FALSE \in BOOLEAN
      <4>3. QED
        BY <2>2, <3>1, <4>2, PacketsAssumption
    <3>2. CASE f.complement /\ g.complement
      <4>1. e = Enum(g.values \ f.values, FALSE) /\ g.values \ f.values \in SUBSET Letters
        BY <2>2, <3>2 DEF e, EnumDifference
      <4>2. e \in Fields /\ e.kind = "enum" /\ Meaning(e) = IF FALSE THEN (Letters \cup {Other}) \ (g.values \ f.values) ELSE g.values \ f.values
        BY ONLY <4>1, EnumMeaning, FALSE \in BOOLEAN
      <4>3. QED
        BY <2>2, <3>2, <4>2, PacketsAssumption
    <3>3. CASE ~ f.complement /\ g.complement
      <4>1. e = Enum(f.values \cap g.values, FALSE) /\ f.values \cap g.values \in SUBSET Letters
        BY <2>2, <3>3 DEF e, EnumDifference
      <4>2. e \in Fields /\ e.kind = "enum" /\ Meaning(e) = IF FALSE THEN (Letters \cup {Other}) \ (f.values \cap g.values) ELSE f.values \cap g.values
        BY ONLY <4>1, EnumMeaning, FALSE \in BOOLEAN
      <4>3. QED
        BY <2>2, <3>3, <4>2, PacketsAssumption
    <3>4. CASE f.complement /\ ~ g.complement
      <4>1. e = Enum(f.values \cup g.values, TRUE) /\ f.values \cup g.values \in SUBSET Letters
        BY <2>2, <3>4 DEF e, EnumDifference
      <4>2. e \in Fields /\ e.kind = "enum" /\ Meaning(e) = IF TRUE THEN (Letters \cup {Other}) \ (f.values \cup g.values) ELSE f.values \cup g.values
        BY ONLY <4>1, EnumMeaning, TRUE \in BOOLEAN
      <4>3. QED
        BY <2>2, <3>4, <4>2, PacketsAssumption
    <3>5. QED
      BY <2>2, <3>1, <3>2, <3>3, <3>4
  <2>4. QED
    BY <1>3, <2>1, <2>3 DEF Together
<1>4. CASE f.kind = "interval" /\ g.kind = "interval"
  <2> DEFINE hi == LowerOf(f.max, g.min)
             lo == HigherOf(f.min, g.max)
             below == Interval(f.min, hi)
             above == Interval(lo, f.max)
  <2>1. FieldDifference(f, g) = {i \in {below, above} : i.min < i.max}
    BY <1>4 DEF FieldDifference, IntervalDifference
  <2>2. /\ f.min \in Int /\ f.max \in Int /\ g.min \in Int /\ g.max \in Int
        /\ Meaning(f) = f.min .. f.max - 1 /\ Meaning(g) = g.min .. g.max - 1
    BY <1>4, FieldCases
  <2>3. /\ lo \in Int /\ hi \in Int
        /\ (f.min .. hi - 1) \cup (lo .. f.max - 1) = Meaning(f) \ Meaning(g)
    BY <2>2 DEF HigherOf, LowerOf
  <2> HIDE DEF lo, hi
  <2>4. /\ below \in Fields /\ below.kind = "interval" /\ Meaning(below) = f.min .. hi - 1
        /\ above \in Fields /\ above.kind = "interval" /\ Meaning(above) = lo .. f.max - 1
        /\ ~ (below.min < below.max) => Meaning(below) = {}
        /\ ~ (above.min < above.max) => Meaning(above) = {}
    <3>1. /\ below \in Fields /\ below.kind = "interval" /\ Meaning(below) = f.min .. hi - 1
          /\ below.min = f.min /\ below.max = hi
      <4>1. f.min \in Int /\ hi \in Int
        BY <2>2, <2>3
      <4>2. QED
        BY ONLY <4>1, IntervalMeaning
    <3>2. /\ above \in Fields /\ above.kind = "interval" /\ Meaning(above) = lo .. f.max - 1
          /\ above.min = lo /\ above.max = f.max
      <4>1. lo \in Int /\ f.max \in Int
        BY <2>2, <2>3
      <4>2. QED
        BY ONLY <4>1, IntervalMeaning
    <3>3. QED
      BY <2>2, <2>3, <3>1, <3>2
  <2> HIDE DEF below, above
  <2>5. Together(FieldDifference(f, g)) = Meaning(below) \cup Meaning(above)
    BY <2>1, <2>4 DEF Together
  <2>6. QED
    BY <1>4, <2>1, <2>3, <2>4, <2>5
<1>5. QED
  BY <1>1, <1>3, <1>4, FieldCases
------------------------------------------------------------------------------
\* A packet stands for the functions that choose a value of each of its fields.
LEMMA MeaningOfPacket ==
    ASSUME NEW p, NEW x
    PROVE  x \in PacketMeaning(p) <=>
             /\ x = [k \in DOMAIN p |-> x[k]]
             /\ \A k \in DOMAIN p : x[k] \in Meaning(p[k])
<1>1. ASSUME x = [k \in DOMAIN p |-> x[k]], \A k \in DOMAIN p : x[k] \in Meaning(p[k])
      PROVE  x \in [DOMAIN p -> UNION {Meaning(p[k]) : k \in DOMAIN p}]
  <2>1. \A k \in DOMAIN p : x[k] \in UNION {Meaning(p[j]) : j \in DOMAIN p}
    BY <1>1
  <2>2. QED
    BY <1>1, <2>1
<1>2. QED
  BY <1>1 DEF PacketMeaning

LEMMA PacketFields ==
    ASSUME NEW p, IsPacket(p)
    PROVE  /\ IsFiniteSet(DOMAIN p) /\ p \in [DOMAIN p -> Fields]
           /\ \A k \in DOMAIN p : p[k] \in Fields
<1>1. \A k \in DOMAIN p : p[k] \in Fields
  BY FieldsAre DEF IsPacket
<1>2. QED
  BY <1>1 DEF IsPacket

LEMMA PacketOfFields ==
    ASSUME NEW D, IsFiniteSet(D), NEW p \in [D -> Fields]
    PROVE  IsPacket(p)
BY FieldsAre DEF IsPacket

\* What an intersection has in common with both packets.
LEMMA IntersectionOfPackets ==
    ASSUME NEW p, IsPacket(p), NEW f, IsPacket(f), Comparable(p, f)
    PROVE  /\ \A r \in PacketIntersection(p, f) :
                /\ IsPacket(r) /\ DOMAIN r = DOMAIN p
                /\ \A x \in PacketMeaning(r) : Accepts(f, x)
           /\ SameKinds(f, p) =>
                All(PacketIntersection(p, f)) = {x \in PacketMeaning(p) : Accepts(f, x)}
<1> DEFINE fields(k) == {h \in IF k \in DOMAIN f THEN FieldIntersection(p[k], f[k])
                               ELSE {p[k]} : Valid(h)}
<1>1. PacketIntersection(p, f) =
        {r \in [DOMAIN p -> UNION {fields(k) : k \in DOMAIN p}] :
            \A k \in DOMAIN p : r[k] \in fields(k)}
  BY DEF PacketIntersection
<1>2. /\ \A k \in DOMAIN p : p[k] \in Fields
      /\ \A k \in DOMAIN f : f[k] \in Fields /\ k \in DOMAIN p
      /\ IsFiniteSet(DOMAIN p)
  BY PacketFields DEF Comparable
<1>3. ASSUME NEW r \in PacketIntersection(p, f)
      PROVE  /\ DOMAIN r = DOMAIN p /\ r = [k \in DOMAIN p |-> r[k]]
             /\ \A k \in DOMAIN p : r[k] \in fields(k)
  BY <1>1
<1>4. ASSUME NEW k \in DOMAIN f
      PROVE  /\ fields(k) \subseteq Fields
             /\ Together(fields(k)) \subseteq Meaning(f[k])
             /\ p[k].kind = f[k].kind /\ f[k].kind # "any" =>
                  Together(fields(k)) = Meaning(p[k]) \cap Meaning(f[k])
  <2>0. p[k] \in Fields /\ f[k] \in Fields
    BY <1>2
  <2>1. fields(k) = {h \in FieldIntersection(p[k], f[k]) : Valid(h)}
    BY <1>4
  <2>2. fields(k) \subseteq Fields /\ Together(fields(k)) \subseteq Meaning(f[k])
    BY <2>0, <2>1, IntersectionOfFields DEF Together
  <2>3. ASSUME p[k].kind = f[k].kind, f[k].kind # "any"
        PROVE  Together(fields(k)) = Together(FieldIntersection(p[k], f[k]))
    <3>1. ASSUME NEW h \in FieldIntersection(p[k], f[k])
          PROVE  h \in Fields /\ h.kind # "any"
      BY <2>0, <2>3, IntersectionOfFields
    <3>2. \A h \in FieldIntersection(p[k], f[k]) : ~ Valid(h) => Meaning(h) = {}
      BY <3>1, ValidIsNonempty
    <3>3. QED
      BY <2>1, <3>2 DEF Together
  <2>4. QED
    BY <2>0, <2>2, <2>3, IntersectionOfFields
<1>5. ASSUME NEW k \in DOMAIN p \ DOMAIN f
      PROVE  fields(k) = {h \in {p[k]} : Valid(h)}
  BY <1>5
<1>6. ASSUME NEW k \in DOMAIN p \ DOMAIN f
      PROVE  fields(k) \subseteq Fields /\ Together(fields(k)) = Meaning(p[k])
  <2>1. ~ Valid(p[k]) => Meaning(p[k]) = {}
    <3>1. p[k].kind # "any" => (~ Valid(p[k]) => Meaning(p[k]) = {})
      BY <1>2, ValidIsNonempty
    <3>2. p[k].kind = "any" => Valid(p[k])
      BY DEF Valid
    <3>3. QED
      BY <3>1, <3>2
  <2>2. QED
    BY <1>2, <1>5, <2>1 DEF Together
<1> HIDE DEF fields
<1>7. ASSUME NEW r \in PacketIntersection(p, f)
      PROVE  /\ IsPacket(r) /\ DOMAIN r = DOMAIN p
             /\ \A x \in PacketMeaning(r) : Accepts(f, x)
  <2>1. /\ DOMAIN r = DOMAIN p /\ r = [k \in DOMAIN p |-> r[k]]
        /\ \A k \in DOMAIN p : r[k] \in fields(k)
    BY <1>3, <1>7
  <2>2. \A k \in DOMAIN p : r[k] \in Fields
    BY <1>4, <1>6, <2>1
  <2>3. IsPacket(r)
    BY <1>2, <2>1, <2>2, FieldsAre DEF IsPacket
  <2>4. ASSUME NEW x \in PacketMeaning(r), NEW k \in DOMAIN f
        PROVE  x[k] \in Meaning(f[k])
    <3>1. x[k] \in Meaning(r[k]) /\ r[k] \in fields(k)
      BY <1>2, <2>1, MeaningOfPacket
    <3>2. x[k] \in Together(fields(k))
      BY <3>1 DEF Together
    <3>3. QED
      BY <1>4, <3>2
  <2>5. QED
    BY <2>1, <2>3, <2>4 DEF Accepts
<1>8. ASSUME SameKinds(f, p)
      PROVE  All(PacketIntersection(p, f)) = {x \in PacketMeaning(p) : Accepts(f, x)}
  <2>1. \A k \in DOMAIN p :
          Together(fields(k)) = IF k \in DOMAIN f THEN Meaning(p[k]) \cap Meaning(f[k])
                                ELSE Meaning(p[k])
    BY <1>4, <1>6, <1>8 DEF SameKinds
  <2>2. ASSUME NEW x \in All(PacketIntersection(p, f))
        PROVE  x \in PacketMeaning(p) /\ Accepts(f, x)
    <3>1. PICK r \in PacketIntersection(p, f) : x \in PacketMeaning(r)
      BY DEF All
    <3>2. /\ DOMAIN r = DOMAIN p
          /\ \A k \in DOMAIN p : r[k] \in fields(k)
      BY <1>3
    <3>3. x = [k \in DOMAIN p |-> x[k]] /\ \A k \in DOMAIN p : x[k] \in Meaning(r[k])
      BY <3>1, <3>2, MeaningOfPacket
    <3>4. \A k \in DOMAIN p : x[k] \in Together(fields(k))
      BY <3>2, <3>3 DEF Together
    <3>5. \A k \in DOMAIN p : x[k] \in Meaning(p[k])
      BY <2>1, <3>4
    <3>6. QED
      BY <1>7, <3>1, <3>3, <3>5, MeaningOfPacket
  <2>3. ASSUME NEW x \in PacketMeaning(p), Accepts(f, x)
        PROVE  x \in All(PacketIntersection(p, f))
    <3>1. x = [k \in DOMAIN p |-> x[k]] /\ \A k \in DOMAIN p : x[k] \in Meaning(p[k])
      BY MeaningOfPacket
    <3>2. \A k \in DOMAIN p : x[k] \in Together(fields(k))
      BY <2>1, <2>3, <3>1 DEF Accepts
    <3>3. \A k \in DOMAIN p : \E h \in fields(k) : x[k] \in Meaning(h)
      BY <3>2 DEF Together
    <3> DEFINE r == [k \in DOMAIN p |-> CHOOSE h \in fields(k) : x[k] \in Meaning(h)]
    <3>4. \A k \in DOMAIN p : r[k] \in fields(k) /\ x[k] \in Meaning(r[k])
      BY <3>3
    <3>5. DOMAIN r = DOMAIN p
      OBVIOUS
    <3>6. r \in [DOMAIN p -> UNION {fields(k) : k \in DOMAIN p}]
      BY <3>4
    <3> HIDE DEF r
    <3>7. r \in PacketIntersection(p, f)
      BY <1>1, <3>4, <3>6
    <3>8. x \in PacketMeaning(r)
      BY <3>1, <3>4, <3>5, MeaningOfPacket
    <3>9. QED
      BY <3>7, <3>8 DEF All
  <2>4. QED
    BY <2>2, <2>3
<1>9. QED
  BY <1>7, <1>8

\* What a difference leaves of a packet is what the other does not accept.
LEMMA DifferenceOfPackets ==
    ASSUME NEW p, IsPacket(p), NEW f, IsPacket(f), Comparable(p, f)
    PROVE  /\ \A r \in PacketDifference(p, f) :
                /\ IsPacket(r) /\ DOMAIN r = DOMAIN p
                /\ \A k \in DOMAIN p : r[k].kind = p[k].kind
                /\ \A x \in PacketMeaning(r) : x \in PacketMeaning(p) /\ ~ Accepts(f, x)
           /\ SameKinds(f, p) =>
                All(PacketDifference(p, f)) = {x \in PacketMeaning(p) : ~ Accepts(f, x)}
<1>1. /\ \A k \in DOMAIN p : p[k] \in Fields
      /\ \A k \in DOMAIN f : f[k] \in Fields /\ k \in DOMAIN p
      /\ IsFiniteSet(DOMAIN p) /\ p \in [DOMAIN p -> Fields]
  BY PacketFields DEF Comparable
<1>2. \A r \in PacketDifference(p, f) : \E k \in DOMAIN f :
          \E d \in FieldDifference(p[k], f[k]) : r = [p EXCEPT ![k] = d]
  BY DEF PacketDifference
<1>3. ASSUME NEW k \in DOMAIN f, NEW d \in FieldDifference(p[k], f[k]),
             NEW r, r = [p EXCEPT ![k] = d]
      PROVE  /\ IsPacket(r) /\ DOMAIN r = DOMAIN p
             /\ \A j \in DOMAIN p : r[j].kind = p[j].kind
             /\ \A x \in PacketMeaning(r) : x \in PacketMeaning(p) /\ ~ Accepts(f, x)
  <2>0. k \in DOMAIN p /\ p[k] \in Fields /\ f[k] \in Fields
    BY <1>1
  <2>1. /\ d \in Fields /\ d.kind = p[k].kind
        /\ Meaning(d) \subseteq Meaning(p[k]) \ Meaning(f[k])
    BY <2>0, DifferenceOfFields DEF Together
  <2>2. /\ DOMAIN r = DOMAIN p /\ r[k] = d
        /\ \A j \in DOMAIN p : j # k => r[j] = p[j]
        /\ r \in [DOMAIN p -> Fields]
    BY <1>1, <1>3, <2>0, <2>1
  <2>3. IsPacket(r)
    BY <1>1, <2>2, PacketOfFields
  <2>4. ASSUME NEW x \in PacketMeaning(r)
        PROVE  x \in PacketMeaning(p) /\ ~ Accepts(f, x)
    <3>1. x = [j \in DOMAIN p |-> x[j]] /\ \A j \in DOMAIN p : x[j] \in Meaning(r[j])
      BY <2>2, MeaningOfPacket
    <3>2. x[k] \in Meaning(p[k]) \ Meaning(f[k])
      BY <2>0, <2>1, <2>2, <3>1
    <3>3. \A j \in DOMAIN p : x[j] \in Meaning(p[j])
      BY <2>2, <3>1, <3>2
    <3>4. QED
      BY <3>1, <3>2, <3>3, MeaningOfPacket DEF Accepts
  <2>5. QED
    BY <2>1, <2>2, <2>3, <2>4
<1>4. ASSUME NEW r \in PacketDifference(p, f)
      PROVE  /\ IsPacket(r) /\ DOMAIN r = DOMAIN p
             /\ \A j \in DOMAIN p : r[j].kind = p[j].kind
             /\ \A x \in PacketMeaning(r) : x \in PacketMeaning(p) /\ ~ Accepts(f, x)
  BY <1>2, <1>3
<1>5. ASSUME SameKinds(f, p), NEW x \in PacketMeaning(p), ~ Accepts(f, x)
      PROVE  x \in All(PacketDifference(p, f))
  <2>1. x = [j \in DOMAIN p |-> x[j]] /\ \A j \in DOMAIN p : x[j] \in Meaning(p[j])
    BY MeaningOfPacket
  <2>2. PICK k \in DOMAIN f : x[k] \notin Meaning(f[k])
    BY <1>5 DEF Accepts
  <2>3. k \in DOMAIN p /\ p[k] \in Fields /\ f[k] \in Fields
        /\ p[k].kind = f[k].kind /\ p[k].kind # "any"
    BY <1>1, <1>5 DEF SameKinds
  <2>4. x[k] \in Together(FieldDifference(p[k], f[k]))
    BY <2>1, <2>2, <2>3, DifferenceOfFields
  <2>5. PICK d \in FieldDifference(p[k], f[k]) : x[k] \in Meaning(d)
    BY <2>4 DEF Together
  <2> DEFINE r == [p EXCEPT ![k] = d]
  <2>6. d \in Fields
    BY <2>3, DifferenceOfFields
  <2>7. DOMAIN r = DOMAIN p /\ \A j \in DOMAIN p : r[j] \in Fields /\ x[j] \in Meaning(r[j])
    BY <1>1, <2>1, <2>5, <2>6
  <2>8. r \in UNION {{[p EXCEPT ![j] = e] : e \in FieldDifference(p[j], f[j])} : j \in DOMAIN f}
    BY <2>5
  <2> HIDE DEF r
  <2>9. PacketValid(r)
    <3>1. \A j \in DOMAIN p : r[j].kind # "any" => Valid(r[j])
      BY <2>7, ValidIsNonempty
    <3>2. \A j \in DOMAIN p : r[j].kind = "any" => Valid(r[j])
      BY DEF Valid
    <3>3. QED
      BY <2>7, <3>1, <3>2 DEF PacketValid
  <2>10. r \in PacketDifference(p, f)
    BY <2>8, <2>9 DEF PacketDifference
  <2>11. x \in PacketMeaning(r)
    BY <2>1, <2>7, MeaningOfPacket
  <2>12. QED
    BY <2>10, <2>11 DEF All
<1>6. QED
  BY <1>4, <1>5 DEF All
------------------------------------------------------------------------------
\* The two loops of the switch, after some packets of the switching function.
SplitTypes ==
    /\ IsPacket(packet)
    /\ \A f \in todo : IsPacket(f)
    /\ \A f \in seen : IsPacket(f) /\ Comparable(packet, f)
    /\ \A r \in outA \cup outB : IsPacket(r) /\ DOMAIN r = DOMAIN packet
    /\ \A r \in outB : \A k \in DOMAIN packet : r[k].kind = packet[k].kind

SplitInv ==
    /\ SplitTypes
    /\ \A x \in All(outA) : \E f \in seen : Accepts(f, x)
    /\ \A x \in All(outB) : x \in PacketMeaning(packet) /\ \A f \in seen : ~ Accepts(f, x)
    /\ OfOneKind =>
         /\ All(outA) = {x \in PacketMeaning(packet) : \E f \in seen : Accepts(f, x)}
         /\ All(outB) = {x \in PacketMeaning(packet) : \A f \in seen : ~ Accepts(f, x)}

LEMMA SplitAtFirst == SplitInit => SplitInv
<1> SUFFICES ASSUME SplitInit PROVE SplitInv
  OBVIOUS
<1>1. All({}) = {} /\ All({packet}) = PacketMeaning(packet)
  BY DEF All
<1>2. SplitTypes
  BY SwitchAssumption DEF SplitInit, SplitTypes
<1>3. QED
  BY <1>1, <1>2 DEF SplitInit, SplitInv

LEMMA SplitKeeps ==
    ASSUME SplitInv, NEW f, Split(f)
    PROVE  SplitInv'
<1>0. /\ SplitTypes
      /\ f \in todo /\ IsPacket(f) /\ IsPacket(packet) /\ Comparable(packet, f)
      /\ outA' = outA \cup PacketIntersection(packet, f)
      /\ outB' = UNION {PacketDifference(r, f) : r \in outB}
      /\ todo' = todo \ {f} /\ seen' = seen \cup {f} /\ packet' = packet
  BY DEF SplitInv, SplitTypes, Split, Common, Left
<1>1. /\ \A r \in PacketIntersection(packet, f) :
           /\ IsPacket(r) /\ DOMAIN r = DOMAIN packet
           /\ \A x \in PacketMeaning(r) : Accepts(f, x)
      /\ SameKinds(f, packet) =>
           All(PacketIntersection(packet, f)) = {x \in PacketMeaning(packet) : Accepts(f, x)}
  BY <1>0, IntersectionOfPackets
<1>2. ASSUME NEW r \in outB
      PROVE  /\ \A s \in PacketDifference(r, f) :
                  /\ IsPacket(s) /\ DOMAIN s = DOMAIN packet
                  /\ \A k \in DOMAIN packet : s[k].kind = packet[k].kind
                  /\ \A x \in PacketMeaning(s) : x \in PacketMeaning(r) /\ ~ Accepts(f, x)
             /\ SameKinds(f, packet) =>
                  All(PacketDifference(r, f)) = {x \in PacketMeaning(r) : ~ Accepts(f, x)}
  <2>1. /\ IsPacket(r) /\ DOMAIN r = DOMAIN packet
        /\ \A k \in DOMAIN packet : r[k].kind = packet[k].kind
    BY <1>0 DEF SplitTypes
  <2>2. Comparable(r, f) /\ (SameKinds(f, packet) => SameKinds(f, r))
    BY <1>0, <2>1 DEF Comparable, SameKinds
  <2>3. QED
    BY <1>0, <2>1, <2>2, DifferenceOfPackets
<1>3. SplitTypes'
  <2>1. \A r \in outA' : IsPacket(r) /\ DOMAIN r = DOMAIN packet
    BY <1>0, <1>1 DEF SplitTypes
  <2>2. \A r \in outB' : /\ IsPacket(r) /\ DOMAIN r = DOMAIN packet
                         /\ \A k \in DOMAIN packet : r[k].kind = packet[k].kind
    BY <1>0, <1>2
  <2>3. \A g \in seen' : IsPacket(g) /\ Comparable(packet, g)
    BY <1>0 DEF SplitTypes
  <2>4. \A g \in todo' : IsPacket(g)
    BY <1>0 DEF SplitTypes
  <2>5. QED
    BY <1>0, <2>1, <2>2, <2>3, <2>4 DEF SplitTypes
<1>4. All(outA') = All(outA) \cup All(PacketIntersection(packet, f))
  BY <1>0 DEF All
<1>5. \A x \in All(outA') : \E g \in seen' : Accepts(g, x)
  <2>1. \A x \in All(PacketIntersection(packet, f)) : Accepts(f, x)
    BY <1>1 DEF All
  <2>2. QED
    BY <1>0, <1>4, <2>1 DEF SplitInv
<1>6. ASSUME NEW x \in All(outB')
      PROVE  x \in PacketMeaning(packet) /\ \A g \in seen' : ~ Accepts(g, x)
  <2>1. PICK r \in outB : \E s \in PacketDifference(r, f) : x \in PacketMeaning(s)
    BY <1>0 DEF All
  <2>2. x \in PacketMeaning(r) /\ ~ Accepts(f, x)
    BY <1>2, <2>1
  <2>3. x \in All(outB)
    BY <2>2 DEF All
  <2>4. QED
    BY <1>0, <2>2, <2>3 DEF SplitInv
<1>7. ASSUME OfOneKind'
      PROVE  /\ All(outA') = {x \in PacketMeaning(packet) : \E g \in seen' : Accepts(g, x)}
             /\ All(outB') = {x \in PacketMeaning(packet) : \A g \in seen' : ~ Accepts(g, x)}
  <2>1. OfOneKind /\ SameKinds(f, packet)
    BY <1>0, <1>7 DEF OfOneKind, SameKinds
  <2>2. All(outA') = {x \in PacketMeaning(packet) : \E g \in seen' : Accepts(g, x)}
    BY <1>0, <1>1, <1>4, <2>1 DEF SplitInv
  <2>3. ASSUME NEW x \in PacketMeaning(packet), \A g \in seen' : ~ Accepts(g, x)
        PROVE  x \in All(outB')
    <3>1. x \in All(outB) /\ ~ Accepts(f, x)
      BY <1>0, <2>1, <2>3 DEF SplitInv
    <3>2. PICK r \in outB : x \in PacketMeaning(r)
      BY <3>1 DEF All
    <3>3. x \in All(PacketDifference(r, f))
      BY <1>2, <2>1, <3>1, <3>2
    <3>4. QED
      BY <1>0, <3>3 DEF All
  <2>4. QED
    BY <1>6, <2>2, <2>3
<1>8. QED
  BY <1>0, <1>3, <1>5, <1>6, <1>7 DEF SplitInv

\* What holds of the loops after each of their turns.
THEOREM SplitInvariance == SplitSpec => []SplitInv
<1>1. SplitInv /\ [SplitNext]_splitVars => SplitInv'
  <2>1. ASSUME SplitInv, SplitNext PROVE SplitInv'
    BY <2>1, SplitKeeps DEF SplitNext
  <2>2. ASSUME SplitInv, UNCHANGED splitVars PROVE SplitInv'
    BY <2>2 DEF splitVars, SplitInv, SplitTypes, OfOneKind
  <2>3. QED
    BY <2>1, <2>2
<1>2. QED
  BY SplitAtFirst, <1>1, PTL DEF SplitSpec

\* A switch takes no packet apart and loses none, whatever packet arrives, whatever
\* its switching function is and in whatever order that is looked at.
THEOREM SwitchAlwaysExact == SplitSpec => []SwitchIsExact
<1>1. SplitInv => SwitchIsExact
  BY DEF SplitInv, SwitchIsExact
<1>2. QED
  BY SplitInvariance, <1>1, PTL
------------------------------------------------------------------------------
\* contains() of valid fields of one kind is containment.
LEMMA ContainmentOfFields ==
    ASSUME NEW f \in Fields, NEW g \in Fields, f.kind = g.kind, f.kind # "any", Valid(g)
    PROVE  FieldContains(f, g) <=> Meaning(g) \subseteq Meaning(f)
<1>1. CASE f.kind = "enum"
  <2>1. /\ f.values \in SUBSET Letters /\ f.complement \in BOOLEAN
        /\ g.values \in SUBSET Letters /\ g.complement \in BOOLEAN
        /\ Meaning(f) = IF f.complement THEN (Letters \cup {Other}) \ f.values ELSE f.values
        /\ Meaning(g) = IF g.complement THEN (Letters \cup {Other}) \ g.values ELSE g.values
    BY <1>1, FieldCases
  <2>2. FieldContains(f, g) <=> EnumContains(f, g)
    BY <1>1 DEF FieldContains
  <2>3. CASE ~ f.complement /\ g.complement
    BY <2>1, <2>2, <2>3, PacketsAssumption DEF EnumContains
  <2>4. CASE f.complement /\ ~ g.complement
    <3>1. FieldContains(f, g) <=> g.values \cap f.values = {}
      BY <2>2, <2>4 DEF EnumContains
    <3>2. QED
      BY <2>1, <2>4, <3>1
  <2>5. CASE f.complement /\ g.complement
    <3>1. FieldContains(f, g) <=> f.values \subseteq g.values
      BY <2>2, <2>5 DEF EnumContains
    <3>2. QED
      BY <2>1, <2>5, <3>1
  <2>6. CASE ~ f.complement /\ ~ g.complement
    <3>1. FieldContains(f, g) <=> g.values \subseteq f.values
      BY <2>2, <2>6 DEF EnumContains
    <3>2. QED
      BY <2>1, <2>6, <3>1
  <2>7. QED
    BY <2>1, <2>3, <2>4, <2>5, <2>6
<1>2. CASE f.kind = "interval"
  <2>1. /\ f.min \in Int /\ f.max \in Int /\ g.min \in Int /\ g.max \in Int
        /\ Meaning(f) = f.min .. f.max - 1 /\ Meaning(g) = g.min .. g.max - 1
        /\ g.max > g.min
    BY <1>2, FieldCases
  <2>2. FieldContains(f, g) <=> f.min <= g.min /\ g.max <= f.max
    BY <1>2 DEF FieldContains
  <2>3. ASSUME Meaning(g) \subseteq Meaning(f) PROVE f.min <= g.min /\ g.max <= f.max
    <3>1. g.min \in Meaning(g) /\ g.max - 1 \in Meaning(g)
      BY <2>1
    <3>2. g.min \in f.min .. f.max - 1 /\ g.max - 1 \in f.min .. f.max - 1
      BY <2>1, <2>3, <3>1
    <3>3. QED
      BY <2>1, <3>2
  <2>4. ASSUME f.min <= g.min, g.max <= f.max PROVE Meaning(g) \subseteq Meaning(f)
    BY <2>1, <2>4
  <2>5. QED
    BY <2>2, <2>3, <2>4
<1>3. QED
  BY <1>1, <1>2, FieldCases

\* contains() of valid packets is containment.
LEMMA ContainmentOfPackets ==
    ASSUME NEW p, IsPacket(p), NEW r, IsPacket(r), DOMAIN r = DOMAIN p,
           SameKinds(p, r), PacketValid(r)
    PROVE  PacketContains(p, r) <=> PacketMeaning(r) \subseteq PacketMeaning(p)
<1>1. \A k \in DOMAIN p : /\ p[k] \in Fields /\ r[k] \in Fields /\ Valid(r[k])
                          /\ p[k].kind = r[k].kind /\ p[k].kind # "any"
  BY PacketFields DEF SameKinds, PacketValid
<1>2. \A k \in DOMAIN p : FieldContains(p[k], r[k]) <=> Meaning(r[k]) \subseteq Meaning(p[k])
  BY <1>1, ContainmentOfFields
<1>3. ASSUME \A k \in DOMAIN p : Meaning(r[k]) \subseteq Meaning(p[k])
      PROVE  PacketMeaning(r) \subseteq PacketMeaning(p)
  <2>1. ASSUME NEW x \in PacketMeaning(r) PROVE x \in PacketMeaning(p)
    BY <1>3, MeaningOfPacket
  <2>2. QED
    BY <2>1
<1>4. ASSUME PacketMeaning(r) \subseteq PacketMeaning(p), NEW k \in DOMAIN p,
             NEW v \in Meaning(r[k])
      PROVE  v \in Meaning(p[k])
  <2> DEFINE x == [j \in DOMAIN p |-> IF j = k THEN v
                                      ELSE CHOOSE w \in Meaning(r[j]) : TRUE]
  <2>1. \A j \in DOMAIN p : Meaning(r[j]) # {}
    BY <1>1, ValidIsNonempty
  <2>2. \A j \in DOMAIN p : x[j] \in Meaning(r[j])
    BY <2>1
  <2>3. x = [j \in DOMAIN r |-> x[j]] /\ x[k] = v
    OBVIOUS
  <2> HIDE DEF x
  <2>4. x \in PacketMeaning(r)
    BY <2>2, <2>3, MeaningOfPacket
  <2>5. x \in PacketMeaning(p)
    BY <1>4, <2>4
  <2>6. x[k] \in Meaning(p[k])
    BY <2>5, MeaningOfPacket
  <2>7. QED
    BY <2>3, <2>6
<1>5. QED
  BY <1>2, <1>3, <1>4 DEF PacketContains

\* combine() of fields that are combinable is the union.
LEMMA CombinationOfFields ==
    ASSUME NEW f \in Fields, NEW g \in Fields, f.kind = g.kind, f.kind # "any",
           FieldCombinable(f, g), Valid(f), Valid(g),
           f.kind = "enum" => ~ f.complement
    PROVE  Meaning(FieldCombine(f, g)) = Meaning(f) \cup Meaning(g)
<1>1. CASE f.kind = "enum"
  <2>1. /\ f.values \in SUBSET Letters /\ ~ f.complement
        /\ g.values \in SUBSET Letters /\ ~ g.complement
    BY <1>1, FieldCases DEF FieldCombinable
  <2>2. Meaning(f) = f.values /\ Meaning(g) = g.values
    BY <1>1, <2>1, FieldCases
  <2>3. FieldCombine(f, g) = Enum(f.values \cup g.values, FALSE)
    BY <1>1, <2>1 DEF FieldCombine
  <2>4. f.values \cup g.values \in SUBSET Letters
    BY <2>1
  <2>5. Meaning(FieldCombine(f, g)) = f.values \cup g.values
    BY <2>3, <2>4, EnumMeaning
  <2>6. QED
    BY <2>2, <2>5
<1>2. CASE f.kind = "interval"
  <2> DEFINE lo == LowerOf(f.min, g.min)
             hi == HigherOf(f.max, g.max)
  <2>1. /\ f.min \in Int /\ f.max \in Int /\ g.min \in Int /\ g.max \in Int
        /\ Meaning(f) = f.min .. f.max - 1 /\ Meaning(g) = g.min .. g.max - 1
        /\ f.max > f.min /\ g.max > g.min
    BY <1>2, FieldCases
  <2>2. Touches(f, g)
    BY <1>2 DEF FieldCombinable
  <2>3. /\ lo \in Int /\ hi \in Int
        /\ lo .. hi - 1 = (f.min .. f.max - 1) \cup (g.min .. g.max - 1)
    BY <2>1, <2>2 DEF LowerOf, HigherOf, Touches
  <2>4. FieldCombine(f, g) = Interval(lo, hi)
    BY <1>2 DEF FieldCombine
  <2> HIDE DEF lo, hi
  <2>5. Meaning(Interval(lo, hi)) = lo .. hi - 1
    BY ONLY <2>3, IntervalMeaning
  <2>6. QED
    BY <2>1, <2>3, <2>4, <2>5
<1>3. QED
  BY <1>1, <1>2, FieldCases

\* combine() of packets that are combinable is the union: they differ in one
\* field at most.
LEMMA CombinationOfPackets ==
    ASSUME NEW p, IsPacket(p), NEW r, IsPacket(r),
           \A k \in DOMAIN p : p[k].kind = r[k].kind,
           PacketValid(p), PacketValid(r), CombinesExactly(p, r), PacketCombinable(p, r)
    PROVE  PacketMeaning(PacketCombine(p, r)) = PacketMeaning(p) \cup PacketMeaning(r)
<1> DEFINE D == {k \in DOMAIN p : p[k] # r[k]}
           c == PacketCombine(p, r)
<1>1. /\ DOMAIN r = DOMAIN p /\ Cardinality(D) <= 1
      /\ \A k \in D : FieldCombinable(p[k], r[k])
  BY DEF PacketCombinable
<1>2. \A k \in DOMAIN p : /\ p[k] \in Fields /\ r[k] \in Fields
                          /\ Valid(p[k]) /\ Valid(r[k])
                          /\ p[k].kind = r[k].kind
                          /\ p[k] # r[k] /\ p[k].kind = "enum" => ~ p[k].complement
  BY <1>1, PacketFields DEF PacketValid, CombinesExactly
<1>3. /\ DOMAIN c = DOMAIN p
      /\ \A k \in DOMAIN p : Meaning(c[k]) = Meaning(p[k]) \cup Meaning(r[k])
  <2>1. DOMAIN c = DOMAIN p
    BY DEF PacketCombine
  <2>2. ASSUME NEW k \in DOMAIN p, p[k] = r[k]
        PROVE  Meaning(c[k]) = Meaning(p[k]) \cup Meaning(r[k])
    BY <2>2 DEF PacketCombine
  <2>3. ASSUME NEW k \in DOMAIN p, p[k] # r[k]
        PROVE  Meaning(c[k]) = Meaning(p[k]) \cup Meaning(r[k])
    <3>1. c[k] = FieldCombine(p[k], r[k])
      BY <2>3 DEF PacketCombine
    <3>2. FieldCombinable(p[k], r[k])
      BY <1>1, <2>3
    <3>3. p[k].kind # "any"
      BY <3>2 DEF FieldCombinable
    <3>4. QED
      BY <1>2, <2>3, <3>1, <3>2, <3>3, CombinationOfFields
  <2>4. QED
    BY <2>1, <2>2, <2>3
<1>4. \A j, k \in D : j = k
  <2>1. IsFiniteSet(D)
    <3>1. IsFiniteSet(DOMAIN p)
      BY PacketFields
    <3>2. QED
      BY <3>1, FS_Subset
  <2>2. Cardinality(D) \in Nat
    BY <2>1, FS_CardinalityType
  <2>3. Cardinality(D) = 0 \/ Cardinality(D) = 1
    BY <1>1, <2>2
  <2>4. D = {} \/ \E k : D = {k}
    BY <2>1, <2>3, FS_EmptySet, FS_Singleton
  <2>5. QED
    BY <2>4
<1>5. \A k \in DOMAIN p : k \notin D => Meaning(p[k]) = Meaning(r[k])
  OBVIOUS
<1> HIDE DEF c, D
<1>6. ASSUME NEW x \in PacketMeaning(c)
      PROVE  x \in PacketMeaning(p) \cup PacketMeaning(r)
  <2>1. /\ x = [k \in DOMAIN p |-> x[k]]
        /\ \A k \in DOMAIN p : x[k] \in Meaning(p[k]) \/ x[k] \in Meaning(r[k])
    BY <1>3, MeaningOfPacket
  <2>2. CASE \A k \in D \cap DOMAIN p : x[k] \in Meaning(p[k])
    <3>1. \A k \in DOMAIN p : x[k] \in Meaning(p[k])
      BY <1>5, <2>1, <2>2
    <3>2. QED
      BY <2>1, <3>1, MeaningOfPacket
  <2>3. ASSUME NEW k \in D \cap DOMAIN p, x[k] \notin Meaning(p[k])
        PROVE  x \in PacketMeaning(r)
    <3>1. x[k] \in Meaning(r[k])
      BY <2>1, <2>3
    <3>2. \A j \in DOMAIN p : x[j] \in Meaning(r[j])
      BY <1>4, <1>5, <2>1, <3>1
    <3>3. QED
      BY <1>1, <2>1, <3>2, MeaningOfPacket
  <2>4. QED
    BY <2>2, <2>3
<1>7. ASSUME NEW x \in PacketMeaning(p) \cup PacketMeaning(r)
      PROVE  x \in PacketMeaning(c)
  <2>1. /\ x = [k \in DOMAIN p |-> x[k]]
        /\ \A k \in DOMAIN p : x[k] \in Meaning(p[k]) \cup Meaning(r[k])
    BY <1>1, MeaningOfPacket
  <2>2. QED
    BY <1>3, <2>1, MeaningOfPacket
<1>8. QED
  BY <1>6, <1>7 DEF c

\* negate() of a field is the complement.
LEMMA NegationOfField ==
    ASSUME NEW f \in Fields, f.kind # "any", Valid(f), Meaning(f) \subseteq Universe(f)
    PROVE  Together(FieldNegate(f)) = Universe(f) \ Meaning(f)
<1>1. CASE f.kind = "enum"
  <2>1. /\ f.values \in SUBSET Letters /\ f.complement \in BOOLEAN
        /\ Meaning(f) = IF f.complement THEN (Letters \cup {Other}) \ f.values ELSE f.values
    BY <1>1, FieldCases
  <2>2. FieldNegate(f) = {Enum(f.values, ~ f.complement)}
    BY <1>1 DEF FieldNegate
  <2>3. Meaning(Enum(f.values, ~ f.complement))
          = IF ~ f.complement THEN (Letters \cup {Other}) \ f.values ELSE f.values
    BY <2>1, EnumMeaning
  <2>4. Together(FieldNegate(f)) = Meaning(Enum(f.values, ~ f.complement))
    BY <2>2 DEF Together
  <2>5. Universe(f) = Letters \cup {Other}
    BY <1>1 DEF Universe
  <2>6. QED
    BY <2>1, <2>3, <2>4, <2>5
<1>2. CASE f.kind = "interval"
  <2>0. MaxValue \in Nat
    BY PacketsAssumption
  <2>1. /\ f.min \in Int /\ f.max \in Int /\ f.max > f.min
        /\ Meaning(f) = f.min .. f.max - 1
        /\ Universe(f) = 0 .. MaxValue - 1
    BY <1>2, FieldCases DEF Universe
  <2>2. f.min >= 0 /\ f.max <= MaxValue
    <3>1. f.min \in Meaning(f) /\ f.max - 1 \in Meaning(f)
      BY <2>1
    <3>2. f.min \in 0 .. MaxValue - 1 /\ f.max - 1 \in 0 .. MaxValue - 1
      BY <2>1, <3>1
    <3>3. QED
      BY <2>0, <2>1, <3>2
  <2> DEFINE below == IF f.min > 0 THEN {Interval(0, f.min)} ELSE {}
             above == IF f.max < MaxValue THEN {Interval(f.max, MaxValue)} ELSE {}
  <2>3. FieldNegate(f) = below \cup above
    BY <1>2 DEF FieldNegate
  <2>4. Together(below) = 0 .. f.min - 1
    <3>1. Meaning(Interval(0, f.min)) = 0 .. f.min - 1
      <4>1. 0 \in Int /\ f.min \in Int
        BY <2>1
      <4>2. QED
        BY ONLY <4>1, IntervalMeaning
    <3>2. ~ (f.min > 0) => 0 .. f.min - 1 = {}
      BY <2>1
    <3>3. QED
      BY <3>1, <3>2 DEF Together
  <2>5. Together(above) = f.max .. MaxValue - 1
    <3>1. Meaning(Interval(f.max, MaxValue)) = f.max .. MaxValue - 1
      <4>1. f.max \in Int /\ MaxValue \in Int
        BY <2>0, <2>1
      <4>2. QED
        BY ONLY <4>1, IntervalMeaning
    <3>2. ~ (f.max < MaxValue) => f.max .. MaxValue - 1 = {}
      BY <2>0, <2>1
    <3>3. QED
      BY <3>1, <3>2 DEF Together
  <2> HIDE DEF below, above
  <2>6. Together(FieldNegate(f)) = (0 .. f.min - 1) \cup (f.max .. MaxValue - 1)
    BY <2>3, <2>4, <2>5 DEF Together
  <2>7. (0 .. f.min - 1) \cup (f.max .. MaxValue - 1)
          = (0 .. MaxValue - 1) \ (f.min .. f.max - 1)
    BY <2>0, <2>1, <2>2
  <2>8. QED
    BY <2>1, <2>6, <2>7
<1>3. QED
  BY <1>1, <1>2, FieldCases

\* negate() of a packet with one field is the complement.
LEMMA NegationOfPacket ==
    ASSUME NEW p, IsPacket(p), PacketValid(p), NEW k \in DOMAIN p, p[k].kind # "any",
           Meaning(p[k]) \subseteq Universe(p[k])
    PROVE  All(PacketNegate(Restrict(p, {k}))) =
             [{k} -> Universe(p[k])] \ PacketMeaning(Restrict(p, {k}))
<1> DEFINE one == Restrict(p, {k})
           U == Universe(p[k])
<1>1. DOMAIN one = {k} /\ one[k] = p[k]
  BY DEF Restrict
<1> HIDE DEF one
<1>2. Together(FieldNegate(p[k])) = U \ Meaning(p[k])
  BY PacketFields, NegationOfField DEF PacketValid
<1>3. PacketNegate(one) = [{k} -> FieldNegate(p[k])]
  <2>1. UNION {FieldNegate(one[j]) : j \in DOMAIN one} = FieldNegate(p[k])
    BY <1>1
  <2>2. QED
    BY <1>1, <2>1 DEF PacketNegate
<1> HIDE DEF U
<1>4. ASSUME NEW x \in All(PacketNegate(one))
      PROVE  x \in [{k} -> U] \ PacketMeaning(one)
  <2>1. PICK r \in [{k} -> FieldNegate(p[k])] : x \in PacketMeaning(r)
    BY <1>3 DEF All
  <2>2. x = [j \in {k} |-> x[j]] /\ x[k] \in Meaning(r[k]) /\ r[k] \in FieldNegate(p[k])
    BY <2>1, MeaningOfPacket
  <2>3. x[k] \in U \ Meaning(p[k])
    BY <1>2, <2>2 DEF Together
  <2>4. x \notin PacketMeaning(one)
    BY <1>1, <2>3, MeaningOfPacket
  <2>5. x \in [{k} -> U]
    BY <2>2, <2>3
  <2>6. QED
    BY <2>4, <2>5
<1>5. ASSUME NEW x \in [{k} -> U], x \notin PacketMeaning(one)
      PROVE  x \in All(PacketNegate(one))
  <2>1. x = [j \in {k} |-> x[j]] /\ x[k] \in U
    OBVIOUS
  <2>2. x[k] \notin Meaning(p[k])
    BY <1>1, <1>5, <2>1, MeaningOfPacket
  <2>3. PICK h \in FieldNegate(p[k]) : x[k] \in Meaning(h)
    BY <1>2, <2>1, <2>2 DEF Together
  <2> DEFINE r == [j \in {k} |-> h]
  <2>4. r \in PacketNegate(one) /\ DOMAIN r = {k} /\ r[k] = h
    BY <1>3, <2>3
  <2> HIDE DEF r
  <2>5. x \in PacketMeaning(r)
    BY <2>1, <2>3, <2>4, MeaningOfPacket
  <2>6. QED
    BY <2>4, <2>5 DEF All
<1>6. QED
  BY <1>4, <1>5 DEF one, U

\* simplify() and the parser may rely on the algebra, for all that a switch
\* makes of a packet.
THEOREM AlgebraAlwaysExact == SplitSpec => []AlgebraExact
<1>1. ASSUME SplitTypes PROVE AlgebraExact
  <2> DEFINE S == {p \in outA \cup outB \cup {packet} : PacketValid(p)}
  <2>1. \A p \in S : IsPacket(p) /\ DOMAIN p = DOMAIN packet /\ PacketValid(p)
    BY <1>1 DEF SplitTypes
  <2> HIDE DEF S
  <2>2. ASSUME NEW p \in S, NEW r \in S, SameKinds(p, r)
        PROVE  PacketContains(p, r) <=> PacketMeaning(r) \subseteq PacketMeaning(p)
    BY <2>1, <2>2, ContainmentOfPackets
  <2>3. ASSUME NEW p \in S, NEW r \in S, SameKinds(p, r), Listed(p), Listed(r),
               PacketCombinable(p, r)
        PROVE  PacketMeaning(PacketCombine(p, r)) = PacketMeaning(p) \cup PacketMeaning(r)
    <3>1. (\A k \in DOMAIN p : p[k].kind = r[k].kind) /\ CombinesExactly(p, r)
      BY <2>3 DEF SameKinds, Listed, CombinesExactly
    <3>2. QED
      BY <2>1, <2>3, <3>1, CombinationOfPackets
  <2>4. ASSUME NEW p \in S, NEW k \in DOMAIN p, p[k].kind # "any",
               Meaning(p[k]) \subseteq Universe(p[k])
        PROVE  All(PacketNegate(Restrict(p, {k}))) =
                 [{k} -> Universe(p[k])] \ PacketMeaning(Restrict(p, {k}))
    BY <2>1, <2>4, NegationOfPacket
  <2>5. QED
    BY <2>2, <2>3, <2>4 DEF AlgebraExact, S
<1>2. SplitInv => SplitTypes
  BY DEF SplitInv
<1>3. QED
  BY SplitInvariance, <1>1, <1>2, PTL
------------------------------------------------------------------------------
(* The packets of a network: fields under its names.                       *)

Regular == {p \in UNION {[D -> Fields] : D \in SUBSET Names} : IsFiniteSet(DOMAIN p)}

LEMMA RegularIs ==
    ASSUME NEW p
    PROVE  p \in Regular <=>
             /\ IsFiniteSet(DOMAIN p) /\ p = [k \in DOMAIN p |-> p[k]]
             /\ \A k \in DOMAIN p : k \in Names /\ p[k] \in Fields
<1>1. ASSUME p \in Regular
      PROVE  /\ IsFiniteSet(DOMAIN p) /\ p = [k \in DOMAIN p |-> p[k]]
             /\ \A k \in DOMAIN p : k \in Names /\ p[k] \in Fields
  <2>1. IsFiniteSet(DOMAIN p) /\ p \in UNION {[D -> Fields] : D \in SUBSET Names}
    BY <1>1 DEF Regular
  <2>2. PICK D \in SUBSET Names : p \in [D -> Fields]
    BY <2>1
  <2>3. QED
    BY <2>1, <2>2
<1>2. ASSUME IsFiniteSet(DOMAIN p), p = [k \in DOMAIN p |-> p[k]],
             \A k \in DOMAIN p : k \in Names /\ p[k] \in Fields
      PROVE  p \in Regular
  <2>1. DOMAIN p \in SUBSET Names /\ \A k \in DOMAIN p : p[k] \in Fields
    BY <1>2
  <2>2. p \in [DOMAIN p -> Fields]
    BY <1>2, <2>1
  <2>3. p \in UNION {[D -> Fields] : D \in SUBSET Names}
    BY <2>1, <2>2
  <2>4. QED
    BY <1>2, <2>3 DEF Regular
<1>3. QED
  BY <1>1, <1>2

\* A packet of the network in the words of the assumption about it.
LEMMA RegularMeans == ASSUME NEW p PROVE p \in Regular <=> IsNamed(p)
<1>1. \A k \in DOMAIN p : IsField(p[k]) <=> p[k] \in Fields
  BY FieldsAre
<1>2. QED
  BY <1>1, RegularIs DEF IsPacket, IsNamed

\* valid() tells the packets that stand for something.
LEMMA InvalidIsEmpty ==
    ASSUME NEW p \in Regular
    PROVE  /\ ~ PacketValid(p) => PacketMeaning(p) = {}
           /\ PacketValid(p) => \A k \in DOMAIN p : Meaning(p[k]) # {}
<1>1. \A k \in DOMAIN p : p[k] \in Fields
  BY RegularIs
<1>2. ASSUME NEW k \in DOMAIN p
      PROVE  Valid(p[k]) <=> Meaning(p[k]) # {}
  <2>1. CASE p[k].kind = "any"
    BY <2>1 DEF Valid, Meaning, Values
  <2>2. CASE p[k].kind # "any"
    BY <1>1, <2>2, ValidIsNonempty
  <2>3. QED
    BY <2>1, <2>2
<1>3. ASSUME NEW k \in DOMAIN p, ~ Valid(p[k]), NEW x \in PacketMeaning(p)
      PROVE  FALSE
  BY <1>2, <1>3, MeaningOfPacket
<1>4. QED
  BY <1>2, <1>3 DEF PacketValid

LEMMA ContainedMeans ==
    ASSUME NEW p \in Regular, NEW r \in Regular, PacketValid(r), PacketContains(p, r)
    PROVE  PacketMeaning(r) \subseteq PacketMeaning(p)
<1>1. /\ DOMAIN r = DOMAIN p
      /\ \A k \in DOMAIN p : FieldContains(p[k], r[k])
  BY DEF PacketContains
<1>2. IsPacket(p) /\ IsPacket(r)
  BY RegularMeans DEF IsNamed
<1>3. SameKinds(p, r)
  BY <1>1 DEF SameKinds, FieldContains
<1>4. QED
  BY <1>1, <1>2, <1>3, ContainmentOfPackets

LEMMA CombinedMeans ==
    ASSUME NEW p \in Regular, NEW r \in Regular, PacketValid(p), PacketValid(r),
           PacketCombinable(p, r), CombinesExactly(p, r)
    PROVE  /\ PacketCombine(p, r) \in Regular /\ PacketValid(PacketCombine(p, r))
           /\ PacketMeaning(PacketCombine(p, r)) = PacketMeaning(p) \cup PacketMeaning(r)
<1> DEFINE c == PacketCombine(p, r)
<1>1. /\ DOMAIN r = DOMAIN p
      /\ \A k \in DOMAIN p : p[k] # r[k] => FieldCombinable(p[k], r[k])
  BY DEF PacketCombinable
<1>2. /\ IsFiniteSet(DOMAIN p)
      /\ \A k \in DOMAIN p : /\ k \in Names
                             /\ p[k] \in Fields /\ r[k] \in Fields
                             /\ Valid(p[k]) /\ Valid(r[k])
  BY <1>1, RegularIs DEF PacketValid
<1>3. /\ DOMAIN c = DOMAIN p /\ c = [k \in DOMAIN c |-> c[k]]
      /\ \A k \in DOMAIN p : c[k] = IF p[k] = r[k] THEN p[k] ELSE FieldCombine(p[k], r[k])
  BY DEF PacketCombine
<1>4. ASSUME NEW k \in DOMAIN p, p[k] # r[k]
      PROVE  c[k] \in Fields /\ Valid(c[k])
  <2> DEFINE f == p[k]
             g == r[k]
  <2>1. /\ c[k] = FieldCombine(f, g) /\ FieldCombinable(f, g)
        /\ f \in Fields /\ g \in Fields
        /\ f.kind = "enum" => ~ f.complement
        /\ Valid(f) /\ Valid(g)
    BY <1>1, <1>2, <1>3, <1>4 DEF CombinesExactly
  <2> HIDE DEF f, g
  <2>2. /\ f.kind # "any" /\ f.kind = g.kind
        /\ f.kind = "enum" => g.complement = f.complement
    BY <2>1, FieldCases DEF FieldCombinable
  <2>3. CASE f.kind = "enum"
    <3>1. /\ f.values \in SUBSET Letters /\ g.values \in SUBSET Letters
          /\ f.values # {}
      BY <2>1, <2>2, <2>3, FieldCases
    <3>2. c[k] = Enum(f.values \cup g.values, FALSE)
      BY <2>1, <2>3 DEF FieldCombine
    <3> DEFINE vs == f.values \cup g.values
    <3>3. vs \in SUBSET Letters /\ FALSE \in BOOLEAN /\ c[k] = Enum(vs, FALSE) /\ vs # {}
      BY <3>1, <3>2
    <3> HIDE DEF vs
    <3>4. /\ c[k] \in Fields /\ c[k].kind = "enum" /\ ~ c[k].complement
          /\ Meaning(c[k]) = vs
      <4>1. LET e == Enum(vs, FALSE)
            IN  e \in Fields /\ e.kind = "enum" /\ e.complement = FALSE
                /\ Meaning(e) = IF FALSE THEN Letters \ vs ELSE vs
        BY <3>3, EnumMeaning
      <4>2. QED
        BY <3>3, <4>1
    <3>5. Valid(c[k])
      BY <3>3, <3>4, ValidIsNonempty
    <3>6. QED
      BY <3>4, <3>5
  <2>4. CASE f.kind = "interval"
    <3>1. /\ f.min \in Int /\ f.max \in Int /\ g.min \in Int /\ g.max \in Int
          /\ f.max > f.min /\ g.max > g.min
      BY <2>1, <2>2, <2>4, FieldCases
    <3>2. c[k] = Interval(LowerOf(f.min, g.min), HigherOf(f.max, g.max))
      BY <2>1, <2>4 DEF FieldCombine
    <3>3. /\ LowerOf(f.min, g.min) \in Int /\ HigherOf(f.max, g.max) \in Int
          /\ HigherOf(f.max, g.max) > LowerOf(f.min, g.min)
      BY <3>1 DEF LowerOf, HigherOf
    <3>4. /\ c[k] \in Fields /\ c[k].kind = "interval"
          /\ c[k].max > c[k].min
      BY <3>2, <3>3, IntervalMeaning, SMTT(60)
    <3>5. QED
      BY <3>4 DEF Valid
  <2>5. QED
    BY <2>1, <2>2, <2>3, <2>4, FieldCases
<1>5. \A k \in DOMAIN p : c[k] \in Fields /\ Valid(c[k])
  BY <1>2, <1>3, <1>4
<1>6. c \in Regular /\ PacketValid(c)
  BY <1>2, <1>3, <1>5, RegularIs DEF PacketValid
<1>7. PacketMeaning(c) = PacketMeaning(p) \cup PacketMeaning(r)
  <2>1. IsPacket(p) /\ IsPacket(r)
    BY RegularMeans DEF IsNamed
  <2>2. \A k \in DOMAIN p : p[k].kind = r[k].kind
    <3>1. \A k \in DOMAIN p : FieldCombinable(p[k], r[k]) => p[k].kind = r[k].kind
      BY DEF FieldCombinable
    <3>2. QED
      BY <1>1, <3>1
  <2>3. QED
    BY <2>1, <2>2, CombinationOfPackets
<1>8. QED
  BY <1>6, <1>7
------------------------------------------------------------------------------
(* Types: what the operations on the vector of a channel make of what it   *)
(* stands for, and of what of that was propagated.                         *)

Entries == [packet : {p \in Regular : PacketValid(p)}, propagated : BOOLEAN]

MarkedMeaning(vec) == All({vec[i].packet : i \in {j \in DOMAIN vec : vec[j].propagated}})

LEMMA InType ==
    ASSUME NEW vec, NEW x
    PROVE  /\ x \in TypeMeaning(vec) <=> \E i \in DOMAIN vec : x \in PacketMeaning(vec[i].packet)
           /\ x \in MarkedMeaning(vec) <=>
                \E i \in DOMAIN vec : vec[i].propagated /\ x \in PacketMeaning(vec[i].packet)
  BY DEF TypeMeaning, MarkedMeaning, PacketsIn, All

LEMMA MarkedInType == \A vec : MarkedMeaning(vec) \subseteq TypeMeaning(vec)
  BY InType

LEMMA VectorOfEntries ==
    ASSUME NEW vec \in Seq(Entries), NEW i \in DOMAIN vec
    PROVE  /\ vec[i] \in Entries /\ vec[i].packet \in Regular /\ PacketValid(vec[i].packet)
           /\ vec[i].propagated \in BOOLEAN
<1>1. vec[i] \in Entries
  BY ElementOfSeq
<1>2. QED
  BY <1>1 DEF Entries

\* What is left when the i-th element of a sequence is taken out.
Without(w, s, i) ==
    /\ \A k \in DOMAIN s \ {i} : \E l \in DOMAIN w : w[l] = s[k]
    /\ \A l \in DOMAIN w : \E k \in DOMAIN s \ {i} : w[l] = s[k]

LEMMA RemovedAt ==
    ASSUME NEW S, NEW s \in Seq(S), NEW i \in DOMAIN s
    PROVE  RemoveAt(s, i) \in Seq(S) /\ Without(RemoveAt(s, i), s, i)
<1> DEFINE a == SubSeq(s, 1, i - 1)
           b == SubSeq(s, i + 1, Len(s))
<1>1. Len(s) \in Nat /\ i \in 1 .. Len(s) /\ DOMAIN s = 1 .. Len(s)
  BY LenProperties
<1>2. /\ a \in Seq(S) /\ Len(a) = i - 1
      /\ \A k \in 1 .. i - 1 : a[k] = s[k]
  BY <1>1, SubSeqProperties
<1>3. /\ b \in Seq(S) /\ Len(b) = Len(s) - i
      /\ \A k \in 1 .. Len(s) - i : b[k] = s[i + k]
  BY <1>1, SubSeqProperties, SMTT(60)
<1>4. RemoveAt(s, i) = a \o b
  BY DEF RemoveAt
<1> HIDE DEF a, b
<1>5. /\ a \o b \in Seq(S) /\ Len(a \o b) = Len(s) - 1
      /\ \A k \in 1 .. Len(s) - 1 : (a \o b)[k] = IF k <= i - 1 THEN a[k] ELSE b[k - (i - 1)]
  <2>1. /\ a \o b \in Seq(S) /\ Len(a \o b) = Len(a) + Len(b)
        /\ \A k \in 1 .. Len(a) + Len(b) :
              (a \o b)[k] = IF k <= Len(a) THEN a[k] ELSE b[k - Len(a)]
    BY ONLY <1>2, <1>3, ConcatProperties
  <2>2. Len(a) = i - 1 /\ Len(a) + Len(b) = Len(s) - 1
    BY <1>1, <1>2, <1>3
  <2>3. QED
    BY <2>1, <2>2
<1>6. DOMAIN (a \o b) = 1 .. Len(s) - 1
  BY <1>5, LenProperties
<1>7. ASSUME NEW k \in DOMAIN s \ {i}
      PROVE  \E l \in 1 .. Len(s) - 1 : (a \o b)[l] = s[k]
  <2>1. CASE k < i
    <3>1. k \in 1 .. Len(s) - 1 /\ k <= i - 1 /\ k \in 1 .. i - 1
      BY <1>1, <2>1
    <3>2. QED
      BY <1>2, <1>5, <3>1
  <2>2. CASE k > i
    <3> DEFINE l == k - 1
    <3>1. /\ l \in 1 .. Len(s) - 1 /\ ~ l <= i - 1 /\ l - (i - 1) \in 1 .. Len(s) - i
          /\ i + (l - (i - 1)) = k
      BY <1>1, <2>2
    <3> HIDE DEF l
    <3>2. (a \o b)[l] = b[l - (i - 1)]
      BY <1>5, <3>1
    <3>3. b[l - (i - 1)] = s[i + (l - (i - 1))]
      BY <1>3, <3>1
    <3>4. QED
      BY <3>1, <3>2, <3>3
  <2>3. Len(s) \in Nat /\ k \in 1 .. Len(s) /\ k # i /\ i \in 1 .. Len(s)
    BY <1>1
  <2>4. k < i \/ k > i
    BY ONLY <2>3
  <2>5. QED
    BY ONLY <2>1, <2>2, <2>4
<1>8. ASSUME NEW l \in 1 .. Len(s) - 1
      PROVE  \E k \in DOMAIN s \ {i} : (a \o b)[l] = s[k]
  <2>1. CASE l <= i - 1
    <3>1. l \in DOMAIN s \ {i} /\ l \in 1 .. i - 1
      BY <1>1, <2>1
    <3>2. (a \o b)[l] = s[l]
      BY <1>2, <1>5, <2>1, <3>1
    <3>3. QED
      BY <3>1, <3>2
  <2>2. CASE ~ l <= i - 1
    <3> DEFINE m == l - (i - 1)
    <3>1. m \in 1 .. Len(s) - i /\ i + m \in DOMAIN s \ {i}
      BY <1>1, <2>2
    <3>2. (a \o b)[l] = b[m]
      BY <1>5, <2>2
    <3> HIDE DEF m
    <3>3. (a \o b)[l] = s[i + m]
      BY <1>3, <3>1, <3>2
    <3>4. QED
      BY <3>1, <3>3
  <2>3. QED
    BY <2>1, <2>2
<1>9. QED
  BY <1>4, <1>5, <1>6, <1>7, <1>8 DEF Without

\* A vector of other entries that stand for the same, of which no more is marked.
Refines(w, vec) ==
    /\ w \in Seq(Entries)
    /\ TypeMeaning(w) = TypeMeaning(vec) /\ MarkedMeaning(w) \subseteq MarkedMeaning(vec)

LEMMA AddedMeans ==
    ASSUME NEW vec \in Seq(Entries), NEW p \in Regular, NEW r \in BOOLEAN
    PROVE  /\ AddPacket(vec, p, r) \in Seq(Entries)
           /\ TypeMeaning(AddPacket(vec, p, r)) = TypeMeaning(vec) \cup PacketMeaning(p)
           /\ MarkedMeaning(AddPacket(vec, p, r)) \subseteq MarkedMeaning(vec)
<1>1. CASE ~ PacketValid(p)
  BY <1>1, InvalidIsEmpty DEF AddPacket
<1>2. CASE PacketValid(p) /\ Known(vec, p)
  <2>1. PICK i \in DOMAIN vec : vec[i].packet = p \/ PacketContains(vec[i].packet, p)
    BY <1>2 DEF Known, PacketsIn
  <2>2. PacketMeaning(p) \subseteq PacketMeaning(vec[i].packet)
    BY <1>2, <2>1, VectorOfEntries, ContainedMeans
  <2>3. PacketMeaning(p) \subseteq TypeMeaning(vec)
    BY <2>2, InType
  <2>4. AddPacket(vec, p, r) = vec
    BY <1>2 DEF AddPacket
  <2>5. QED
    BY <2>3, <2>4
<1>3. CASE PacketValid(p) /\ ~ Known(vec, p)
  <2> DEFINE copy == [i \in DOMAIN vec |-> IF r THEN Entry(vec[i].packet, FALSE) ELSE vec[i]]
             new == Entry(p, FALSE)
             w == Append(copy, new)
  <2>1. AddPacket(vec, p, r) = w
    BY <1>3 DEF AddPacket
  <2>2. Len(vec) \in Nat /\ DOMAIN vec = 1 .. Len(vec)
    BY LenProperties
  <2>3. new \in Entries /\ new.packet = p /\ new.propagated = FALSE
    BY <1>3 DEF Entry, Entries
  <2>4. ASSUME NEW i \in 1 .. Len(vec)
        PROVE  /\ copy[i] \in Entries /\ copy[i].packet = vec[i].packet
               /\ copy[i].propagated => vec[i].propagated
    <3>1. i \in DOMAIN vec
      BY <2>2
    <3>2. vec[i] \in Entries /\ vec[i].packet \in Regular /\ PacketValid(vec[i].packet)
      BY <3>1, VectorOfEntries
    <3>3. CASE r
      BY <3>1, <3>2, <3>3 DEF Entry, Entries
    <3>4. CASE ~ r
      BY <3>1, <3>2, <3>4
    <3>5. QED
      BY <3>3, <3>4
  <2>5. copy \in [1 .. Len(vec) -> Entries]
    BY <2>2, <2>4
  <2> HIDE DEF copy, new
  <2>6. copy \in Seq(Entries) /\ Len(copy) = Len(vec)
    BY <2>2, <2>5, SeqDef, LenProperties
  <2>7. /\ w \in Seq(Entries) /\ Len(w) = Len(copy) + 1
        /\ \A i \in 1 .. Len(copy) : w[i] = copy[i]
        /\ w[Len(copy) + 1] = new
    BY ONLY <2>3, <2>6, AppendProperties
  <2> HIDE DEF w
  <2>8. DOMAIN w = 1 .. Len(vec) + 1
    BY <2>6, <2>7, LenProperties
  <2>9. \A i \in DOMAIN w : \/ i \in DOMAIN vec /\ w[i] = copy[i]
                            \/ i = Len(vec) + 1 /\ w[i] = new
    BY <2>2, <2>6, <2>7, <2>8
  <2>10. /\ \A i \in DOMAIN vec : i \in DOMAIN w /\ w[i] = copy[i]
         /\ Len(vec) + 1 \in DOMAIN w
    BY <2>2, <2>6, <2>7, <2>8
  <2>11. \A x : x \in TypeMeaning(w) <=> x \in TypeMeaning(vec) \cup PacketMeaning(p)
    <3>1. ASSUME NEW x \in TypeMeaning(w) PROVE x \in TypeMeaning(vec) \cup PacketMeaning(p)
      BY <2>2, <2>3, <2>4, <2>9, InType
    <3>2. ASSUME NEW x \in TypeMeaning(vec) PROVE x \in TypeMeaning(w)
      BY <2>2, <2>4, <2>10, InType
    <3>3. ASSUME NEW x \in PacketMeaning(p) PROVE x \in TypeMeaning(w)
      BY <2>3, <2>6, <2>7, <2>10, InType
    <3>4. QED
      BY <3>1, <3>2, <3>3
  <2>12. ASSUME NEW x \in MarkedMeaning(w) PROVE x \in MarkedMeaning(vec)
    BY <2>2, <2>3, <2>4, <2>9, InType
  <2>13. QED
    BY <2>1, <2>7, <2>11, <2>12
<1>4. QED
  BY <1>1, <1>2, <1>3

LEMMA ErasedMeans ==
    ASSUME NEW vec \in Seq(Entries), NEW i \in Superfluous(vec)
    PROVE  Refines(RemoveAt(vec, i), vec)
<1> DEFINE w == RemoveAt(vec, i)
<1>1. PICK j \in DOMAIN vec \ {i} : PacketContains(vec[j].packet, vec[i].packet)
  BY DEF Superfluous
<1>2. vec \in Seq(Entries) /\ i \in DOMAIN vec
  BY DEF Superfluous
<1> HIDE DEF w
<1>3. /\ w \in Seq(Entries)
      /\ \A k \in DOMAIN vec \ {i} : \E l \in DOMAIN w : w[l] = vec[k]
      /\ \A l \in DOMAIN w : \E k \in DOMAIN vec \ {i} : w[l] = vec[k]
  <2>1. w = RemoveAt(vec, i)
    BY DEF w
  <2>2. w \in Seq(Entries) /\ Without(w, vec, i)
    BY ONLY <1>2, <2>1, RemovedAt
  <2>3. QED
    BY <2>2 DEF Without
<1>4. PacketMeaning(vec[i].packet) \subseteq PacketMeaning(vec[j].packet)
  BY <1>1, <1>2, VectorOfEntries, ContainedMeans
<1>5. ASSUME NEW x \in TypeMeaning(vec) PROVE x \in TypeMeaning(w)
  <2>1. PICK k \in DOMAIN vec : x \in PacketMeaning(vec[k].packet)
    BY InType
  <2>2. PICK m \in DOMAIN vec \ {i} : x \in PacketMeaning(vec[m].packet)
    BY <1>4, <2>1
  <2>3. QED
    BY <1>3, <2>2, InType
<1>6. ASSUME NEW x \in TypeMeaning(w) PROVE x \in TypeMeaning(vec)
  <2>1. PICK l \in DOMAIN w : x \in PacketMeaning(w[l].packet)
    BY InType
  <2>2. PICK k \in DOMAIN vec : w[l] = vec[k]
    BY <1>3
  <2>3. QED
    BY <2>1, <2>2, InType
<1>7. ASSUME NEW x \in MarkedMeaning(w) PROVE x \in MarkedMeaning(vec)
  BY <1>3, InType, SMTT(60)
<1>8. QED
  BY <1>3, <1>5, <1>6, <1>7 DEF Refines, w

LEMMA CombineMeans ==
    ASSUME NEW vec \in Seq(Entries), NEW i \in DOMAIN vec, NEW j \in Mates(vec, i),
           j \in DOMAIN vec, CombinesExactly(vec[i].packet, vec[j].packet)
    PROVE  Refines(Merged(vec, i, j), vec)
<1> DEFINE e == Combined(vec[i], vec[j])
           u == [vec EXCEPT ![i] = e]
           w == RemoveAt(u, j)
<1>1. Len(vec) \in Nat /\ DOMAIN vec = 1 .. Len(vec)
  BY LenProperties
<1>2. i # j /\ PacketCombinable(vec[i].packet, vec[j].packet)
  BY <1>1 DEF Mates
<1>3. /\ e.packet \in Regular /\ PacketValid(e.packet) /\ e.propagated = FALSE
      /\ PacketMeaning(e.packet) = PacketMeaning(vec[i].packet) \cup PacketMeaning(vec[j].packet)
  BY <1>2, VectorOfEntries, CombinedMeans DEF Combined, Entry
<1>4. e \in Entries
  BY <1>3 DEF Entries, Combined, Entry
<1> HIDE DEF e
<1>5. /\ u \in Seq(Entries) /\ DOMAIN u = DOMAIN vec
      /\ \A k \in DOMAIN vec : u[k] = IF k = i THEN e ELSE vec[k]
  BY <1>1, <1>4, ExceptSeq, LenProperties
<1> HIDE DEF u
<1>6. /\ w \in Seq(Entries)
      /\ \A k \in DOMAIN vec \ {j} : \E l \in DOMAIN w : w[l] = u[k]
      /\ \A l \in DOMAIN w : \E k \in DOMAIN vec \ {j} : w[l] = u[k]
  <2>1. w \in Seq(Entries) /\ Without(w, u, j)
    BY <1>5, RemovedAt
  <2>2. QED
    BY <1>5, <2>1 DEF Without
<1> HIDE DEF w
<1>7. ASSUME NEW x \in TypeMeaning(vec) PROVE x \in TypeMeaning(w)
  <2>1. PICK k \in DOMAIN vec : x \in PacketMeaning(vec[k].packet)
    BY InType
  <2>2. PICK m \in DOMAIN vec \ {j} : x \in PacketMeaning(u[m].packet)
    <3>1. CASE k \in {i, j}
      BY <1>2, <1>3, <1>5, <2>1, <3>1
    <3>2. CASE k \notin {i, j}
      BY <1>5, <2>1, <3>2
    <3>3. QED
      BY <3>1, <3>2
  <2>3. QED
    BY <1>6, <2>2, InType
<1>8. ASSUME NEW x \in TypeMeaning(w) PROVE x \in TypeMeaning(vec)
  <2>0. PICK l \in DOMAIN w : x \in PacketMeaning(w[l].packet)
    BY InType
  <2>1. PICK k \in DOMAIN vec \ {j} : x \in PacketMeaning(u[k].packet)
    BY <1>6, <2>0
  <2>2. PICK m \in DOMAIN vec : x \in PacketMeaning(vec[m].packet)
    BY <1>3, <1>5, <2>1
  <2>3. QED
    BY <2>2, InType
<1>9. ASSUME NEW x \in MarkedMeaning(w) PROVE x \in MarkedMeaning(vec)
  <2>0. PICK l \in DOMAIN w : w[l].propagated /\ x \in PacketMeaning(w[l].packet)
    BY InType
  <2>1. PICK k \in DOMAIN vec \ {j} : u[k].propagated /\ x \in PacketMeaning(u[k].packet)
    BY <1>6, <2>0
  <2>2. u[k] = vec[k]
    BY <1>3, <1>5, <2>1
  <2>3. QED
    BY <2>1, <2>2, InType
<1>10. QED
  BY <1>6, <1>7, <1>8, <1>9 DEF Refines, Merged, w, u, e

LEMMA MarkMeans ==
    ASSUME NEW vec \in Seq(Entries), NEW i \in DOMAIN vec
    PROVE  LET w == [vec EXCEPT ![i] = Marked(vec[i])]
           IN  /\ w \in Seq(Entries) /\ PacketsIn(w) = PacketsIn(vec)
               /\ MarkedMeaning(w) = MarkedMeaning(vec) \cup PacketMeaning(vec[i].packet)
<1> DEFINE e == Marked(vec[i])
           w == [vec EXCEPT ![i] = e]
<1>1. Len(vec) \in Nat /\ DOMAIN vec = 1 .. Len(vec)
  BY LenProperties
<1>2. e \in Entries /\ e.packet = vec[i].packet /\ e.propagated
  BY VectorOfEntries DEF Marked, Entry, Entries
<1> HIDE DEF e
<1>3. /\ w \in Seq(Entries) /\ DOMAIN w = DOMAIN vec
      /\ \A k \in DOMAIN vec : w[k] = IF k = i THEN e ELSE vec[k]
  BY <1>1, <1>2, ExceptSeq, LenProperties
<1> HIDE DEF w
<1>4. \A k \in DOMAIN vec : w[k].packet = vec[k].packet
  BY <1>2, <1>3
<1>5. PacketsIn(w) = PacketsIn(vec)
  BY <1>3, <1>4 DEF PacketsIn
<1>6. ASSUME NEW x \in MarkedMeaning(w)
      PROVE  x \in MarkedMeaning(vec) \cup PacketMeaning(vec[i].packet)
  <2>1. PICK k \in DOMAIN vec : w[k].propagated /\ x \in PacketMeaning(w[k].packet)
    BY <1>3, InType
  <2>2. CASE k = i
    BY <1>4, <2>1, <2>2
  <2>3. CASE k # i
    BY <1>3, <2>1, <2>3, InType
  <2>4. QED
    BY <2>2, <2>3
<1>7. ASSUME NEW x \in MarkedMeaning(vec) \cup PacketMeaning(vec[i].packet)
      PROVE  x \in MarkedMeaning(w)
  <2>1. PICK k \in DOMAIN vec : w[k].propagated /\ x \in PacketMeaning(vec[k].packet)
    <3>1. CASE x \in PacketMeaning(vec[i].packet)
      BY <1>2, <1>3, <3>1
    <3>2. CASE x \in MarkedMeaning(vec)
      <4>1. PICK k \in DOMAIN vec : vec[k].propagated /\ x \in PacketMeaning(vec[k].packet)
        BY <3>2, InType
      <4>2. w[k].propagated
        BY <1>2, <1>3, <4>1
      <4>3. QED
        BY <4>1, <4>2
    <3>3. QED
      BY <3>1, <3>2
  <2>2. QED
    BY <1>3, <1>4, <2>1, InType
<1>8. QED
  BY <1>3, <1>5, <1>6, <1>7 DEF w, e
------------------------------------------------------------------------------
(* Components: what they make of packets is what they make of the values   *)
(* that the packets stand for.                                             *)

LEMMA JoinMeans ==
    ASSUME NEW p \in Regular, NEW r \in Regular, PacketValid(r)
    PROVE  /\ Joined(p, r) \in Regular
           /\ PacketMeaning(Joined(p, r)) =
                {Joined(x, y) : x \in PacketMeaning(p), y \in PacketMeaning(r)}
<1> DEFINE q == Joined(p, r)
<1>1. /\ DOMAIN q = DOMAIN p \cup DOMAIN r /\ q = [k \in DOMAIN q |-> q[k]]
      /\ \A k \in DOMAIN q : q[k] = IF k \in DOMAIN p THEN p[k] ELSE r[k]
  BY DEF Joined
<1>2. /\ IsFiniteSet(DOMAIN p) /\ \A k \in DOMAIN p : k \in Names /\ p[k] \in Fields
      /\ IsFiniteSet(DOMAIN r) /\ \A k \in DOMAIN r : k \in Names /\ r[k] \in Fields
  BY RegularIs
<1>3. q \in Regular
  <2>1. IsFiniteSet(DOMAIN q)
    <3>1. DOMAIN q = DOMAIN p \cup DOMAIN r /\ IsFiniteSet(DOMAIN p) /\ IsFiniteSet(DOMAIN r)
      BY <1>1, <1>2
    <3>2. IsFiniteSet(DOMAIN p \cup DOMAIN r)
      BY ONLY <3>1, FS_Union
    <3>3. QED
      BY ONLY <3>1, <3>2
  <2>2. \A k \in DOMAIN q : k \in Names /\ q[k] \in Fields
    BY <1>1, <1>2
  <2>3. QED
    BY <1>1, <2>1, <2>2, RegularIs
<1> HIDE DEF q
<1>4. ASSUME NEW x \in PacketMeaning(p), NEW y \in PacketMeaning(r)
      PROVE  Joined(x, y) \in PacketMeaning(q)
  <2> DEFINE z == Joined(x, y)
  <2>1. /\ DOMAIN x = DOMAIN p /\ \A k \in DOMAIN p : x[k] \in Meaning(p[k])
        /\ DOMAIN y = DOMAIN r /\ \A k \in DOMAIN r : y[k] \in Meaning(r[k])
    BY MeaningOfPacket
  <2>2. /\ z = [k \in DOMAIN q |-> z[k]]
        /\ \A k \in DOMAIN q : z[k] = IF k \in DOMAIN p THEN x[k] ELSE y[k]
    BY <1>1, <2>1 DEF Joined
  <2> HIDE DEF z
  <2>3. \A k \in DOMAIN q : z[k] \in Meaning(q[k])
    BY <1>1, <2>1, <2>2
  <2>4. z \in PacketMeaning(q)
    BY <2>2, <2>3, MeaningOfPacket
  <2>5. QED
    BY <2>4 DEF z
<1>5. ASSUME NEW z \in PacketMeaning(q)
      PROVE  \E x \in PacketMeaning(p), y \in PacketMeaning(r) : z = Joined(x, y)
  <2>1. /\ z = [k \in DOMAIN q |-> z[k]]
        /\ \A k \in DOMAIN q : z[k] \in Meaning(q[k])
    BY MeaningOfPacket
  <2> DEFINE x == [k \in DOMAIN p |-> z[k]]
             y == [k \in DOMAIN r |-> IF k \in DOMAIN p THEN CHOOSE v : v \in Meaning(r[k])
                                      ELSE z[k]]
  <2>2. x \in PacketMeaning(p)
    <3>1. \A k \in DOMAIN p : x[k] \in Meaning(p[k])
      BY <1>1, <2>1
    <3>2. x = [k \in DOMAIN p |-> x[k]]
      OBVIOUS
    <3> HIDE DEF x
    <3>3. QED
      BY <3>1, <3>2, MeaningOfPacket
  <2>3. y \in PacketMeaning(r)
    <3>1. \A k \in DOMAIN r : Meaning(r[k]) # {}
      BY InvalidIsEmpty
    <3>2. ASSUME NEW k \in DOMAIN r PROVE y[k] \in Meaning(r[k])
      <4>1. CASE k \in DOMAIN p
        <5>1. y[k] = CHOOSE v : v \in Meaning(r[k])
          BY <4>1
        <5>2. \E v : v \in Meaning(r[k])
          BY <3>1
        <5>3. QED
          BY <5>1, <5>2
      <4>2. CASE k \notin DOMAIN p
        BY <1>1, <2>1, <4>2
      <4>3. QED
        BY <4>1, <4>2
    <3>3. y = [k \in DOMAIN r |-> y[k]]
      OBVIOUS
    <3> HIDE DEF y
    <3>4. QED
      BY <3>2, <3>3, MeaningOfPacket
  <2>4. DOMAIN x = DOMAIN p /\ DOMAIN y = DOMAIN r
    OBVIOUS
  <2>5. Joined(x, y) = [k \in DOMAIN q |-> z[k]]
    <3>1. DOMAIN Joined(x, y) = DOMAIN q
      BY <1>1, <2>4 DEF Joined
    <3>2. Joined(x, y) = [k \in DOMAIN q |-> IF k \in DOMAIN p THEN x[k] ELSE y[k]]
      BY <1>1, <2>4 DEF Joined
    <3>3. \A k \in DOMAIN q : (IF k \in DOMAIN p THEN x[k] ELSE y[k]) = z[k]
      BY <1>1
    <3>4. QED
      BY <3>2, <3>3
  <2>6. QED
    BY <2>1, <2>2, <2>3, <2>5
<1>6. QED
  BY <1>3, <1>4, <1>5 DEF q

------------------------------------------------------------------------------
(* The network: ports, and what a component produces.                      *)

LEMMA Ports ==
    ASSUME NEW c \in Components
    PROVE  /\ Kind[c] \in Kinds
           /\ DOMAIN Inputs[c] = IF Kind[c] \in {"merge", "join"} THEN {1, 2} ELSE {1}
           /\ Len(Inputs[c]) = IF Kind[c] \in {"merge", "join"} THEN 2 ELSE 1
           /\ \A n \in DOMAIN Inputs[c] : Inputs[c][n] \in Channels
           /\ ToSet(Outputs[c]) \subseteq Channels
           /\ Kind[c] = "sink" => ToSet(Outputs[c]) = {}
           /\ Kind[c] = "switch" => /\ Outputs[c][1] # Outputs[c][2]
                                    /\ ToSet(Outputs[c]) = {Outputs[c][1], Outputs[c][2]}
<1>1. /\ Kind[c] \in Kinds
      /\ Inputs[c] \in Seq(Channels) /\ Outputs[c] \in Seq(Channels)
      /\ Len(Inputs[c]) = IF Kind[c] \in {"merge", "join"} THEN 2 ELSE 1
      /\ Kind[c] = "sink" => Outputs[c] = <<>>
      /\ Kind[c] = "switch" => Len(Outputs[c]) = 2 /\ Outputs[c][1] # Outputs[c][2]
  BY FlowAssumption
<1>2. /\ Inputs[c] \in [1 .. Len(Inputs[c]) -> Channels]
      /\ Outputs[c] \in [1 .. Len(Outputs[c]) -> Channels]
  BY <1>1, LenProperties
<1>3. DOMAIN Inputs[c] = IF Kind[c] \in {"merge", "join"} THEN {1, 2} ELSE {1}
  <2>1. 1 .. 1 = {1} /\ 1 .. 2 = {1, 2}
    OBVIOUS
  <2>2. QED
    BY <1>1, <1>2, <2>1
<1>4. Kind[c] = "sink" => ToSet(Outputs[c]) = {}
  <2>1. DOMAIN <<>> = {}
    OBVIOUS
  <2>2. QED
    BY <1>1, <2>1 DEF ToSet
<1>5. ASSUME Kind[c] = "switch"
      PROVE  ToSet(Outputs[c]) = {Outputs[c][1], Outputs[c][2]}
  <2>1. DOMAIN Outputs[c] = {1, 2}
    BY <1>1, <1>2, <1>5
  <2>2. QED
    BY <2>1 DEF ToSet
<1>6. ToSet(Outputs[c]) \subseteq Channels /\ \A n \in DOMAIN Inputs[c] : Inputs[c][n] \in Channels
  BY <1>2 DEF ToSet
<1>7. QED
  BY <1>1, <1>3, <1>4, <1>5, <1>6

Passing == {"queue", "fork", "merge"}

Matches(c, x) == \E f \in SwitchFunction[c] : Accepts(f, x)

\* Produced, kind by kind.
LEMMA ProducedBy ==
    ASSUME NEW c \in Components, NEW F, NEW o \in ToSet(Outputs[c]), NEW x
    PROVE  /\ Kind[c] \in Passing =>
                (x \in Produced(c, F, o) <=> \E n \in DOMAIN Inputs[c] : x \in F[Inputs[c][n]])
           /\ Kind[c] = "function" =>
                (x \in Produced(c, F, o) <=> \E y \in F[Inputs[c][1]] : x \in MadeOf(c, y))
           /\ Kind[c] = "switch" =>
                (x \in Produced(c, F, o) <=>
                   x \in F[Inputs[c][1]] /\ (o = Outputs[c][1] <=> Matches(c, x)))
           /\ Kind[c] = "join" =>
                (x \in Produced(c, F, o) <=>
                   \E y \in F[Inputs[c][1]], z \in F[Inputs[c][2]] : x = Joined(y, z))
<1> DEFINE in == [n \in DOMAIN Inputs[c] |-> F[Inputs[c][n]]]
<1>1. 1 \in DOMAIN Inputs[c] /\ (Kind[c] = "join" => 2 \in DOMAIN Inputs[c])
  BY Ports
<1>2. in[1] = F[Inputs[c][1]] /\ (Kind[c] = "join" => in[2] = F[Inputs[c][2]])
  BY <1>1
<1>3. CASE Kind[c] \in Passing
  <2>1. Produced(c, F, o) = UNION {in[n] : n \in DOMAIN in}
    BY <1>3 DEF Produced, Passing
  <2>2. QED
    BY <1>3, <2>1 DEF Passing
<1>4. CASE Kind[c] = "function"
  <2>1. Produced(c, F, o) = UNION {MadeOf(c, y) : y \in in[1]}
    BY <1>4 DEF Produced
  <2> HIDE DEF in
  <2>2. QED
    BY <1>2, <1>4, <2>1 DEF Passing
<1>5. CASE Kind[c] = "switch"
  <2>1. ASSUME o = Outputs[c][1]
        PROVE  Produced(c, F, o) = {y \in in[1] : Matches(c, y)}
    <3>1. o = Outputs[c][1] /\ ~ o = Outputs[c][2]
      BY <1>5, <2>1, Ports
    <3>2. QED
      BY <1>5, <3>1 DEF Produced, Matches
  <2>2. ASSUME o # Outputs[c][1]
        PROVE  Produced(c, F, o) = {y \in in[1] : ~ Matches(c, y)}
    <3>1. o = Outputs[c][2] /\ ~ o = Outputs[c][1]
      BY <1>5, <2>2, Ports
    <3>2. QED
      BY <1>5, <3>1 DEF Produced, Matches
  <2> HIDE DEF in
  <2>3. QED
    BY <1>2, <1>5, <2>1, <2>2 DEF Passing
<1>6. CASE Kind[c] = "join"
  <2>1. Produced(c, F, o) = {Joined(y, z) : y \in in[1], z \in in[2]}
    BY <1>6 DEF Produced
  <2> HIDE DEF in
  <2>2. QED
    BY <1>2, <1>6, <2>1 DEF Passing
<1>7. CASE Kind[c] = "sink"
  BY <1>7, Ports
<1>8. QED
  BY <1>3, <1>4, <1>5, <1>6, <1>7, Ports DEF Kinds, Passing

LEMMA KindCases ==
    ASSUME NEW c \in Components, NEW o \in ToSet(Outputs[c])
    PROVE  Kind[c] \in Passing \/ Kind[c] = "function" \/ Kind[c] = "switch" \/ Kind[c] = "join"
  BY Ports DEF Kinds, Passing

\* From more comes more.
LEMMA ProducedGrows ==
    ASSUME NEW c \in Components, NEW F, NEW G, NEW o \in ToSet(Outputs[c]),
           \A n \in DOMAIN Inputs[c] : F[Inputs[c][n]] \subseteq G[Inputs[c][n]]
    PROVE  Produced(c, F, o) \subseteq Produced(c, G, o)
<1> SUFFICES ASSUME NEW x \in Produced(c, F, o) PROVE x \in Produced(c, G, o)
  OBVIOUS
<1>1. F[Inputs[c][1]] \subseteq G[Inputs[c][1]]
  BY Ports
<1>2. CASE Kind[c] \in Passing
  BY <1>2, ProducedBy
<1>3. CASE Kind[c] = "function"
  <2>1. PICK y \in F[Inputs[c][1]] : x \in MadeOf(c, y)
    BY <1>3, ProducedBy
  <2>2. y \in G[Inputs[c][1]]
    BY <1>1
  <2>3. QED
    BY <1>3, <2>1, <2>2, ProducedBy
<1>4. CASE Kind[c] = "switch"
  BY <1>1, <1>4, ProducedBy
<1>5. CASE Kind[c] = "join"
  <2>1. F[Inputs[c][2]] \subseteq G[Inputs[c][2]]
    BY <1>5, Ports
  <2>2. PICK y \in F[Inputs[c][1]], z \in F[Inputs[c][2]] : x = Joined(y, z)
    BY <1>5, ProducedBy
  <2>3. y \in G[Inputs[c][1]] /\ z \in G[Inputs[c][2]]
    BY <1>1, <2>1
  <2>4. QED
    BY <1>5, <2>2, <2>3, ProducedBy
<1>6. QED
  BY <1>2, <1>3, <1>4, <1>5, KindCases

LEMMA PacketOfType ==
    ASSUME NEW vec \in Seq(Entries), NEW p \in PacketsIn(vec)
    PROVE  /\ p \in Regular /\ PacketValid(p)
           /\ PacketMeaning(p) \subseteq TypeMeaning(vec)
<1>1. PICK i \in DOMAIN vec : p = vec[i].packet
  BY DEF PacketsIn
<1>2. QED
  BY <1>1, VectorOfEntries, InType

LEMMA InAll == ASSUME NEW S, NEW x PROVE x \in All(S) <=> \E p \in S : x \in PacketMeaning(p)
  BY DEF All

\* What a function makes of packets are packets.
FunctionsMakePackets ==
    \A c \in Components : \A p : IsNamed(p) => \A q \in Applied(c, {p}) : IsNamed(q)

\* What a component other than a switch forwards stands for what it produces of the
\* packet: it is nothing else, and with what was propagated before it is all.
LEMMA ForwardedMeans ==
    ASSUME NEW c \in Components, Kind[c] # "switch", NEW n \in DOMAIN Inputs[c],
           NEW ts \in [Channels -> Seq(Entries)],
           NEW p \in PacketsIn(ts[Inputs[c][n]]), NEW o \in ToSet(Outputs[c]),
           FunctionsMakePackets, Kind[c] = "function" => AppliesExactly(c, p)
    PROVE  /\ Forwarded(c, n, p, ts) \subseteq Regular
           /\ \A G : (\A m \in DOMAIN Inputs[c] : TypeMeaning(ts[Inputs[c][m]]) \subseteq G[Inputs[c][m]])
                       => All(Forwarded(c, n, p, ts)) \subseteq Produced(c, G, o)
           /\ \A D, E :
                (\A m \in DOMAIN Inputs[c] :
                     /\ D[Inputs[c][m]] \subseteq TypeMeaning(ts[Inputs[c][m]])
                     /\ E[Inputs[c][m]] \subseteq
                          D[Inputs[c][m]] \cup (IF m = n THEN PacketMeaning(p) ELSE {}))
                => Produced(c, E, o) \subseteq Produced(c, D, o) \cup All(Forwarded(c, n, p, ts))
<1> DEFINE In(m) == Inputs[c][m]
           S == Forwarded(c, n, p, ts)
<1>1. \A m \in DOMAIN Inputs[c] : In(m) \in Channels /\ ts[In(m)] \in Seq(Entries)
  BY Ports
<1>2. p \in Regular /\ PacketValid(p) /\ PacketMeaning(p) \subseteq TypeMeaning(ts[In(n)])
  BY <1>1, PacketOfType
<1>3. CASE Kind[c] \in Passing
  <2>1. S = {p}
    BY <1>3 DEF Forwarded, Passing
  <2>2. All(S) = PacketMeaning(p)
    BY <2>1 DEF All
  <2> HIDE DEF S
  <2>3. ASSUME NEW G, \A m \in DOMAIN Inputs[c] : TypeMeaning(ts[In(m)]) \subseteq G[In(m)],
               NEW x \in All(S)
        PROVE  x \in Produced(c, G, o)
    <3>1. x \in G[In(n)]
      BY <1>2, <2>2, <2>3
    <3>2. QED
      BY <1>3, <3>1, ProducedBy
  <2>4. ASSUME NEW D, NEW E,
               \A m \in DOMAIN Inputs[c] :
                   E[In(m)] \subseteq D[In(m)] \cup (IF m = n THEN PacketMeaning(p) ELSE {}),
               NEW x \in Produced(c, E, o)
        PROVE  x \in Produced(c, D, o) \cup All(S)
    <3>1. PICK m \in DOMAIN Inputs[c] : x \in E[In(m)]
      BY <1>3, ProducedBy
    <3>2. x \in D[In(m)] \/ x \in PacketMeaning(p)
      BY <2>4, <3>1
    <3>3. QED
      BY <1>3, <2>2, <3>2, ProducedBy
  <2>5. QED
    BY <1>2, <2>1, <2>3, <2>4 DEF S
<1>4. CASE Kind[c] = "function"
  <2>1. S = Applied(c, {p})
    BY <1>4 DEF Forwarded
  <2>2. S \subseteq Regular
    BY <1>2, <2>1, RegularMeans DEF FunctionsMakePackets
  <2>3. n = 1 /\ DOMAIN Inputs[c] = {1}
    BY <1>4, Ports
  <2>4. All(S) = UNION {MadeOf(c, x) : x \in PacketMeaning(p)}
    BY <1>4, <2>1 DEF AppliesExactly
  <2> HIDE DEF S
  <2>5. ASSUME NEW G, \A m \in DOMAIN Inputs[c] : TypeMeaning(ts[In(m)]) \subseteq G[In(m)],
               NEW x \in All(S)
        PROVE  x \in Produced(c, G, o)
    <3>1. PICK y \in PacketMeaning(p) : x \in MadeOf(c, y)
      BY <2>4
    <3>2. y \in G[In(1)]
      BY <1>2, <2>3, <2>5
    <3>3. QED
      BY <1>4, <3>1, <3>2, ProducedBy
  <2>6. ASSUME NEW D, NEW E,
               \A m \in DOMAIN Inputs[c] :
                   E[In(m)] \subseteq D[In(m)] \cup (IF m = n THEN PacketMeaning(p) ELSE {}),
               NEW x \in Produced(c, E, o)
        PROVE  x \in Produced(c, D, o) \cup All(S)
    <3>1. PICK y \in E[In(1)] : x \in MadeOf(c, y)
      BY <1>4, ProducedBy
    <3>2. CASE y \in D[In(1)]
      BY <1>4, <3>1, <3>2, ProducedBy
    <3>3. CASE y \in PacketMeaning(p)
      BY <2>4, <3>1, <3>3
    <3>4. QED
      BY <2>3, <2>6, <3>2, <3>3
  <2>7. QED
    BY <2>2, <2>5, <2>6 DEF S
<1>5. CASE Kind[c] = "join" /\ n = 1
  <2>1. S = {Joined(p, r) : r \in PacketsIn(ts[In(2)])}
    BY <1>5 DEF Forwarded
  <2>2. DOMAIN Inputs[c] = {1, 2} /\ ts[In(2)] \in Seq(Entries)
    BY <1>1, <1>5, Ports
  <2>3. \A r \in PacketsIn(ts[In(2)]) :
           /\ Joined(p, r) \in Regular
           /\ PacketMeaning(r) \subseteq TypeMeaning(ts[In(2)])
           /\ PacketMeaning(Joined(p, r)) =
                {Joined(x, y) : x \in PacketMeaning(p), y \in PacketMeaning(r)}
    BY <1>2, <2>2, PacketOfType, JoinMeans
  <2> HIDE DEF S
  <2>4. ASSUME NEW G, \A m \in DOMAIN Inputs[c] : TypeMeaning(ts[In(m)]) \subseteq G[In(m)],
               NEW x \in All(S)
        PROVE  x \in Produced(c, G, o)
    <3>1. PICK r \in PacketsIn(ts[In(2)]) : x \in PacketMeaning(Joined(p, r))
      BY <2>1, InAll
    <3>2. PICK y \in PacketMeaning(p), z \in PacketMeaning(r) : x = Joined(y, z)
      BY <2>3, <3>1
    <3>3. y \in G[In(1)] /\ z \in G[In(2)]
      BY <1>2, <1>5, <2>2, <2>3, <2>4
    <3>4. QED
      BY <1>5, <3>2, <3>3, ProducedBy
  <2>5. ASSUME NEW D, NEW E,
               \A m \in DOMAIN Inputs[c] :
                   /\ D[In(m)] \subseteq TypeMeaning(ts[In(m)])
                   /\ E[In(m)] \subseteq D[In(m)] \cup (IF m = n THEN PacketMeaning(p) ELSE {}),
               NEW x \in Produced(c, E, o)
        PROVE  x \in Produced(c, D, o) \cup All(S)
    <3>1. PICK y \in E[In(1)], z \in E[In(2)] : x = Joined(y, z)
      BY <1>5, ProducedBy
    <3>2. z \in D[In(2)] /\ z \in TypeMeaning(ts[In(2)])
      BY <1>5, <2>2, <2>5
    <3>3. CASE y \in D[In(1)]
      BY <1>5, <3>1, <3>2, <3>3, ProducedBy
    <3>4. CASE y \in PacketMeaning(p)
      <4>1. PICK r \in PacketsIn(ts[In(2)]) : z \in PacketMeaning(r)
        BY <3>2 DEF TypeMeaning, All
      <4>2. x \in PacketMeaning(Joined(p, r))
        BY <2>3, <3>1, <3>4, <4>1
      <4>3. QED
        BY <2>1, <4>2, InAll
    <3>5. QED
      BY <1>5, <2>2, <2>5, <3>3, <3>4
  <2>6. S \subseteq Regular
    BY <2>1, <2>3
  <2>7. \A G : (\A m \in DOMAIN Inputs[c] : TypeMeaning(ts[In(m)]) \subseteq G[In(m)])
                 => All(S) \subseteq Produced(c, G, o)
    BY <2>4
  <2>8. \A D, E :
           (\A m \in DOMAIN Inputs[c] :
                /\ D[In(m)] \subseteq TypeMeaning(ts[In(m)])
                /\ E[In(m)] \subseteq D[In(m)] \cup (IF m = n THEN PacketMeaning(p) ELSE {}))
           => Produced(c, E, o) \subseteq Produced(c, D, o) \cup All(S)
    BY <2>5
  <2>9. QED
    BY <2>6, <2>7, <2>8 DEF S
<1>6. CASE Kind[c] = "join" /\ n # 1
  <2>1. S = {Joined(r, p) : r \in PacketsIn(ts[In(1)])}
    BY <1>6 DEF Forwarded
  <2>2. DOMAIN Inputs[c] = {1, 2} /\ ts[In(1)] \in Seq(Entries) /\ n = 2
    BY <1>1, <1>6, Ports
  <2>3. \A r \in PacketsIn(ts[In(1)]) :
           /\ Joined(r, p) \in Regular
           /\ PacketMeaning(r) \subseteq TypeMeaning(ts[In(1)])
           /\ PacketMeaning(Joined(r, p)) =
                {Joined(x, y) : x \in PacketMeaning(r), y \in PacketMeaning(p)}
    BY <1>2, <2>2, PacketOfType, JoinMeans
  <2> HIDE DEF S
  <2>4. ASSUME NEW G, \A m \in DOMAIN Inputs[c] : TypeMeaning(ts[In(m)]) \subseteq G[In(m)],
               NEW x \in All(S)
        PROVE  x \in Produced(c, G, o)
    <3>1. PICK r \in PacketsIn(ts[In(1)]) : x \in PacketMeaning(Joined(r, p))
      BY <2>1, InAll
    <3>2. PICK y \in PacketMeaning(r), z \in PacketMeaning(p) : x = Joined(y, z)
      BY <2>3, <3>1
    <3>3. y \in G[In(1)] /\ z \in G[In(2)]
      BY <1>2, <2>2, <2>3, <2>4
    <3>4. QED
      BY <1>6, <3>2, <3>3, ProducedBy
  <2>5. ASSUME NEW D, NEW E,
               \A m \in DOMAIN Inputs[c] :
                   /\ D[In(m)] \subseteq TypeMeaning(ts[In(m)])
                   /\ E[In(m)] \subseteq D[In(m)] \cup (IF m = n THEN PacketMeaning(p) ELSE {}),
               NEW x \in Produced(c, E, o)
        PROVE  x \in Produced(c, D, o) \cup All(S)
    <3>1. PICK y \in E[In(1)], z \in E[In(2)] : x = Joined(y, z)
      BY <1>6, ProducedBy
    <3>2. y \in D[In(1)] /\ y \in TypeMeaning(ts[In(1)])
      BY <1>6, <2>2, <2>5
    <3>3. CASE z \in D[In(2)]
      BY <1>6, <3>1, <3>2, <3>3, ProducedBy
    <3>4. CASE z \in PacketMeaning(p)
      <4>1. PICK r \in PacketsIn(ts[In(1)]) : y \in PacketMeaning(r)
        BY <3>2 DEF TypeMeaning, All
      <4>2. x \in PacketMeaning(Joined(r, p))
        BY <2>3, <3>1, <3>4, <4>1
      <4>3. QED
        BY <2>1, <4>2, InAll
    <3>5. QED
      BY <2>2, <2>5, <3>3, <3>4
  <2>6. S \subseteq Regular
    BY <2>1, <2>3
  <2>7. \A G : (\A m \in DOMAIN Inputs[c] : TypeMeaning(ts[In(m)]) \subseteq G[In(m)])
                 => All(S) \subseteq Produced(c, G, o)
    BY <2>4
  <2>8. \A D, E :
           (\A m \in DOMAIN Inputs[c] :
                /\ D[In(m)] \subseteq TypeMeaning(ts[In(m)])
                /\ E[In(m)] \subseteq D[In(m)] \cup (IF m = n THEN PacketMeaning(p) ELSE {}))
           => Produced(c, E, o) \subseteq Produced(c, D, o) \cup All(S)
    BY <2>5
  <2>9. QED
    BY <2>6, <2>7, <2>8 DEF S
<1>7. QED
  BY <1>3, <1>4, <1>5, <1>6, KindCases

\* A switch produces of more what it produces of what was there and of what came.
LEMMA SwitchAdds ==
    ASSUME NEW c \in Components, Kind[c] = "switch", NEW o \in ToSet(Outputs[c]),
           NEW D, NEW E, NEW A,
           E[Inputs[c][1]] \subseteq D[Inputs[c][1]] \cup A[Inputs[c][1]]
    PROVE  Produced(c, E, o) \subseteq Produced(c, D, o) \cup Produced(c, A, o)
<1> SUFFICES ASSUME NEW x \in Produced(c, E, o)
             PROVE  x \in Produced(c, D, o) \cup Produced(c, A, o)
  OBVIOUS
<1>1. x \in E[Inputs[c][1]] /\ (o = Outputs[c][1] <=> Matches(c, x))
  BY ProducedBy
<1>2. x \in D[Inputs[c][1]] \/ x \in A[Inputs[c][1]]
  BY <1>1
<1>3. QED
  BY <1>1, <1>2, ProducedBy

Orders == {s \in [1 .. Cardinality(Components) -> Components] : ToSet(s) = Components}

LEMMA OrderIs ==
    ASSUME NEW s \in Orders
    PROVE  /\ Len(s) \in Nat \ {0} /\ Len(s) = Cardinality(Components)
           /\ \A t \in 1 .. Len(s) : s[t] \in Components
           /\ \A t, u \in 1 .. Len(s) : s[t] = s[u] => t = u
           /\ \A c \in Components : \E t \in 1 .. Len(s) : s[t] = c
<1> DEFINE N == Cardinality(Components)
<1>1. IsFiniteSet(Components) /\ Components # {}
  BY FlowAssumption
<1>2. N \in Nat /\ N # 0
  BY <1>1, FS_CardinalityType, FS_EmptySet
<1>3. s \in [1 .. N -> Components] /\ ToSet(s) = Components
  BY DEF Orders
<1> HIDE DEF N
<1>4. s \in Seq(Components)
  BY <1>2, <1>3, SeqDef
<1>5. Len(s) = N
  BY <1>2, <1>3, <1>4, LenProperties
<1>6. \A c \in Components : \E t \in 1 .. N : s[t] = c
  BY <1>3 DEF ToSet
<1>7. s \in Surjection(1 .. N, Components)
  BY <1>3, <1>6 DEF Surjection
<1>8. IsFiniteSet(1 .. N) /\ Cardinality(1 .. N) = N
  <2>1. 1 \in Int /\ N \in Int /\ (IF 1 > N THEN 0 ELSE N - 1 + 1) = N
    BY <1>2
  <2>2. IsFiniteSet(1 .. N) /\ Cardinality(1 .. N) = IF 1 > N THEN 0 ELSE N - 1 + 1
    BY ONLY <2>1, FS_Interval
  <2>3. QED
    BY <2>1, <2>2
<1>9. s \in Injection(1 .. N, Components)
  <2>1. Cardinality(1 .. N) = Cardinality(Components)
    BY <1>8 DEF N
  <2>2. QED
    BY ONLY <1>7, <1>8, <2>1, FS_SurjSameCardinalityImpliesInj
<1>10. \A t, u \in 1 .. N : s[t] = s[u] => t = u
  BY <1>3, <1>9 DEF Injection, IsInjective
<1>11. QED
  BY <1>2, <1>3, <1>5, <1>6, <1>10 DEF N
------------------------------------------------------------------------------
(* The invariant of the fixpoint, as long as what was done with packets was *)
(* exact.                                                                   *)

FlowOf(ts) == [o \in Channels |-> TypeMeaning(ts[o])]

MarkedOf(ts) == [o \in Channels |-> MarkedMeaning(ts[o])]

Waiting(as, o) == All({a[2] : a \in {b \in as : b[1] = o}})

\* What a channel has or is about to get.
Held(ts, as, o) == TypeMeaning(ts[o]) \cup Waiting(as, o)

\* The packet that a switch has at hand.
Arriving(p) == [o \in Channels |-> PacketMeaning(p)]

TypesInv ==
    /\ types \in [Channels -> Seq(Entries)]
    /\ pending \subseteq Channels \X Regular
    /\ phase \notin {"sources", "attach"} => pending = {}

Phases == {"sources", "look", "erase", "combine", "forward", "split", "attach", "leave", "done"}

LoopInv ==
    /\ order \in Orders
    /\ turn \in 1 .. Len(order) /\ port \in 1 .. Len(Inputs[Here])
    /\ happened \in BOOLEAN /\ changed \in BOOLEAN /\ ending \in BOOLEAN
    /\ phase \in Phases
    /\ phase = "sources" => turn = 1 /\ port = 1
    /\ phase \in {"attach", "split"} => happened
    /\ ending => /\ ~ happened /\ ~ changed
                 /\ phase \in {"look", "erase", "combine", "leave", "done"}
    /\ phase = "done" => ending

SwitchInv ==
    phase = "split" =>
        /\ Kind[Here] = "switch" /\ seen \cup todo = SwitchFunction[Here]
        /\ SplitInv /\ OfOneKind
        /\ packet \in Regular /\ outA \cup outB \subseteq Regular

\* Whatever flow is closed, nothing is on the channels or on its way to them that is
\* not in that flow.
SoundInv ==
    \A G : Closed(G) =>
        /\ \A o \in Channels : Held(types, pending, o) \subseteq G[o]
        /\ phase = "split" => PacketMeaning(packet) \subseteq G[Input]

\* What the components make of the packets that were propagated is on its way at least.
CompleteInv ==
    /\ \A o \in Channels : All(Emitted[o]) \subseteq Held(types, pending, o)
    /\ \A c \in Components : \A o \in ToSet(Outputs[c]) :
          Produced(c, MarkedOf(types), o) \subseteq
            Held(types, pending, o) \cup
              (IF phase = "split" /\ c = Here THEN Produced(c, Arriving(packet), o) ELSE {})

\* The n-th input of the t-th component was visited in this round.
Before(t, n) == t < turn \/ (t = turn /\ (n < port \/ (n = port /\ phase = "leave")))

\* As long as nothing happens in a round, the inputs visited have nothing to propagate.
QuietInv ==
    phase # "sources" /\ ~ ending /\ ~ changed /\ ~ happened =>
      \A t \in 1 .. Len(order) : \A n \in 1 .. Len(Inputs[order[t]]) :
         Before(t, n) => Unpropagated(types[Inputs[order[t]][n]]) = {}

ClosedInv == ending => Closed(FlowOf(types))

TypesInvariant ==
    TypesInv /\ LoopInv /\ SwitchInv /\ SoundInv /\ CompleteInv /\ QuietInv /\ ClosedInv

LEMMA HereIs ==
    ASSUME LoopInv
    PROVE  /\ Here \in Components /\ port \in DOMAIN Inputs[Here]
           /\ Input \in Channels /\ Input = Inputs[Here][port]
           /\ order \in Orders /\ turn \in 1 .. Len(order)
           /\ Len(Inputs[Here]) \in Nat
<1>1. Here \in Components
  BY OrderIs DEF LoopInv, Here
<1>2. 1 .. 1 = {1} /\ 1 .. 2 = {1, 2}
  OBVIOUS
<1>3. port \in DOMAIN Inputs[Here] /\ Len(Inputs[Here]) \in Nat
  BY <1>1, <1>2, Ports DEF LoopInv
<1>4. Input \in Channels /\ Input = Inputs[Here][port]
  BY <1>1, <1>3, Ports DEF Input
<1>5. QED
  BY <1>1, <1>3, <1>4 DEF LoopInv

LEMMA MarkedShrinks ==
    ASSUME NEW ts, NEW us, \A o \in Channels : MarkedMeaning(us[o]) \subseteq MarkedMeaning(ts[o]),
           NEW c \in Components, NEW o \in ToSet(Outputs[c])
    PROVE  Produced(c, MarkedOf(us), o) \subseteq Produced(c, MarkedOf(ts), o)
<1>1. \A n \in DOMAIN Inputs[c] : MarkedOf(us)[Inputs[c][n]] \subseteq MarkedOf(ts)[Inputs[c][n]]
  BY Ports DEF MarkedOf
<1>2. QED
  BY <1>1, ProducedGrows

LEMMA WaitingIs ==
    ASSUME NEW as, NEW o, NEW x
    PROVE  x \in Waiting(as, o) <=> \E a \in as : a[1] = o /\ x \in PacketMeaning(a[2])
<1> DEFINE S == {a[2] : a \in {b \in as : b[1] = o}}
<1>1. x \in Waiting(as, o) <=> \E p \in S : x \in PacketMeaning(p)
  BY InAll DEF Waiting
<1>2. QED
  BY <1>1

LEMMA AtFirst == Init => TypesInvariant
<1> SUFFICES ASSUME Init PROVE TypesInvariant
  OBVIOUS
<1>1. /\ types = [o \in Channels |-> <<>>] /\ phase = "sources"
      /\ pending = UNION {{<<o, p>> : p \in Emitted[o]} : o \in Channels}
      /\ order \in Orders
      /\ turn = 1 /\ port = 1 /\ happened = FALSE /\ changed = FALSE /\ ending = FALSE
  BY DEF Init, Orders
<1>2. \A o \in Channels : TypeMeaning(types[o]) = {} /\ MarkedMeaning(types[o]) = {}
  <2>1. DOMAIN <<>> = {}
    OBVIOUS
  <2>2. \A x : x \notin TypeMeaning(<<>>) /\ x \notin MarkedMeaning(<<>>)
    BY <2>1, InType
  <2>3. \A o \in Channels : types[o] = <<>>
    BY <1>1
  <2>4. QED
    BY <2>2, <2>3
<1>3. ASSUME NEW a \in pending
      PROVE  a[1] \in Channels /\ a[2] \in Emitted[a[1]] /\ a = <<a[1], a[2]>>
  BY <1>1
<1>4. ASSUME NEW o \in Channels, NEW p \in Emitted[o]
      PROVE  p \in Regular /\ <<o, p>> \in pending
  BY <1>1, TypesAssumption, RegularMeans
<1>5. \A o \in Channels : Held(types, pending, o) = All(Emitted[o])
  <2> TAKE o \in Channels
  <2>1. ASSUME NEW x PROVE x \in Waiting(pending, o) <=> x \in All(Emitted[o])
    <3>1. ASSUME NEW a \in pending, a[1] = o, x \in PacketMeaning(a[2])
          PROVE  x \in All(Emitted[o])
      BY <1>3, <3>1, InAll
    <3>2. ASSUME NEW p \in Emitted[o], x \in PacketMeaning(p)
          PROVE  \E a \in pending : a[1] = o /\ x \in PacketMeaning(a[2])
      <4> DEFINE a == <<o, p>>
      <4>1. a \in pending /\ a[1] = o /\ a[2] = p
        BY <1>4
      <4>2. QED
        BY <3>2, <4>1
    <3>3. QED
      BY <3>1, <3>2, WaitingIs, InAll
  <2>2. QED
    BY <1>2, <2>1 DEF Held
<1>6. TypesInv
  <2>1. types \in [Channels -> Seq(Entries)]
    <3>1. <<>> \in Seq(Entries)
      OBVIOUS
    <3>2. QED
      BY <1>1, <3>1
  <2>2. pending \subseteq Channels \X Regular
    BY <1>3, <1>4
  <2>3. QED
    BY <1>1, <2>1, <2>2 DEF TypesInv
<1>7. LoopInv
  <2>1. Len(order) \in Nat \ {0} /\ order[1] \in Components
    BY <1>1, OrderIs
  <2>2. Len(Inputs[order[1]]) \in {1, 2}
    BY <2>1, Ports
  <2>3. 1 \in 1 .. Len(order) /\ 1 \in 1 .. Len(Inputs[order[1]])
    <3>1. \A n \in Nat \ {0} : 1 \in 1 .. n
      OBVIOUS
    <3>2. Len(Inputs[order[1]]) \in Nat \ {0}
      BY <2>2
    <3>3. QED
      BY <2>1, <3>1, <3>2
  <2>4. QED
    BY <1>1, <2>3 DEF LoopInv, Here, Phases
<1>8. SwitchInv /\ QuietInv /\ ClosedInv
  BY <1>1 DEF SwitchInv, QuietInv, ClosedInv
<1>9. SoundInv
  BY <1>1, <1>5 DEF SoundInv, Closed
<1>10. CompleteInv
  <2>1. ASSUME NEW c \in Components, NEW o \in ToSet(Outputs[c]), NEW x \in Produced(c, MarkedOf(types), o)
        PROVE  FALSE
    <3>1. \A n \in DOMAIN Inputs[c] : MarkedOf(types)[Inputs[c][n]] = {}
      BY <1>2, Ports DEF MarkedOf
    <3>2. MarkedOf(types)[Inputs[c][1]] = {}
      BY <3>1, Ports
    <3>3. QED
      BY <3>1, <3>2, KindCases, ProducedBy
  <2>2. QED
    BY <1>5, <2>1 DEF CompleteInv
<1>11. QED
  BY <1>6, <1>7, <1>8, <1>9, <1>10 DEF TypesInvariant
------------------------------------------------------------------------------
(* The steps of control, that leave the types alone.                       *)

LEMMA ControlKeeps ==
    ASSUME TypesInvariant, types' = types, pending' = pending,
           phase # "split", phase' # "split",
           phase' \notin {"sources", "attach"} => pending = {}
    PROVE  TypesInv' /\ SwitchInv' /\ SoundInv' /\ CompleteInv'
<1>1. TypesInv'
  BY DEF TypesInvariant, TypesInv
<1>2. SwitchInv'
  BY DEF SwitchInv
<1>3. SoundInv'
  BY DEF TypesInvariant, SoundInv
<1>4. CompleteInv'
  BY DEF TypesInvariant, CompleteInv
<1>5. QED
  BY <1>1, <1>2, <1>3, <1>4

LEMMA InputsAre ==
    ASSUME NEW c \in Components
    PROVE  /\ Len(Inputs[c]) \in Nat \ {0} /\ DOMAIN Inputs[c] = 1 .. Len(Inputs[c])
           /\ \A n \in 1 .. Len(Inputs[c]) : Inputs[c][n] \in Channels
<1>1. Inputs[c] \in Seq(Channels)
  BY FlowAssumption
<1>2. Len(Inputs[c]) \in Nat /\ DOMAIN Inputs[c] = 1 .. Len(Inputs[c])
  BY <1>1, LenProperties
<1>3. Len(Inputs[c]) \in {1, 2} /\ \A n \in DOMAIN Inputs[c] : Inputs[c][n] \in Channels
  BY Ports
<1>4. Len(Inputs[c]) \in Nat \ {0}
  BY <1>3
<1>5. QED
  BY ONLY <1>2, <1>3, <1>4

LEMMA Positions ==
    ASSUME LoopInv
    PROVE  /\ Len(order) \in Nat \ {0} /\ turn \in 1 .. Len(order)
           /\ port \in 1 .. Len(Inputs[Here])
           /\ \A t \in 1 .. Len(order) : order[t] \in Components /\ Len(Inputs[order[t]]) \in Nat \ {0}
<1>1. order \in Orders /\ turn \in 1 .. Len(order) /\ port \in 1 .. Len(Inputs[Here])
  BY DEF LoopInv
<1>2. Len(order) \in Nat \ {0} /\ \A t \in 1 .. Len(order) : order[t] \in Components
  BY <1>1, OrderIs
<1>3. QED
  BY <1>1, <1>2, InputsAre

\* The steps that stay at the input.
LEMMA StaysAtInput ==
    ASSUME TypesInvariant, UNCHANGED <<types, loopVars, pending>>, pending = {},
           phase # "split", phase' \in {"look", "erase", "combine", "forward", "leave"},
           ending => phase' # "forward",
           phase' = "leave" => ending \/ Unpropagated(types[Input]) = {}
    PROVE  TypesInvariant'
<1>1. /\ types' = types /\ order' = order /\ turn' = turn /\ port' = port
      /\ happened' = happened /\ changed' = changed /\ ending' = ending /\ pending' = pending
  BY DEF loopVars
<1>2. TypesInv' /\ SwitchInv' /\ SoundInv' /\ CompleteInv'
  BY <1>1, ControlKeeps
<1>3. LoopInv /\ QuietInv /\ ClosedInv
  BY DEF TypesInvariant
<1>4. LoopInv'
  BY <1>1, <1>3 DEF LoopInv, Here, Phases
<1>5. ClosedInv'
  BY <1>1, <1>3 DEF ClosedInv
<1>6. QuietInv'
  <2> SUFFICES ASSUME ~ ending, ~ changed, ~ happened, NEW t \in 1 .. Len(order),
                      NEW n \in 1 .. Len(Inputs[order[t]]), Before(t, n)'
               PROVE  Unpropagated(types[Inputs[order[t]][n]]) = {}
    BY <1>1 DEF QuietInv
  <2>1. /\ t \in Nat \ {0} /\ n \in Nat \ {0}
        /\ t < turn \/ (t = turn /\ (n < port \/ (n = port /\ phase' = "leave")))
    <3>1. Len(order) \in Nat /\ Len(Inputs[order[t]]) \in Nat
      BY <1>3, Positions
    <3>2. QED
      BY <1>1, <3>1 DEF Before
  <2>2. CASE phase = "sources"
    <3>1. turn = 1 /\ port = 1
      BY <1>3, <2>2 DEF LoopInv
    <3>2. t = turn /\ n = port /\ phase' = "leave"
      BY <2>1, <3>1
    <3>3. QED
      BY <3>2 DEF Input, Here
  <2>3. CASE phase # "sources" /\ Before(t, n)
    BY <1>3, <2>3 DEF QuietInv
  <2>4. CASE ~ Before(t, n)
    <3>1. t = turn /\ n = port /\ phase' = "leave"
      BY <2>1, <2>4 DEF Before
    <3>2. QED
      BY <3>1 DEF Input, Here
  <2>5. QED
    BY <2>2, <2>3, <2>4
<1>7. QED
  BY <1>2, <1>4, <1>5, <1>6 DEF TypesInvariant

LEMMA AllAttachedKeeps == TypesInvariant /\ AllAttached => TypesInvariant'
<1> SUFFICES ASSUME TypesInvariant, AllAttached PROVE TypesInvariant'
  OBVIOUS
<1>1. /\ phase \in {"sources", "attach"} /\ pending = {}
      /\ phase' \in {"look", "forward"} /\ UNCHANGED <<types, loopVars, pending>>
  BY DEF AllAttached
<1>2. ~ ending
  BY <1>1 DEF TypesInvariant, LoopInv
<1>3. QED
  BY <1>1, <1>2, StaysAtInput

LEMMA LookKeeps == TypesInvariant /\ Look => TypesInvariant'
<1> SUFFICES ASSUME TypesInvariant, Look PROVE TypesInvariant'
  OBVIOUS
<1>1. /\ phase = "look" /\ UNCHANGED <<types, loopVars, pending>>
      /\ phase' = IF ending \/ Unpropagated(types[Input]) # {} THEN "erase" ELSE "leave"
  BY DEF Look
<1>2. pending = {}
  BY <1>1 DEF TypesInvariant, TypesInv
<1>3. QED
  BY <1>1, <1>2, StaysAtInput

LEMMA EraseDoneKeeps == TypesInvariant /\ EraseDone => TypesInvariant'
<1> SUFFICES ASSUME TypesInvariant, EraseDone PROVE TypesInvariant'
  OBVIOUS
<1>1. phase = "erase" /\ UNCHANGED <<types, loopVars, pending>> /\ phase' = "combine"
  BY DEF EraseDone
<1>2. pending = {}
  BY <1>1 DEF TypesInvariant, TypesInv
<1>3. QED
  BY <1>1, <1>2, StaysAtInput

LEMMA CombineDoneKeeps == TypesInvariant /\ CombineDone => TypesInvariant'
<1> SUFFICES ASSUME TypesInvariant, CombineDone PROVE TypesInvariant'
  OBVIOUS
<1>1. /\ phase = "combine" /\ UNCHANGED <<types, loopVars, pending>>
      /\ phase' = IF combined THEN "combine" ELSE IF ending THEN "leave" ELSE "forward"
  BY DEF CombineDone
<1>2. pending = {}
  BY <1>1 DEF TypesInvariant, TypesInv
<1>3. QED
  BY <1>1, <1>2, StaysAtInput

LEMMA ForwardDoneKeeps == TypesInvariant /\ ForwardDone => TypesInvariant'
<1> SUFFICES ASSUME TypesInvariant, ForwardDone PROVE TypesInvariant'
  OBVIOUS
<1>1. /\ phase = "forward" /\ Unpropagated(types[Input]) = {}
      /\ UNCHANGED <<types, loopVars, pending>> /\ phase' = "leave"
  BY DEF ForwardDone
<1>2. pending = {}
  BY <1>1 DEF TypesInvariant, TypesInv
<1>3. QED
  BY <1>1, <1>2, StaysAtInput

LEMMA NextInputKeeps == TypesInvariant /\ NextInput => TypesInvariant'
<1> SUFFICES ASSUME TypesInvariant, NextInput PROVE TypesInvariant'
  OBVIOUS
<1>1. /\ phase = "leave" /\ port < Len(Inputs[Here]) /\ port' = port + 1 /\ phase' = "look"
      /\ types' = types /\ order' = order /\ turn' = turn /\ pending' = pending
      /\ happened' = happened /\ changed' = changed /\ ending' = ending
  BY DEF NextInput
<1>2. LoopInv /\ QuietInv /\ ClosedInv /\ pending = {}
  BY <1>1 DEF TypesInvariant, TypesInv
<1>3. TypesInv' /\ SwitchInv' /\ SoundInv' /\ CompleteInv'
  BY <1>1, <1>2, ControlKeeps
<1>4. Here' = Here
  BY <1>1 DEF Here
<1>5. /\ port \in 1 .. Len(Inputs[Here]) /\ Len(Inputs[Here]) \in Nat
      /\ \A t \in 1 .. Len(order) : Len(Inputs[order[t]]) \in Nat
  BY <1>2, Positions, HereIs
<1>6. port' \in 1 .. Len(Inputs[Here])
  BY <1>1, <1>5
<1>7. LoopInv'
  BY <1>1, <1>2, <1>4, <1>6 DEF LoopInv, Phases
<1>8. ClosedInv'
  BY <1>1, <1>2 DEF ClosedInv
<1>9. QuietInv'
  <2> SUFFICES ASSUME ~ ending, ~ changed, ~ happened, NEW t \in 1 .. Len(order),
                      NEW n \in 1 .. Len(Inputs[order[t]]), Before(t, n)'
               PROVE  Unpropagated(types[Inputs[order[t]][n]]) = {}
    BY <1>1 DEF QuietInv
  <2>1. t < turn \/ (t = turn /\ n < port + 1)
    BY <1>1 DEF Before
  <2>2. n \in Nat /\ port \in Nat
    BY <1>5
  <2>3. n < port + 1 => n < port \/ n = port
    BY <2>2
  <2>4. Before(t, n)
    BY <1>1, <2>1, <2>3 DEF Before
  <2>5. QED
    BY <1>1, <1>2, <2>4 DEF QuietInv
<1>10. QED
  BY <1>3, <1>7, <1>8, <1>9 DEF TypesInvariant

LEMMA NextComponentKeeps == TypesInvariant /\ NextComponent => TypesInvariant'
<1> SUFFICES ASSUME TypesInvariant, NextComponent PROVE TypesInvariant'
  OBVIOUS
<1>1. /\ phase = "leave" /\ port = Len(Inputs[Here]) /\ turn < Len(order)
      /\ turn' = turn + 1 /\ port' = 1 /\ phase' = "look"
      /\ changed' = (changed \/ happened) /\ happened' = FALSE
      /\ types' = types /\ order' = order /\ pending' = pending /\ ending' = ending
  BY DEF NextComponent, Happened
<1>2. LoopInv /\ QuietInv /\ ClosedInv /\ pending = {}
  BY <1>1 DEF TypesInvariant, TypesInv
<1>3. TypesInv' /\ SwitchInv' /\ SoundInv' /\ CompleteInv'
  BY <1>1, <1>2, ControlKeeps
<1>4. /\ turn \in 1 .. Len(order) /\ Len(order) \in Nat
      /\ \A t \in 1 .. Len(order) : Len(Inputs[order[t]]) \in Nat \ {0}
  BY <1>2, Positions
<1>5. turn' \in 1 .. Len(order)
  BY <1>1, <1>4
<1>6. 1 \in 1 .. Len(Inputs[order[turn']])
  <2>1. Len(Inputs[order[turn']]) \in Nat \ {0}
    BY <1>4, <1>5
  <2>2. QED
    BY <2>1
<1>7. LoopInv'
  BY <1>1, <1>2, <1>5, <1>6 DEF LoopInv, Phases, Here
<1>8. ClosedInv'
  BY <1>1, <1>2 DEF ClosedInv
<1>9. QuietInv'
  <2> SUFFICES ASSUME ~ ending, ~ changed, ~ happened, NEW t \in 1 .. Len(order),
                      NEW n \in 1 .. Len(Inputs[order[t]]), Before(t, n)'
               PROVE  Unpropagated(types[Inputs[order[t]][n]]) = {}
    BY <1>1 DEF QuietInv
  <2>1. t < turn + 1 \/ (t = turn + 1 /\ n < 1)
    BY <1>1 DEF Before
  <2>2. t \in Nat /\ turn \in Nat /\ n \in Nat \ {0} /\ n <= Len(Inputs[order[t]])
        /\ Len(Inputs[order[t]]) \in Nat
    BY <1>4
  <2>3. t < turn \/ t = turn
    BY <2>1, <2>2
  <2>4. ASSUME t = turn PROVE n < port \/ n = port
    <3>1. port = Len(Inputs[order[t]])
      BY <1>1, <2>4 DEF Here
    <3>2. QED
      BY <2>2, <3>1
  <2>5. Before(t, n)
    BY <1>1, <2>3, <2>4 DEF Before
  <2>6. QED
    BY <1>1, <1>2, <2>5 DEF QuietInv
<1>10. QED
  BY <1>3, <1>7, <1>8, <1>9 DEF TypesInvariant

\* After a round in which nothing happened, all that the types stand for was propagated.
LEMMA QuietIsClosed ==
    ASSUME TypesInvariant, phase = "leave", port = Len(Inputs[Here]), turn = Len(order),
           ~ ending, ~ Happened
    PROVE  Closed(FlowOf(types))
<1>1. /\ LoopInv /\ QuietInv /\ CompleteInv /\ pending = {}
      /\ types \in [Channels -> Seq(Entries)] /\ ~ changed /\ ~ happened
  BY DEF TypesInvariant, TypesInv, Happened
<1>2. order \in Orders
  BY <1>1 DEF LoopInv
<1>3. ASSUME NEW c \in Components, NEW n \in DOMAIN Inputs[c]
      PROVE  Unpropagated(types[Inputs[c][n]]) = {}
  <2>1. PICK t \in 1 .. Len(order) : order[t] = c
    BY <1>2, OrderIs
  <2>2. n \in 1 .. Len(Inputs[order[t]]) /\ Len(Inputs[order[t]]) \in Nat /\ Len(order) \in Nat
    BY <1>1, <2>1, InputsAre, Positions
  <2>3. t < turn \/ t = turn
    BY <2>1, <2>2
  <2>4. ASSUME t = turn PROVE n < port \/ n = port
    <3>1. port = Len(Inputs[order[t]])
      BY <2>4 DEF Here
    <3>2. QED
      BY <2>2, <3>1
  <2>5. Before(t, n)
    BY <2>3, <2>4 DEF Before
  <2>6. QED
    BY <1>1, <2>1, <2>2, <2>5 DEF QuietInv
<1>4. ASSUME NEW c \in Components, NEW n \in DOMAIN Inputs[c]
      PROVE  FlowOf(types)[Inputs[c][n]] \subseteq MarkedOf(types)[Inputs[c][n]]
  <2> DEFINE o == Inputs[c][n]
  <2>1. o \in Channels
    BY Ports
  <2> HIDE DEF o
  <2>2. \A i \in DOMAIN types[o] : types[o][i].propagated
    BY <1>3 DEF Unpropagated, o
  <2>3. TypeMeaning(types[o]) \subseteq MarkedMeaning(types[o])
    BY <2>2, InType
  <2>4. FlowOf(types)[o] \subseteq MarkedOf(types)[o]
    BY <2>1, <2>3 DEF FlowOf, MarkedOf
  <2>5. QED
    BY <2>4 DEF o
<1>5. \A o \in Channels : Held(types, pending, o) = FlowOf(types)[o]
  <2>1. ASSUME NEW o, NEW x \in Waiting(pending, o) PROVE FALSE
    BY <1>1, WaitingIs
  <2>2. QED
    BY <2>1 DEF Held, FlowOf
<1>6. ASSUME NEW c \in Components, NEW o \in ToSet(Outputs[c])
      PROVE  Produced(c, FlowOf(types), o) \subseteq FlowOf(types)[o]
  <2>1. Produced(c, FlowOf(types), o) \subseteq Produced(c, MarkedOf(types), o)
    BY <1>4, ProducedGrows
  <2>2. Produced(c, MarkedOf(types), o) \subseteq Held(types, pending, o)
    BY <1>1 DEF CompleteInv
  <2>3. o \in Channels
    BY Ports
  <2>4. QED
    BY <1>5, <2>1, <2>2, <2>3
<1>7. QED
  BY <1>1, <1>5, <1>6 DEF Closed, CompleteInv

LEMMA NextRoundKeeps == TypesInvariant /\ NextRound => TypesInvariant'
<1> SUFFICES ASSUME TypesInvariant, NextRound PROVE TypesInvariant'
  OBVIOUS
<1>1. /\ phase = "leave" /\ port = Len(Inputs[Here]) /\ turn = Len(order)
      /\ turn' = 1 /\ port' = 1 /\ changed' = FALSE /\ happened' = FALSE
      /\ ending' = ~ Happened /\ phase' = IF ending THEN "done" ELSE "look"
      /\ types' = types /\ order' = order /\ pending' = pending
  BY DEF NextRound
<1>2. LoopInv /\ ClosedInv /\ pending = {}
  BY <1>1 DEF TypesInvariant, TypesInv
<1>3. TypesInv' /\ SwitchInv' /\ SoundInv' /\ CompleteInv'
  BY <1>1, <1>2, ControlKeeps
<1>4. ending => ending'
  BY <1>1, <1>2 DEF LoopInv, Happened
<1>5. /\ Len(order) \in Nat \ {0}
      /\ \A t \in 1 .. Len(order) : Len(Inputs[order[t]]) \in Nat \ {0}
  BY <1>2, Positions
<1>6. 1 \in 1 .. Len(order) /\ 1 \in 1 .. Len(Inputs[order[1]])
  <2>1. 1 \in 1 .. Len(order)
    BY <1>5
  <2>2. Len(Inputs[order[1]]) \in Nat \ {0}
    BY <1>5, <2>1
  <2>3. QED
    BY <2>1, <2>2
<1>7. LoopInv'
  <2>1. ending' \in BOOLEAN /\ changed' \in BOOLEAN /\ happened' \in BOOLEAN
    BY <1>1
  <2>2. phase' \in {"look", "done"} /\ (phase' = "done" => ending')
    BY <1>1, <1>4
  <2>3. order' \in Orders /\ turn' \in 1 .. Len(order') /\ port' \in 1 .. Len(Inputs[Here'])
    BY <1>1, <1>2, <1>6 DEF LoopInv, Here
  <2>4. QED
    BY <1>1, <2>1, <2>2, <2>3 DEF LoopInv, Phases
<1>8. ClosedInv'
  <2>1. ASSUME ending' PROVE Closed(FlowOf(types))
    <3>1. CASE ending
      BY <1>2, <3>1 DEF ClosedInv
    <3>2. CASE ~ ending
      BY <1>1, <2>1, <3>2, QuietIsClosed
    <3>3. QED
      BY <3>1, <3>2
  <2>2. QED
    BY <1>1, <2>1 DEF ClosedInv
<1>9. QuietInv'
  <2> SUFFICES ASSUME NEW t \in 1 .. Len(order), NEW n \in 1 .. Len(Inputs[order[t]]), Before(t, n)'
               PROVE  FALSE
    BY <1>1 DEF QuietInv
  <2>1. t < 1 \/ (t = 1 /\ (n < 1 \/ (n = 1 /\ phase' = "leave")))
    BY <1>1 DEF Before
  <2>2. t \in Nat \ {0} /\ n \in Nat \ {0}
    BY <1>5
  <2>3. phase' # "leave"
    BY <1>1
  <2>4. QED
    BY <2>1, <2>2, <2>3
<1>10. QED
  BY <1>3, <1>7, <1>8, <1>9 DEF TypesInvariant
------------------------------------------------------------------------------
(* The steps of simplify().                                                *)

\* An input that was visited is another one than the input of this turn.
LEMMA VisitedElsewhere ==
    ASSUME LoopInv, phase # "leave", NEW t \in 1 .. Len(order),
           NEW n \in 1 .. Len(Inputs[order[t]]), Before(t, n)
    PROVE  Inputs[order[t]][n] # Input /\ Inputs[order[t]][n] \in Channels
<1>1. /\ order[t] \in Components /\ Here \in Components
      /\ n \in DOMAIN Inputs[order[t]] /\ port \in DOMAIN Inputs[Here]
      /\ turn \in 1 .. Len(order) /\ port \in Nat
  BY HereIs, Positions, InputsAre
<1>2. ASSUME Inputs[order[t]][n] = Input PROVE FALSE
  <2>1. order[t] = Here /\ n = port
    BY <1>1, <1>2, FlowAssumption DEF Input
  <2>2. t = turn
    BY <1>1, <2>1, OrderIs DEF Here, LoopInv
  <2>3. t \in Nat
    OBVIOUS
  <2>4. QED
    BY <1>1, <2>1, <2>2, <2>3 DEF Before
<1>3. QED
  BY <1>1, <1>2, Ports

LEMMA SimplifyKeeps ==
    ASSUME TypesInvariant, phase \in {"erase", "combine"},
           NEW w, Refines(w, types[Input]), types' = [types EXCEPT ![Input] = w],
           UNCHANGED <<loopVars, phase, pending>>
    PROVE  TypesInvariant'
<1>1. /\ TypesInv /\ LoopInv /\ SoundInv /\ CompleteInv /\ QuietInv /\ ClosedInv
      /\ types \in [Channels -> Seq(Entries)]
  BY DEF TypesInvariant, TypesInv
<1>2. /\ order' = order /\ turn' = turn /\ port' = port /\ happened' = happened
      /\ changed' = changed /\ ending' = ending /\ phase' = phase /\ pending' = pending
  BY DEF loopVars
<1>3. /\ w \in Seq(Entries) /\ TypeMeaning(w) = TypeMeaning(types[Input])
      /\ MarkedMeaning(w) \subseteq MarkedMeaning(types[Input])
  BY DEF Refines
<1>4. Input \in Channels /\ Here' = Here
  BY <1>1, <1>2, HereIs DEF Here
<1>5. /\ types' \in [Channels -> Seq(Entries)] /\ types'[Input] = w
      /\ \A o \in Channels \ {Input} : types'[o] = types[o]
  BY <1>1, <1>3, <1>4
<1>6. \A o \in Channels : /\ TypeMeaning(types'[o]) = TypeMeaning(types[o])
                          /\ MarkedMeaning(types'[o]) \subseteq MarkedMeaning(types[o])
  BY <1>3, <1>5
<1>7. \A o \in Channels : Held(types', pending', o) = Held(types, pending, o)
  BY <1>2, <1>6 DEF Held
<1>8. TypesInv'
  BY <1>1, <1>2, <1>5 DEF TypesInv
<1>9. LoopInv' /\ SwitchInv'
  BY <1>1, <1>2, <1>4 DEF LoopInv, SwitchInv
<1>10. SoundInv'
  BY <1>1, <1>2, <1>7 DEF SoundInv
<1>11. CompleteInv'
  <2>1. ASSUME NEW c \in Components, NEW o \in ToSet(Outputs[c])
        PROVE  Produced(c, MarkedOf(types'), o) \subseteq Held(types', pending', o)
    <3>1. Produced(c, MarkedOf(types'), o) \subseteq Produced(c, MarkedOf(types), o)
      BY <1>6, MarkedShrinks
    <3>2. Produced(c, MarkedOf(types), o) \subseteq Held(types, pending, o)
      BY <1>1 DEF CompleteInv
    <3>3. QED
      BY <1>7, <3>1, <3>2, Ports
  <2>2. \A o \in Channels : All(Emitted[o]) \subseteq Held(types', pending', o)
    BY <1>1, <1>7 DEF CompleteInv
  <2>3. phase' # "split"
    BY <1>2
  <2>4. QED
    BY <2>1, <2>2, <2>3 DEF CompleteInv
<1>12. QuietInv'
  <2> SUFFICES ASSUME ~ ending, ~ changed, ~ happened, NEW t \in 1 .. Len(order),
                      NEW n \in 1 .. Len(Inputs[order[t]]), Before(t, n)'
               PROVE  Unpropagated(types'[Inputs[order[t]][n]]) = {}
    BY <1>2 DEF QuietInv
  <2>1. Before(t, n)
    BY <1>2 DEF Before
  <2>2. Inputs[order[t]][n] # Input /\ Inputs[order[t]][n] \in Channels
    BY <1>1, <2>1, VisitedElsewhere
  <2>3. Unpropagated(types[Inputs[order[t]][n]]) = {}
    BY <1>1, <2>1 DEF QuietInv
  <2>4. QED
    BY <1>5, <2>2, <2>3
<1>13. ClosedInv'
  <2>1. FlowOf(types') = FlowOf(types)
    BY <1>6 DEF FlowOf
  <2>2. QED
    BY <1>1, <1>2, <2>1 DEF ClosedInv
<1>14. QED
  BY <1>8, <1>9, <1>10, <1>11, <1>12, <1>13 DEF TypesInvariant

LEMMA EraseOneKeeps == TypesInvariant /\ EraseOne => TypesInvariant'
<1> SUFFICES ASSUME TypesInvariant, EraseOne PROVE TypesInvariant'
  OBVIOUS
<1>1. phase = "erase" /\ UNCHANGED <<loopVars, phase, pending>>
  BY DEF EraseOne
<1>2. PICK i \in DOMAIN types[Input] :
          /\ IsLeast(i, Superfluous(types[Input]))
          /\ types' = [types EXCEPT ![Input] = RemoveAt(types[Input], i)]
  BY DEF EraseOne
<1>3. Input \in Channels /\ types \in [Channels -> Seq(Entries)]
  BY HereIs DEF TypesInvariant, TypesInv
<1>4. types[Input] \in Seq(Entries) /\ i \in Superfluous(types[Input])
  BY <1>2, <1>3 DEF IsLeast
<1>5. Refines(RemoveAt(types[Input], i), types[Input])
  BY <1>4, ErasedMeans
<1>6. QED
  BY <1>1, <1>2, <1>5, SimplifyKeeps

LEMMA CombineOneKeeps == TypesInvariant /\ CombineOne /\ precise' => TypesInvariant'
<1> SUFFICES ASSUME TypesInvariant, CombineOne, precise' PROVE TypesInvariant'
  OBVIOUS
<1> DEFINE vec == types[Input]
<1>1. phase = "combine" /\ UNCHANGED <<loopVars, phase, pending>>
  BY DEF CombineOne
<1>2. PICK i \in DOMAIN vec, j \in DOMAIN vec :
          /\ IsLeast(j, Mates(vec, i)) /\ types' = [types EXCEPT ![Input] = Merged(vec, i, j)]
          /\ CombinesExactly(vec[i].packet, vec[j].packet)
  BY DEF CombineOne
<1>3. Input \in Channels /\ types \in [Channels -> Seq(Entries)]
  BY HereIs DEF TypesInvariant, TypesInv
<1>4. vec \in Seq(Entries) /\ j \in Mates(vec, i)
  BY <1>2, <1>3 DEF IsLeast
<1> HIDE DEF vec
<1>5. Refines(Merged(vec, i, j), vec)
  BY <1>2, <1>4, CombineMeans
<1>6. QED
  BY <1>1, <1>2, <1>5, SimplifyKeeps DEF vec
------------------------------------------------------------------------------
(* The steps that attach and forward packets.                              *)

LEMMA AttachKeeps == TypesInvariant /\ Attach => TypesInvariant'
<1> SUFFICES ASSUME TypesInvariant, Attach PROVE TypesInvariant'
  OBVIOUS
<1>1. /\ phase \in {"sources", "attach"} /\ phase' = phase
      /\ order' = order /\ turn' = turn /\ port' = port /\ happened' = happened
      /\ changed' = changed /\ ending' = ending
  BY DEF Attach, loopVars
<1>2. PICK a \in pending, r \in BOOLEAN :
          /\ types' = [types EXCEPT ![a[1]] = AddPacket(types[a[1]], a[2], r)]
          /\ pending' = pending \ {a}
  BY DEF Attach
<1>3. /\ types \in [Channels -> Seq(Entries)] /\ pending \subseteq Channels \X Regular
      /\ LoopInv /\ SoundInv /\ CompleteInv
  BY DEF TypesInvariant, TypesInv
<1>4. a[1] \in Channels /\ a[2] \in Regular
  BY <1>2, <1>3
<1> DEFINE o1 == a[1]
           w == AddPacket(types[o1], a[2], r)
<1>5. /\ w \in Seq(Entries) /\ TypeMeaning(w) = TypeMeaning(types[o1]) \cup PacketMeaning(a[2])
      /\ MarkedMeaning(w) \subseteq MarkedMeaning(types[o1])
  <2>1. types[o1] \in Seq(Entries) /\ a[2] \in Regular /\ r \in BOOLEAN
    BY <1>3, <1>4
  <2>2. QED
    BY <2>1, AddedMeans
<1> HIDE DEF w
<1>6. /\ types' \in [Channels -> Seq(Entries)] /\ types'[o1] = w
      /\ \A o \in Channels \ {o1} : types'[o] = types[o]
  BY <1>2, <1>3, <1>4, <1>5 DEF w
<1>7. \A o \in Channels : MarkedMeaning(types'[o]) \subseteq MarkedMeaning(types[o])
  BY <1>5, <1>6
<1>8. \A o \in Channels : Held(types', pending', o) = Held(types, pending, o)
  <2> TAKE o \in Channels
  <2>1. ASSUME NEW x \in Held(types', pending', o) PROVE x \in Held(types, pending, o)
    <3>1. CASE x \in TypeMeaning(types'[o])
      <4>1. CASE o = o1 /\ x \in PacketMeaning(a[2])
        <5>1. x \in Waiting(pending, o)
          BY <1>2, <4>1, WaitingIs
        <5>2. QED
          BY <5>1 DEF Held
      <4>2. CASE ~ (o = o1 /\ x \in PacketMeaning(a[2]))
        BY <1>5, <1>6, <3>1, <4>2 DEF Held
      <4>3. QED
        BY <4>1, <4>2
    <3>2. CASE x \in Waiting(pending', o)
      <4>1. x \in Waiting(pending, o)
        BY <1>2, <3>2, WaitingIs
      <4>2. QED
        BY <4>1 DEF Held
    <3>3. QED
      BY <2>1, <3>1, <3>2 DEF Held
  <2>2. ASSUME NEW x \in Held(types, pending, o) PROVE x \in Held(types', pending', o)
    <3>1. CASE x \in TypeMeaning(types[o])
      BY <1>5, <1>6, <3>1 DEF Held
    <3>2. CASE x \in Waiting(pending, o)
      <4>1. PICK b \in pending : b[1] = o /\ x \in PacketMeaning(b[2])
        BY <3>2, WaitingIs
      <4>2. CASE b = a
        BY <1>5, <1>6, <4>1, <4>2 DEF Held
      <4>3. CASE b # a
        <5>1. x \in Waiting(pending', o)
          BY <1>2, <4>1, <4>3, WaitingIs
        <5>2. QED
          BY <5>1 DEF Held
      <4>4. QED
        BY <4>2, <4>3
    <3>3. QED
      BY <2>2, <3>1, <3>2 DEF Held
  <2>3. QED
    BY <2>1, <2>2
<1>9. TypesInv'
  BY <1>1, <1>2, <1>3, <1>6 DEF TypesInv
<1>10. LoopInv' /\ SwitchInv'
  BY <1>1, <1>3 DEF LoopInv, SwitchInv, Here
<1>11. SoundInv'
  BY <1>1, <1>3, <1>8 DEF SoundInv
<1>12. CompleteInv'
  <2>1. ASSUME NEW c \in Components, NEW o \in ToSet(Outputs[c])
        PROVE  Produced(c, MarkedOf(types'), o) \subseteq Held(types', pending', o)
    <3>1. Produced(c, MarkedOf(types'), o) \subseteq Produced(c, MarkedOf(types), o)
      BY <1>7, MarkedShrinks
    <3>2. Produced(c, MarkedOf(types), o) \subseteq Held(types, pending, o)
      BY <1>1, <1>3 DEF CompleteInv
    <3>3. QED
      BY <1>8, <3>1, <3>2, Ports
  <2>2. \A o \in Channels : All(Emitted[o]) \subseteq Held(types', pending', o)
    BY <1>3, <1>8 DEF CompleteInv
  <2>3. QED
    BY <1>1, <2>1, <2>2 DEF CompleteInv
<1>13. QuietInv' /\ ClosedInv'
  <2>1. (phase = "sources" \/ happened) /\ ~ ending
    BY <1>1, <1>3 DEF LoopInv
  <2>2. QED
    BY <1>1, <2>1 DEF QuietInv, ClosedInv
<1>14. QED
  BY <1>9, <1>10, <1>11, <1>12, <1>13 DEF TypesInvariant

\* A packet is marked: what the types stand for is the same, and of what was propagated
\* only that of the input is more.
Marks(i) ==
    /\ i \in DOMAIN types[Input]
    /\ types' = [types EXCEPT ![Input] = [types[Input] EXCEPT ![i] = Marked(types[Input][i])]]

LEMMA MarksMeans ==
    ASSUME TypesInvariant, NEW i, Marks(i)
    PROVE  /\ types' \in [Channels -> Seq(Entries)]
           /\ types[Input][i].packet \in PacketsIn(types[Input])
           /\ \A o \in Channels : TypeMeaning(types'[o]) = TypeMeaning(types[o])
           /\ MarkedOf(types')[Input] =
                MarkedOf(types)[Input] \cup PacketMeaning(types[Input][i].packet)
           /\ \A o \in Channels \ {Input} : MarkedOf(types')[o] = MarkedOf(types)[o]
           /\ \A c \in Components \ {Here} : \A o \in ToSet(Outputs[c]) :
                 Produced(c, MarkedOf(types'), o) \subseteq Produced(c, MarkedOf(types), o)
<1> DEFINE vec == types[Input]
           p == types[Input][i].packet
           w == [vec EXCEPT ![i] = Marked(vec[i])]
<1>1. /\ types \in [Channels -> Seq(Entries)] /\ Input \in Channels /\ LoopInv
      /\ Here \in Components /\ port \in DOMAIN Inputs[Here] /\ Input = Inputs[Here][port]
  BY HereIs DEF TypesInvariant, TypesInv
<1>2. vec \in Seq(Entries) /\ i \in DOMAIN vec /\ types' = [types EXCEPT ![Input] = w]
  BY <1>1 DEF Marks
<1>3. /\ w \in Seq(Entries) /\ PacketsIn(w) = PacketsIn(vec)
      /\ MarkedMeaning(w) = MarkedMeaning(vec) \cup PacketMeaning(vec[i].packet)
  <2> HIDE DEF vec
  <2>1. QED
    BY <1>2, MarkMeans
<1>4. p \in PacketsIn(vec)
  BY <1>2 DEF PacketsIn
<1> HIDE DEF w
<1>5. /\ types' \in [Channels -> Seq(Entries)] /\ types'[Input] = w
      /\ \A o \in Channels \ {Input} : types'[o] = types[o]
  BY <1>1, <1>2, <1>3
<1>6. \A o \in Channels : TypeMeaning(types'[o]) = TypeMeaning(types[o])
  BY <1>3, <1>5 DEF TypeMeaning
<1>7. /\ MarkedOf(types')[Input] = MarkedOf(types)[Input] \cup PacketMeaning(p)
      /\ \A o \in Channels \ {Input} : MarkedOf(types')[o] = MarkedOf(types)[o]
  BY <1>1, <1>3, <1>5 DEF MarkedOf
<1>8. ASSUME NEW c \in Components \ {Here}, NEW o \in ToSet(Outputs[c])
      PROVE  Produced(c, MarkedOf(types'), o) \subseteq Produced(c, MarkedOf(types), o)
  <2>1. ASSUME NEW n \in DOMAIN Inputs[c]
        PROVE  MarkedOf(types')[Inputs[c][n]] \subseteq MarkedOf(types)[Inputs[c][n]]
    <3>1. Inputs[c][n] \in Channels \ {Input}
      BY <1>1, Ports, FlowAssumption
    <3>2. QED
      BY <1>7, <3>1
  <2>2. QED
    BY <2>1, ProducedGrows
<1>9. QED
  BY <1>4, <1>5, <1>6, <1>7, <1>8

LEMMA ForwardsMarks ==
    ASSUME TypesInvariant, Forward
    PROVE  \E i : /\ Marks(i)
                  /\ IF Kind[Here] = "switch"
                     THEN /\ phase' = "split" /\ packet' = types[Input][i].packet
                          /\ todo' = SwitchFunction[Here] /\ seen' = {}
                          /\ outA' = {} /\ outB' = {types[Input][i].packet}
                          /\ pending' = pending
                     ELSE /\ phase' = "attach"
                          /\ pending' = ToSet(Outputs[Here])
                                        \X Forwarded(Here, port, types[Input][i].packet, types)
                          /\ precise' => (Kind[Here] = "function" =>
                                            AppliesExactly(Here, types[Input][i].packet))
<1>1. PICK i \in DOMAIN types[Input] :
         /\ types' = [types EXCEPT ![Input][i] = Marked(types[Input][i])]
         /\ IF Kind[Here] = "switch"
            THEN /\ phase' = "split" /\ packet' = types[Input][i].packet
                 /\ todo' = SwitchFunction[Here] /\ seen' = {}
                 /\ outA' = {} /\ outB' = {types[Input][i].packet}
                 /\ pending' = pending
            ELSE /\ phase' = "attach"
                 /\ pending' = ToSet(Outputs[Here])
                               \X Forwarded(Here, port, types[Input][i].packet, types)
                 /\ precise' => (Kind[Here] = "function" =>
                                   AppliesExactly(Here, types[Input][i].packet))
  BY DEF Forward
<1>2. Marks(i)
  BY <1>1 DEF Marks
<1>3. QED
  BY <1>1, <1>2

\* What the state before a packet is forwarded says, in the words of the state after it.
LEMMA ForwardsFrom ==
    ASSUME TypesInvariant, Forward, NEW i, Marks(i)
    PROVE  /\ phase = "forward" /\ pending = {} /\ ~ ending /\ ~ ending' /\ happened' = TRUE
           /\ order' = order /\ turn' = turn /\ port' = port /\ Here' = Here /\ Input' = Input
           /\ \A o \in Channels : Held(types, pending, o) = TypeMeaning(types[o])
           /\ phase' \in {"attach", "split"} => LoopInv' /\ QuietInv' /\ ClosedInv'
<1>1. /\ phase = "forward" /\ order' = order /\ turn' = turn /\ port' = port
      /\ changed' = changed /\ ending' = ending /\ happened' = TRUE
  BY DEF Forward
<1>2. pending = {} /\ LoopInv
  BY <1>1 DEF TypesInvariant, TypesInv
<1>3. Here' = Here /\ Input' = Input
  BY <1>1 DEF Here, Input
<1>4. ~ ending
  BY <1>1, <1>2 DEF LoopInv
<1>5. \A o \in Channels : Held(types, pending, o) = TypeMeaning(types[o])
  <2>1. \A o : \A x : x \notin Waiting(pending, o)
    BY <1>2, WaitingIs
  <2>2. QED
    BY <2>1 DEF Held
<1>6. ASSUME phase' \in {"attach", "split"}
      PROVE  LoopInv' /\ QuietInv' /\ ClosedInv'
  BY <1>1, <1>2, <1>3, <1>4, <1>6 DEF LoopInv, QuietInv, ClosedInv, Phases
<1>7. QED
  BY <1>1, <1>2, <1>3, <1>4, <1>5, <1>6

LEMMA ForwardSwitchKeeps ==
    ASSUME TypesInvariant, Forward, Kind[Here] = "switch"
    PROVE  TypesInvariant'
<1>1. PICK i : /\ Marks(i) /\ phase' = "split" /\ packet' = types[Input][i].packet
               /\ todo' = SwitchFunction[Here] /\ seen' = {}
               /\ outA' = {} /\ outB' = {types[Input][i].packet} /\ pending' = pending
  BY ForwardsMarks
<1> DEFINE p == types[Input][i].packet
<1>2. /\ phase = "forward" /\ pending = {} /\ Here' = Here /\ Input' = Input
      /\ \A o \in Channels : Held(types, pending, o) = TypeMeaning(types[o])
      /\ LoopInv' /\ QuietInv' /\ ClosedInv'
  BY <1>1, ForwardsFrom
<1>3. /\ types' \in [Channels -> Seq(Entries)] /\ p \in PacketsIn(types[Input])
      /\ \A o \in Channels : TypeMeaning(types'[o]) = TypeMeaning(types[o])
      /\ MarkedOf(types')[Input] = MarkedOf(types)[Input] \cup PacketMeaning(p)
      /\ \A c \in Components \ {Here} : \A o \in ToSet(Outputs[c]) :
            Produced(c, MarkedOf(types'), o) \subseteq Produced(c, MarkedOf(types), o)
  BY <1>1, MarksMeans
<1>4. /\ types \in [Channels -> Seq(Entries)] /\ SoundInv /\ CompleteInv
      /\ Here \in Components /\ Input \in Channels /\ Input = Inputs[Here][port]
      /\ port \in DOMAIN Inputs[Here]
  BY HereIs DEF TypesInvariant, TypesInv
<1>5. DOMAIN Inputs[Here] = {1} /\ Input = Inputs[Here][1]
  BY <1>4, Ports
<1>6. p \in Regular /\ PacketMeaning(p) \subseteq TypeMeaning(types[Input])
  <2>1. types[Input] \in Seq(Entries)
    BY <1>4
  <2>2. QED
    BY <1>3, <2>1, PacketOfType
<1> HIDE DEF p
<1>7. packet' = p /\ outB' = {p}
  BY <1>1 DEF p
<1>8. \A o \in Channels : Held(types', pending', o) = Held(types, pending, o)
  BY <1>1, <1>3 DEF Held
<1>9. TypesInv'
  BY <1>1, <1>2, <1>3 DEF TypesInv
<1>10. SwitchInv'
  <2>1. \A f \in SwitchFunction[Here] : IsPacket(f)
    BY <1>4, TypesAssumption
  <2>2. IsPacket(p)
    BY <1>6, RegularMeans DEF IsNamed
  <2>3. All({}) = {} /\ All({p}) = PacketMeaning(p)
    BY DEF All
  <2>4. SplitInv'
    <3>1. SplitTypes'
      BY <1>1, <1>7, <2>1, <2>2 DEF SplitTypes
    <3>2. QED
      BY <1>1, <1>7, <2>3, <3>1 DEF SplitInv
  <2>5. packet' \in Regular /\ outA' \cup outB' \subseteq Regular /\ OfOneKind'
    BY <1>1, <1>6, <1>7 DEF OfOneKind
  <2>6. QED
    BY <1>1, <1>2, <2>4, <2>5 DEF SwitchInv
<1>11. SoundInv'
  <2> SUFFICES ASSUME NEW G, Closed(G)
               PROVE  /\ \A o \in Channels : Held(types', pending', o) \subseteq G[o]
                      /\ PacketMeaning(packet') \subseteq G[Input]
    BY <1>2 DEF SoundInv
  <2>1. \A o \in Channels : Held(types, pending, o) \subseteq G[o]
    BY <1>4 DEF SoundInv
  <2>2. QED
    BY <1>2, <1>4, <1>6, <1>7, <1>8, <2>1
<1>12. CompleteInv'
  <2>1. ASSUME NEW c \in Components, NEW o \in ToSet(Outputs[c])
        PROVE  Produced(c, MarkedOf(types'), o) \subseteq
                 Held(types', pending', o) \cup
                   (IF c = Here THEN Produced(c, Arriving(p), o) ELSE {})
    <3>1. Produced(c, MarkedOf(types), o) \subseteq Held(types, pending, o)
      BY <1>2, <1>4 DEF CompleteInv
    <3>2. o \in Channels
      BY Ports
    <3>3. CASE c # Here
      BY <1>3, <1>8, <3>1, <3>2, <3>3
    <3>4. CASE c = Here
      <4>1. Arriving(p)[Input] = PacketMeaning(p)
        BY <1>4 DEF Arriving
      <4>2. MarkedOf(types')[Inputs[c][1]] \subseteq MarkedOf(types)[Inputs[c][1]] \cup Arriving(p)[Inputs[c][1]]
        BY <1>3, <1>5, <3>4, <4>1
      <4>3. Produced(c, MarkedOf(types'), o) \subseteq
              Produced(c, MarkedOf(types), o) \cup Produced(c, Arriving(p), o)
        BY <3>4, <4>2, SwitchAdds
      <4>4. QED
        BY <1>8, <3>1, <3>2, <3>4, <4>3
    <3>5. QED
      BY <3>3, <3>4
  <2>2. \A o \in Channels : All(Emitted[o]) \subseteq Held(types', pending', o)
    BY <1>4, <1>8 DEF CompleteInv
  <2>3. phase' = "split"
    BY <1>1
  <2>4. QED
    BY <1>2, <1>7, <2>1, <2>2, <2>3 DEF CompleteInv
<1>13. QED
  BY <1>2, <1>9, <1>10, <1>11, <1>12 DEF TypesInvariant

LEMMA ForwardOtherKeeps ==
    ASSUME TypesInvariant, Forward, precise', Kind[Here] # "switch", FunctionsMakePackets
    PROVE  TypesInvariant'
<1>1. PICK i : /\ Marks(i) /\ phase' = "attach"
               /\ pending' = ToSet(Outputs[Here])
                             \X Forwarded(Here, port, types[Input][i].packet, types)
               /\ Kind[Here] = "function" => AppliesExactly(Here, types[Input][i].packet)
  BY ForwardsMarks
<1> DEFINE p == types[Input][i].packet
           sent == Forwarded(Here, port, p, types)
<1>2. /\ phase = "forward" /\ pending = {} /\ Here' = Here /\ Input' = Input
      /\ \A o \in Channels : Held(types, pending, o) = TypeMeaning(types[o])
      /\ LoopInv' /\ QuietInv' /\ ClosedInv'
  BY <1>1, ForwardsFrom
<1>3. /\ types' \in [Channels -> Seq(Entries)] /\ p \in PacketsIn(types[Input])
      /\ \A o \in Channels : TypeMeaning(types'[o]) = TypeMeaning(types[o])
      /\ MarkedOf(types')[Input] = MarkedOf(types)[Input] \cup PacketMeaning(p)
      /\ \A o \in Channels \ {Input} : MarkedOf(types')[o] = MarkedOf(types)[o]
      /\ \A c \in Components \ {Here} : \A o \in ToSet(Outputs[c]) :
            Produced(c, MarkedOf(types'), o) \subseteq Produced(c, MarkedOf(types), o)
  BY <1>1, MarksMeans
<1>4. /\ types \in [Channels -> Seq(Entries)] /\ SoundInv /\ CompleteInv
      /\ Here \in Components /\ Input \in Channels /\ Input = Inputs[Here][port]
      /\ port \in DOMAIN Inputs[Here]
  BY HereIs DEF TypesInvariant, TypesInv
<1>5. /\ pending' = ToSet(Outputs[Here]) \X sent
      /\ Kind[Here] = "function" => AppliesExactly(Here, p)
  BY <1>1
<1> HIDE DEF p
<1>6. p \in PacketsIn(types[Inputs[Here][port]])
  BY <1>3, <1>4
<1>7. ASSUME NEW o \in ToSet(Outputs[Here])
      PROVE  /\ sent \subseteq Regular
             /\ \A G : (\A m \in DOMAIN Inputs[Here] :
                          TypeMeaning(types[Inputs[Here][m]]) \subseteq G[Inputs[Here][m]])
                         => All(sent) \subseteq Produced(Here, G, o)
             /\ \A D, E :
                  (\A m \in DOMAIN Inputs[Here] :
                       /\ D[Inputs[Here][m]] \subseteq TypeMeaning(types[Inputs[Here][m]])
                       /\ E[Inputs[Here][m]] \subseteq
                            D[Inputs[Here][m]] \cup (IF m = port THEN PacketMeaning(p) ELSE {}))
                  => Produced(Here, E, o) \subseteq Produced(Here, D, o) \cup All(sent)
  BY <1>4, <1>5, <1>6, <1>7, ForwardedMeans
<1> HIDE DEF sent
<1>8. ASSUME NEW o
      PROVE  Waiting(pending', o) = IF o \in ToSet(Outputs[Here]) THEN All(sent) ELSE {}
  <2>1. ASSUME NEW x \in Waiting(pending', o) PROVE o \in ToSet(Outputs[Here]) /\ x \in All(sent)
    <3>1. PICK a \in pending' : a[1] = o /\ x \in PacketMeaning(a[2])
      BY <2>1, WaitingIs
    <3>2. a[1] \in ToSet(Outputs[Here]) /\ a[2] \in sent
      BY <1>5, <3>1
    <3>3. QED
      BY <3>1, <3>2, InAll
  <2>2. ASSUME o \in ToSet(Outputs[Here]), NEW x \in All(sent) PROVE x \in Waiting(pending', o)
    <3>1. PICK q \in sent : x \in PacketMeaning(q)
      BY <2>2, InAll
    <3> DEFINE a == <<o, q>>
    <3>2. a \in pending' /\ a[1] = o /\ x \in PacketMeaning(a[2])
      BY <1>5, <2>2, <3>1
    <3>3. QED
      BY <3>2, WaitingIs
  <2>3. QED
    BY <2>1, <2>2
<1>9. TypesInv'
  <2>1. pending' \subseteq Channels \X Regular
    BY <1>4, <1>5, <1>7, Ports
  <2>2. QED
    BY <1>1, <1>3, <2>1 DEF TypesInv
<1>10. SwitchInv'
  BY <1>1 DEF SwitchInv
<1>11. SoundInv'
  <2> SUFFICES ASSUME NEW G, Closed(G), NEW o \in Channels
               PROVE  Held(types', pending', o) \subseteq G[o]
    BY <1>1 DEF SoundInv
  <2>1. \A q \in Channels : TypeMeaning(types[q]) \subseteq G[q]
    BY <1>2, <1>4 DEF SoundInv
  <2>2. Waiting(pending', o) \subseteq G[o]
    <3>1. CASE o \in ToSet(Outputs[Here])
      <4>1. \A m \in DOMAIN Inputs[Here] :
                TypeMeaning(types[Inputs[Here][m]]) \subseteq G[Inputs[Here][m]]
        BY <1>4, <2>1, Ports
      <4>2. All(sent) \subseteq Produced(Here, G, o)
        BY <1>7, <3>1, <4>1
      <4>3. Produced(Here, G, o) \subseteq G[o]
        BY <1>4, <3>1 DEF Closed
      <4>4. QED
        BY <1>8, <3>1, <4>2, <4>3
    <3>2. CASE o \notin ToSet(Outputs[Here])
      BY <1>8, <3>2
    <3>3. QED
      BY <3>1, <3>2
  <2>3. QED
    BY <1>3, <2>1, <2>2 DEF Held
<1>12. CompleteInv'
  <2>1. ASSUME NEW c \in Components, NEW o \in ToSet(Outputs[c])
        PROVE  Produced(c, MarkedOf(types'), o) \subseteq Held(types', pending', o)
    <3>1. o \in Channels
      BY Ports
    <3>2. Produced(c, MarkedOf(types), o) \subseteq TypeMeaning(types[o])
      BY <1>2, <1>4, <3>1 DEF CompleteInv
    <3>3. TypeMeaning(types[o]) \subseteq Held(types', pending', o)
      BY <1>3, <3>1 DEF Held
    <3>4. CASE c # Here
      BY <1>3, <3>2, <3>3, <3>4
    <3>5. CASE c = Here
      <4>1. ASSUME NEW m \in DOMAIN Inputs[Here]
            PROVE  /\ MarkedOf(types)[Inputs[Here][m]] \subseteq TypeMeaning(types[Inputs[Here][m]])
                   /\ MarkedOf(types')[Inputs[Here][m]] \subseteq
                        MarkedOf(types)[Inputs[Here][m]]
                          \cup (IF m = port THEN PacketMeaning(p) ELSE {})
        <5>1. Inputs[Here][m] \in Channels
          BY <1>4, Ports
        <5>2. MarkedOf(types)[Inputs[Here][m]] \subseteq TypeMeaning(types[Inputs[Here][m]])
          BY <5>1, MarkedInType DEF MarkedOf
        <5>3. CASE m = port
          BY <1>3, <1>4, <5>2, <5>3
        <5>4. CASE m # port
          <6>1. Inputs[Here][m] # Input
            BY <1>4, <5>4, FlowAssumption
          <6>2. QED
            BY <1>3, <5>1, <5>2, <6>1
        <5>5. QED
          BY <5>3, <5>4
      <4>2. Produced(Here, MarkedOf(types'), o) \subseteq
              Produced(Here, MarkedOf(types), o) \cup All(sent)
        BY <1>7, <3>5, <4>1
      <4>3. All(sent) \subseteq Held(types', pending', o)
        BY <1>8, <3>5 DEF Held
      <4>4. QED
        BY <3>2, <3>3, <3>5, <4>2, <4>3
    <3>6. QED
      BY <3>4, <3>5
  <2>2. \A o \in Channels : All(Emitted[o]) \subseteq Held(types', pending', o)
    BY <1>2, <1>3, <1>4 DEF CompleteInv, Held
  <2>3. QED
    BY <1>1, <2>1, <2>2 DEF CompleteInv
<1>13. QED
  BY <1>2, <1>9, <1>10, <1>11, <1>12 DEF TypesInvariant

LEMMA SplitOnKeeps == TypesInvariant /\ SplitOn /\ precise' => TypesInvariant'
<1> SUFFICES ASSUME TypesInvariant, SplitOn, precise' PROVE TypesInvariant'
  OBVIOUS
<1>1. /\ phase = "split" /\ phase' = phase /\ types' = types /\ pending' = pending
      /\ order' = order /\ turn' = turn /\ port' = port /\ happened' = happened
      /\ changed' = changed /\ ending' = ending
  BY DEF SplitOn, loopVars
<1>2. PICK f \in todo : Split(f) /\ SameKinds(f, packet)
  BY DEF SplitOn
<1>3. /\ TypesInv /\ LoopInv /\ SwitchInv /\ SoundInv /\ CompleteInv /\ QuietInv /\ ClosedInv
      /\ Here' = Here /\ Input' = Input /\ Here \in Components
  BY <1>1, HereIs DEF TypesInvariant, Here, Input
<1>4. /\ Comparable(packet, f) /\ packet' = packet
      /\ outA' = outA \cup PacketIntersection(packet, f)
      /\ outB' = UNION {PacketDifference(r, f) : r \in outB}
      /\ todo' = todo \ {f} /\ seen' = seen \cup {f}
  BY <1>2 DEF Split, Common, Left
<1>5. /\ Kind[Here] = "switch" /\ seen \cup todo = SwitchFunction[Here]
      /\ SplitInv /\ OfOneKind /\ packet \in Regular
  BY <1>1, <1>3 DEF SwitchInv
<1>6. OfOneKind'
  BY <1>2, <1>4, <1>5 DEF OfOneKind, SameKinds
<1>7. SplitInv'
  BY <1>2, <1>5, SplitKeeps
<1>8. packet' \in Regular /\ outA' \cup outB' \subseteq Regular
  <2>1. \A r \in outA' \cup outB' : IsPacket(r) /\ DOMAIN r = DOMAIN packet
    BY <1>4, <1>7 DEF SplitInv, SplitTypes
  <2>2. IsNamed(packet)
    BY <1>5, RegularMeans
  <2>3. \A r \in outA' \cup outB' : IsNamed(r)
    BY <2>1, <2>2 DEF IsNamed
  <2>4. QED
    BY <1>4, <1>5, <2>3, RegularMeans
<1>9. seen' \cup todo' = SwitchFunction[Here]
  BY <1>2, <1>4, <1>5
<1>10. SwitchInv'
  BY <1>3, <1>5, <1>6, <1>7, <1>8, <1>9 DEF SwitchInv
<1>11. TypesInv' /\ LoopInv'
  BY <1>1, <1>3 DEF TypesInv, LoopInv
<1>12. SoundInv'
  BY <1>1, <1>3, <1>4 DEF SoundInv
<1>13. CompleteInv'
  BY <1>1, <1>3, <1>4 DEF CompleteInv
<1>14. QuietInv' /\ ClosedInv'
  <2>1. happened /\ ~ ending
    BY <1>1, <1>3 DEF LoopInv
  <2>2. QED
    BY <1>1, <2>1 DEF QuietInv, ClosedInv
<1>15. QED
  BY <1>10, <1>11, <1>12, <1>13, <1>14 DEF TypesInvariant

\* In the end of its loops, a switch has distributed what its packet stands for.
LEMMA SplitProduces ==
    ASSUME SwitchInv, LoopInv, phase = "split", todo = {}
    PROVE  /\ All(outA) = Produced(Here, Arriving(packet), Outputs[Here][1])
           /\ All(outB) = Produced(Here, Arriving(packet), Outputs[Here][2])
<1>1. /\ Kind[Here] = "switch" /\ seen = SwitchFunction[Here] /\ SplitInv
      /\ packet \in Regular
  BY DEF SwitchInv
<1>2. Here \in Components /\ Inputs[Here][1] \in Channels
  BY <1>1, HereIs, Ports
<1>3. OfOneKind
  BY DEF SwitchInv
<1>4. \A x : Matches(Here, x) <=> \E f \in seen : Accepts(f, x)
  BY <1>1 DEF Matches
<1>5. /\ All(outA) = {x \in PacketMeaning(packet) : Matches(Here, x)}
      /\ All(outB) = {x \in PacketMeaning(packet) : ~ Matches(Here, x)}
  BY <1>1, <1>3, <1>4 DEF SplitInv
<1>6. Arriving(packet)[Inputs[Here][1]] = PacketMeaning(packet)
  BY <1>2 DEF Arriving
<1> DEFINE A == Arriving(packet)
<1>7. /\ Outputs[Here][1] \in ToSet(Outputs[Here]) /\ Outputs[Here][2] \in ToSet(Outputs[Here])
      /\ Outputs[Here][1] # Outputs[Here][2]
  BY <1>1, <1>2, Ports
<1> HIDE DEF A
<1>8. /\ \A x : x \in Produced(Here, A, Outputs[Here][1]) <=>
                   x \in A[Inputs[Here][1]] /\ Matches(Here, x)
      /\ \A x : x \in Produced(Here, A, Outputs[Here][2]) <=>
                   x \in A[Inputs[Here][1]] /\ ~ Matches(Here, x)
  BY <1>1, <1>2, <1>7, ProducedBy
<1>9. QED
  BY <1>5, <1>6, <1>8 DEF A

LEMMA SplitDoneKeeps == TypesInvariant /\ SplitDone => TypesInvariant'
<1> SUFFICES ASSUME TypesInvariant, SplitDone PROVE TypesInvariant'
  OBVIOUS
<1> DEFINE o1 == Outputs[Here][1]
           o2 == Outputs[Here][2]
           A == Arriving(packet)
<1>1. /\ phase = "split" /\ todo = {} /\ phase' = "attach" /\ types' = types
      /\ pending' = ({o1} \X outA) \cup ({o2} \X outB)
      /\ order' = order /\ turn' = turn /\ port' = port /\ happened' = happened
      /\ changed' = changed /\ ending' = ending
  BY DEF SplitDone, loopVars
<1>2. /\ TypesInv /\ LoopInv /\ SwitchInv /\ SoundInv /\ CompleteInv /\ pending = {}
      /\ Here \in Components /\ Here' = Here /\ Input = Inputs[Here][port]
      /\ Input \in Channels /\ port \in DOMAIN Inputs[Here] /\ happened /\ ~ ending
  BY <1>1, HereIs DEF TypesInvariant, TypesInv, LoopInv, Here
<1>3. Kind[Here] = "switch" /\ outA \cup outB \subseteq Regular
  BY <1>1, <1>2 DEF SwitchInv
<1>4. o1 # o2 /\ ToSet(Outputs[Here]) = {o1, o2} /\ ToSet(Outputs[Here]) \subseteq Channels
      /\ DOMAIN Inputs[Here] = {1} /\ Input = Inputs[Here][1]
  BY <1>2, <1>3, Ports
<1>5. All(outA) = Produced(Here, A, o1) /\ All(outB) = Produced(Here, A, o2)
  BY <1>1, <1>2, SplitProduces
<1> HIDE DEF A, o1, o2
<1>6. /\ \A x : x \in Waiting(pending', o1) <=> x \in All(outA)
      /\ \A x : x \in Waiting(pending', o2) <=> x \in All(outB)
      /\ \A o : o \notin {o1, o2} => \A x : x \notin Waiting(pending', o)
  <2>1. \A a : a \in pending' <=> \/ \E q \in outA : a = <<o1, q>>
                                  \/ \E q \in outB : a = <<o2, q>>
    BY <1>1
  <2>2. ASSUME NEW o, NEW x
        PROVE  x \in Waiting(pending', o) <=>
                 \/ o = o1 /\ \E q \in outA : x \in PacketMeaning(q)
                 \/ o = o2 /\ \E q \in outB : x \in PacketMeaning(q)
    <3>1. ASSUME NEW a \in pending', a[1] = o, x \in PacketMeaning(a[2])
          PROVE  \/ o = o1 /\ \E q \in outA : x \in PacketMeaning(q)
                 \/ o = o2 /\ \E q \in outB : x \in PacketMeaning(q)
      BY <2>1, <3>1
    <3>2. ASSUME NEW q, (q \in outA /\ o = o1) \/ (q \in outB /\ o = o2), x \in PacketMeaning(q)
          PROVE  x \in Waiting(pending', o)
      <4> DEFINE a == <<o, q>>
      <4>1. a \in pending' /\ a[1] = o /\ a[2] = q
        BY <2>1, <3>2
      <4>2. QED
        BY <3>2, <4>1, WaitingIs
    <3>3. ASSUME x \in Waiting(pending', o)
          PROVE  \/ o = o1 /\ \E q \in outA : x \in PacketMeaning(q)
                 \/ o = o2 /\ \E q \in outB : x \in PacketMeaning(q)
      <4>1. PICK a \in pending' : a[1] = o /\ x \in PacketMeaning(a[2])
        BY <3>3, WaitingIs
      <4>2. QED
        BY <3>1, <4>1
    <3>4. ASSUME o = o1, NEW q \in outA, x \in PacketMeaning(q)
          PROVE  x \in Waiting(pending', o)
      BY <3>2, <3>4
    <3>5. ASSUME o = o2, NEW q \in outB, x \in PacketMeaning(q)
          PROVE  x \in Waiting(pending', o)
      BY <3>2, <3>5
    <3>6. QED
      BY ONLY <3>3, <3>4, <3>5
  <2>3. QED
    BY <1>4, <2>2, InAll
<1>7. ASSUME NEW o \in ToSet(Outputs[Here])
      PROVE  \A x : x \in Waiting(pending', o) <=> x \in Produced(Here, A, o)
  BY <1>4, <1>5, <1>6
<1>8. \A o \in Channels : Held(types, pending, o) = TypeMeaning(types[o])
  <2>1. \A o : \A x : x \notin Waiting(pending, o)
    BY <1>2, WaitingIs
  <2>2. QED
    BY <2>1 DEF Held
<1>9. TypesInv'
  <2>1. pending' \subseteq Channels \X Regular
    BY <1>1, <1>3, <1>4
  <2>2. QED
    BY <1>1, <1>2, <2>1 DEF TypesInv
<1>10. LoopInv' /\ SwitchInv' /\ QuietInv' /\ ClosedInv'
  BY <1>1, <1>2 DEF LoopInv, SwitchInv, QuietInv, ClosedInv, Phases
<1>11. SoundInv'
  <2> SUFFICES ASSUME NEW G, Closed(G), NEW o \in Channels
               PROVE  Held(types', pending', o) \subseteq G[o]
    BY <1>1 DEF SoundInv
  <2>1. TypeMeaning(types[o]) \subseteq G[o] /\ PacketMeaning(packet) \subseteq G[Input]
    BY <1>1, <1>2, <1>8 DEF SoundInv
  <2>2. Waiting(pending', o) \subseteq G[o]
    <3>1. CASE o \in ToSet(Outputs[Here])
      <4>1. \A n \in DOMAIN Inputs[Here] : A[Inputs[Here][n]] \subseteq G[Inputs[Here][n]]
        BY <1>2, <1>4, <2>1 DEF A, Arriving
      <4>2. Produced(Here, A, o) \subseteq Produced(Here, G, o)
        BY <1>2, <3>1, <4>1, ProducedGrows
      <4>3. Produced(Here, G, o) \subseteq G[o]
        BY <1>2, <3>1 DEF Closed
      <4>4. QED
        BY <1>7, <3>1, <4>2, <4>3
    <3>2. CASE o \notin ToSet(Outputs[Here])
      BY <1>4, <1>6, <3>2
    <3>3. QED
      BY <3>1, <3>2
  <2>3. QED
    BY <1>1, <2>1, <2>2 DEF Held
<1>12. CompleteInv'
  <2>1. ASSUME NEW c \in Components, NEW o \in ToSet(Outputs[c])
        PROVE  Produced(c, MarkedOf(types), o) \subseteq Held(types, pending', o)
    <3>1. Produced(c, MarkedOf(types), o) \subseteq
            TypeMeaning(types[o]) \cup (IF c = Here THEN Produced(c, A, o) ELSE {})
      <4>1. o \in Channels
        BY Ports
      <4>2. QED
        BY <1>1, <1>2, <1>8, <4>1 DEF CompleteInv, A
    <3>2. CASE c = Here
      BY <1>7, <3>1, <3>2 DEF Held
    <3>3. CASE c # Here
      BY <3>1, <3>3 DEF Held
    <3>4. QED
      BY <3>2, <3>3
  <2>2. \A o \in Channels : All(Emitted[o]) \subseteq Held(types, pending', o)
    BY <1>2, <1>8 DEF CompleteInv, Held
  <2>3. QED
    BY <1>1, <2>1, <2>2 DEF CompleteInv
<1>13. QED
  BY <1>9, <1>10, <1>11, <1>12 DEF TypesInvariant
------------------------------------------------------------------------------

\* What holds of the rounds after each of their steps, as long as the operations on packets
\* are exact: what is propagated, what is on its way, and that no flow has less.
THEOREM TypesInvariance ==
    ASSUME FunctionsMakePackets
    PROVE  Spec => [](precise => TypesInvariant)
<1>1. ASSUME precise => TypesInvariant, [Next]_vars PROVE precise' => TypesInvariant'
  <2>1. ASSUME TypesInvariant, Next, precise' PROVE TypesInvariant'
    <3>1. CASE Kind[Here] = "switch"
      BY <2>1, <3>1, AttachKeeps, AllAttachedKeeps, LookKeeps, EraseOneKeeps, EraseDoneKeeps,
         CombineOneKeeps, CombineDoneKeeps, ForwardSwitchKeeps, SplitOnKeeps, SplitDoneKeeps,
         ForwardDoneKeeps, NextInputKeeps, NextComponentKeeps, NextRoundKeeps DEF Next
    <3>2. CASE Kind[Here] # "switch"
      BY <2>1, <3>2, AttachKeeps, AllAttachedKeeps, LookKeeps, EraseOneKeeps, EraseDoneKeeps,
         CombineOneKeeps, CombineDoneKeeps, ForwardOtherKeeps, SplitOnKeeps, SplitDoneKeeps,
         ForwardDoneKeeps, NextInputKeeps, NextComponentKeeps, NextRoundKeeps DEF Next
    <3>3. QED
      BY <3>1, <3>2
  <2>2. ASSUME TypesInvariant, UNCHANGED vars PROVE TypesInvariant'
    <3>1. /\ types' = types /\ pending' = pending /\ phase' = phase /\ order' = order
          /\ turn' = turn /\ port' = port /\ happened' = happened /\ changed' = changed
          /\ ending' = ending /\ packet' = packet /\ todo' = todo /\ seen' = seen
          /\ outA' = outA /\ outB' = outB
      BY <2>2 DEF vars, loopVars, splitVars
    <3>2. TypesInv' /\ LoopInv' /\ Here' = Here /\ Input' = Input
      BY <2>2, <3>1 DEF TypesInvariant, TypesInv, LoopInv, Here, Input
    <3>3. SwitchInv'
      <4>1. (SplitInv => SplitInv') /\ (OfOneKind => OfOneKind')
        BY <3>1 DEF SplitInv, SplitTypes, OfOneKind
      <4>2. QED
        BY <2>2, <3>1, <3>2, <4>1 DEF TypesInvariant, SwitchInv
    <3>4. SoundInv' /\ CompleteInv'
      BY <2>2, <3>1, <3>2 DEF TypesInvariant, SoundInv, CompleteInv
    <3>5. QuietInv' /\ ClosedInv'
      BY <2>2, <3>1 DEF TypesInvariant, QuietInv, ClosedInv, Before
    <3>6. QED
      BY <3>2, <3>3, <3>4, <3>5 DEF TypesInvariant
  <2>3. precise' => precise
    BY <1>1 DEF Next, vars, Attach, AllAttached, Look, EraseOne, EraseDone, CombineOne,
       CombineDone, Forward, SplitOn, SplitDone, ForwardDone, NextInput, NextComponent, NextRound
  <2>4. QED
    BY <1>1, <2>1, <2>2, <2>3
<1>2. QED
  BY AtFirst, <1>1, PTL DEF Spec

\* In the end the types are a flow, and there is no smaller one: unless an operation on
\* packets was not exact.
TypesAreTheLeastFlow == phase = "done" /\ precise => IsLeastFlow(FlowOf(types))

\* Whatever the network, its loops and its functions, and in whatever order its components
\* are visited: when SymbolicTypes() is done, the types are what the sources emit and what
\* the components make of it, and nothing else, provided that no complements were combined,
\* no values of two kinds compared, and no function made more of a packet than of its values.
THEOREM TypesAreLeast ==
    ASSUME FunctionsMakePackets
    PROVE  Spec => []TypesAreTheLeastFlow
<1>1. (precise => TypesInvariant) => TypesAreTheLeastFlow
  <2> SUFFICES ASSUME TypesInvariant, phase = "done" PROVE IsLeastFlow(FlowOf(types))
    BY DEF TypesAreTheLeastFlow
  <2>1. Closed(FlowOf(types))
    BY DEF TypesInvariant, LoopInv, ClosedInv
  <2>2. ASSUME NEW G, Closed(G) PROVE \A o \in Channels : FlowOf(types)[o] \subseteq G[o]
    BY <2>2 DEF TypesInvariant, SoundInv, Held, FlowOf
  <2>3. QED
    BY <2>1, <2>2 DEF IsLeastFlow
<1>2. QED
  BY TypesInvariance, <1>1, PTL

\* So they are exactly the values that can reach the channels, if every operation was exact.
THEOREM TypesAlwaysExact ==
    ASSUME FunctionsMakePackets, IsLeastFlow(Reachable)
    PROVE  Spec => []TypesAreExact
<1>1. TypesAreTheLeastFlow => TypesAreExact
  <2> SUFFICES ASSUME IsLeastFlow(FlowOf(types)), NEW o \in Channels
               PROVE  TypeMeaning(types[o]) = Reachable[o]
    BY DEF TypesAreTheLeastFlow, TypesAreExact
  <2>1. FlowOf(types)[o] \subseteq Reachable[o] /\ Reachable[o] \subseteq FlowOf(types)[o]
    BY DEF IsLeastFlow
  <2>2. QED
    BY <2>1 DEF FlowOf
<1>2. QED
  BY TypesAreLeast, <1>1, PTL
------------------------------------------------------------------------------
(* Packet expressions.                                                      *)

\* The packets that the parser keeps, and what it keeps of an expression.
KeyPackets == UNION {[K -> Fields] : K \in SUBSET Keys}

Operands == [set : SUBSET KeyPackets, says : SUBSET Valuations, plain : BOOLEAN, length : Nat]

LEMMA KeyPacketIs ==
    \A p : p \in KeyPackets <=> DOMAIN p \subseteq Keys /\ p \in [DOMAIN p -> Fields]
BY DEF KeyPackets

LEMMA OperandIs ==
    ASSUME NEW set \in SUBSET KeyPackets, NEW says \in SUBSET Valuations, NEW plain \in BOOLEAN,
           NEW length \in Nat
    PROVE  /\ Operand(set, says, plain, length) \in Operands
           /\ Operand(set, says, plain, length).set = set
           /\ Operand(set, says, plain, length).says = says
           /\ Operand(set, says, plain, length).plain = plain
           /\ Operand(set, says, plain, length).length = length
BY DEF Operands, Operand

\* e means what it says, if the parser promises so.
Exact(e) == e.plain => Denotes(e.set) = e.says

LEMMA DenotesIs ==
    ASSUME NEW set, NEW x \in Valuations
    PROVE  x \in Denotes(set) <=> \E p \in set : Accepts(p, x)
BY DEF Denotes, Accepts

LEMMA DenotesIn == \A set : Denotes(set) \subseteq Valuations
BY DEF Denotes

\* An element of a meaning is a name or a number, according to the kind of the field.
LEMMA KindOfValue ==
    ASSUME NEW f \in Fields, NEW v \in Meaning(f)
    PROVE  /\ f.kind = "any" => v \in Values
           /\ f.kind = "enum" => v \in Letters \cup {Other} /\ v \notin Int
           /\ f.kind = "interval" => v \in Int
<1>1. CASE f.kind = "any"
  BY <1>1 DEF Meaning
<1>2. CASE f.kind = "enum"
  <2>1. v \in Letters \cup {Other}
    BY <1>2, FieldCases
  <2>2. QED
    BY <1>2, <2>1, ExpressionsAssumption
<1>3. CASE f.kind = "interval"
  BY <1>3, FieldCases
<1>4. QED
  BY <1>1, <1>2, <1>3, FieldCases

\* There is one field for what two of a kind have in common, or none.
LEMMA OneIntersection ==
    ASSUME NEW f \in Fields, NEW g \in Fields
    PROVE  \A h \in FieldIntersection(f, g), i \in FieldIntersection(f, g) : h = i
<1>1. CASE f.kind = "any"
  BY <1>1 DEF FieldIntersection
<1>2. CASE f.kind # "any" /\ f.kind # g.kind
  BY <1>2 DEF FieldIntersection
<1>3. CASE f.kind = "enum" /\ g.kind = "enum"
  BY <1>3 DEF FieldIntersection
<1>4. CASE f.kind = "interval" /\ g.kind = "interval"
  BY <1>4 DEF FieldIntersection, IntervalIntersection
<1>5. QED
  BY <1>1, <1>2, <1>3, <1>4, FieldCases

\* Fields that are met, the first of which is not narrower than a bare name on the right.
LEMMA FieldsMeet ==
    ASSUME NEW f \in Fields, NEW g \in Fields, g.kind = "any" => f.kind = "any",
           NEW v \in Values
    PROVE  /\ FieldIntersection(f, g) = {} => ~ (v \in Meaning(f) /\ v \in Meaning(g))
           /\ \A h \in FieldIntersection(f, g) :
                 v \in Meaning(h) <=> v \in Meaning(f) /\ v \in Meaning(g)
<1> DEFINE F == FieldIntersection(f, g)
<1>1. CASE f.kind = "any"
  <2>1. F = {g} /\ Meaning(f) = Values
    BY <1>1 DEF FieldIntersection, Meaning
  <2>2. QED
    BY <2>1
<1>2. CASE f.kind # "any" /\ f.kind # g.kind
  <2>1. F = {}
    BY <1>2 DEF FieldIntersection
  <2>2. g.kind # "any"
    BY <1>2
  <2>3. ~ (v \in Meaning(f) /\ v \in Meaning(g))
    <3>1. f.kind \in {"any", "enum", "interval"} /\ g.kind \in {"any", "enum", "interval"}
      BY FieldCases
    <3>2. QED
      BY <1>2, <2>2, <3>1, KindOfValue
  <2>4. QED
    BY <2>1, <2>3
<1>3. CASE f.kind = g.kind /\ f.kind # "any"
  <2>1. Together(F) = Meaning(f) \cap Meaning(g)
    BY <1>3, IntersectionOfFields
  <2>2. \A h \in F : Together(F) = Meaning(h)
    BY OneIntersection DEF Together
  <2>3. F = {} => Together(F) = {}
    BY DEF Together
  <2>4. QED
    BY <2>1, <2>2, <2>3
<1>4. QED
  BY <1>1, <1>2, <1>3

\* A condition on every field of a packet.
LEMMA RestrictedMeans ==
    ASSUME NEW p \in KeyPackets, NEW f \in Fields, f.kind # "any", ~ Empty(p, f)
    PROVE  /\ Restricted(p, f) \in KeyPackets /\ DOMAIN Restricted(p, f) = DOMAIN p
           /\ \A x \in Valuations : Accepts(Restricted(p, f), x) <=>
                 Accepts(p, x) /\ \A k \in DOMAIN p : x[k] \in Meaning(f)
<1> DEFINE r == Restricted(p, f)
<1>0. DOMAIN p \subseteq Keys /\ \A k \in DOMAIN p : p[k] \in Fields
  BY KeyPacketIs
<1>1. \A k \in DOMAIN p : FieldIntersection(p[k], f) # {}
  BY DEF Empty
<1>2. DOMAIN r = DOMAIN p /\ r = [k \in DOMAIN p |-> r[k]]
      /\ \A k \in DOMAIN p : r[k] = CHOOSE g \in FieldIntersection(p[k], f) : TRUE
  BY DEF Restricted
<1> HIDE DEF r
<1>3. \A k \in DOMAIN p : r[k] \in FieldIntersection(p[k], f)
  BY <1>1, <1>2
<1>4. \A k \in DOMAIN p : FieldIntersection(p[k], f) \subseteq Fields
  BY <1>0, IntersectionOfFields
<1>5. r \in KeyPackets
  BY <1>0, <1>2, <1>3, <1>4, KeyPacketIs
<1>6. ASSUME NEW x \in Valuations, NEW k \in DOMAIN p
      PROVE  x[k] \in Meaning(r[k]) <=> x[k] \in Meaning(p[k]) /\ x[k] \in Meaning(f)
  <2>1. x[k] \in Values /\ p[k] \in Fields
    BY <1>0 DEF Valuations
  <2>2. QED
    BY <1>3, <2>1, FieldsMeet
<1>7. \A x \in Valuations : Accepts(r, x) <=>
                 Accepts(p, x) /\ \A k \in DOMAIN p : x[k] \in Meaning(f)
  BY <1>2, <1>6 DEF Accepts
<1>8. QED
  BY <1>2, <1>5, <1>7 DEF r

\* Two packets at once.
LEMMA BothAre ==
    ASSUME NEW p \in KeyPackets, NEW r \in KeyPackets, NEW q \in Both(p, r)
    PROVE  /\ q \in KeyPackets /\ DOMAIN q = DOMAIN p \cup DOMAIN r
           /\ \A k \in DOMAIN p \cap DOMAIN r : q[k] \in FieldIntersection(p[k], r[k])
           /\ \A k \in DOMAIN p : k \notin DOMAIN r => q[k] = p[k]
           /\ \A k \in DOMAIN r : k \notin DOMAIN p => q[k] = r[k]
<1> DEFINE common == DOMAIN p \cap DOMAIN r
<1>0. /\ DOMAIN p \subseteq Keys /\ \A k \in DOMAIN p : p[k] \in Fields
      /\ DOMAIN r \subseteq Keys /\ \A k \in DOMAIN r : r[k] \in Fields
  BY KeyPacketIs
<1>1. \A k \in common : FieldIntersection(p[k], r[k]) # {}
  BY DEF Both
<1>2. q = [k \in DOMAIN p \cup DOMAIN r |->
             IF k \in common THEN CHOOSE f \in FieldIntersection(p[k], r[k]) : TRUE
             ELSE IF k \in DOMAIN p THEN p[k] ELSE r[k]]
  BY DEF Both
<1>3. DOMAIN q = DOMAIN p \cup DOMAIN r /\ q = [k \in DOMAIN q |-> q[k]]
  BY <1>2
<1>4. \A k \in common : q[k] \in FieldIntersection(p[k], r[k])
  BY <1>1, <1>2
<1>5. /\ \A k \in DOMAIN p : k \notin DOMAIN r => q[k] = p[k]
      /\ \A k \in DOMAIN r : k \notin DOMAIN p => q[k] = r[k]
  BY <1>2
<1>6. \A k \in common : FieldIntersection(p[k], r[k]) \subseteq Fields
  BY <1>0, IntersectionOfFields
<1>7. \A k \in DOMAIN q : q[k] \in Fields
  BY <1>0, <1>3, <1>4, <1>5, <1>6
<1>8. q \in KeyPackets
  BY <1>0, <1>3, <1>7, KeyPacketIs
<1>9. QED
  BY <1>3, <1>4, <1>5, <1>8

LEMMA BothMean ==
    ASSUME NEW p \in KeyPackets, NEW r \in KeyPackets, NEW x \in Valuations,
           \A k \in DOMAIN p \cap DOMAIN r : r[k] = AnyField => p[k] = AnyField
    PROVE  Accepts(p, x) /\ Accepts(r, x) <=> \E q \in Both(p, r) : Accepts(q, x)
<1> DEFINE common == DOMAIN p \cap DOMAIN r
<1>0. /\ DOMAIN p \subseteq Keys /\ \A k \in DOMAIN p : p[k] \in Fields
      /\ DOMAIN r \subseteq Keys /\ \A k \in DOMAIN r : r[k] \in Fields
  BY KeyPacketIs
<1>1. ASSUME NEW k \in common
      PROVE  /\ FieldIntersection(p[k], r[k]) = {} =>
                   ~ (x[k] \in Meaning(p[k]) /\ x[k] \in Meaning(r[k]))
             /\ \A h \in FieldIntersection(p[k], r[k]) :
                   x[k] \in Meaning(h) <=> x[k] \in Meaning(p[k]) /\ x[k] \in Meaning(r[k])
  <2>1. x[k] \in Values /\ p[k] \in Fields /\ r[k] \in Fields
    BY <1>0 DEF Valuations
  <2>2. r[k].kind = "any" => p[k].kind = "any"
    BY <2>1, FieldCases DEF AnyField
  <2>3. QED
    BY <2>1, <2>2, FieldsMeet
<1>2. ASSUME Accepts(p, x), Accepts(r, x)
      PROVE  \E q \in Both(p, r) : TRUE
  <2>1. \A k \in common : FieldIntersection(p[k], r[k]) # {}
    BY <1>1, <1>2 DEF Accepts
  <2>2. QED
    BY <2>1 DEF Both
<1>3. ASSUME NEW q \in Both(p, r)
      PROVE  Accepts(q, x) <=> Accepts(p, x) /\ Accepts(r, x)
  <2>1. /\ DOMAIN q = DOMAIN p \cup DOMAIN r
        /\ \A k \in DOMAIN p \cap DOMAIN r : q[k] \in FieldIntersection(p[k], r[k])
        /\ \A k \in DOMAIN p : k \notin DOMAIN r => q[k] = p[k]
        /\ \A k \in DOMAIN r : k \notin DOMAIN p => q[k] = r[k]
    <3>1. \A y \in Both(p, r) :
             /\ DOMAIN y = DOMAIN p \cup DOMAIN r
             /\ \A k \in DOMAIN p \cap DOMAIN r : y[k] \in FieldIntersection(p[k], r[k])
             /\ \A k \in DOMAIN p : k \notin DOMAIN r => y[k] = p[k]
             /\ \A k \in DOMAIN r : k \notin DOMAIN p => y[k] = r[k]
      BY BothAre
    <3>2. QED
      BY <3>1
  <2>2. \A k \in common :
           x[k] \in Meaning(q[k]) <=> x[k] \in Meaning(p[k]) /\ x[k] \in Meaning(r[k])
    BY <1>1, <2>1
  <2>3. ASSUME Accepts(q, x)
        PROVE  Accepts(p, x) /\ Accepts(r, x)
    <3>1. \A k \in DOMAIN p \cup DOMAIN r : x[k] \in Meaning(q[k])
      BY <2>1, <2>3 DEF Accepts
    <3>2. \A k \in DOMAIN p : x[k] \in Meaning(p[k])
      BY <2>1, <2>2, <3>1
    <3>3. \A k \in DOMAIN r : x[k] \in Meaning(r[k])
      BY <2>1, <2>2, <3>1
    <3>4. QED
      BY <3>2, <3>3 DEF Accepts
  <2>4. ASSUME Accepts(p, x), Accepts(r, x)
        PROVE  Accepts(q, x)
    <3>1. \A k \in DOMAIN q : x[k] \in Meaning(q[k])
      BY <2>1, <2>2, <2>4 DEF Accepts
    <3>2. QED
      BY <3>1 DEF Accepts
  <2>5. QED
    BY <2>3, <2>4
<1>4. QED
  BY <1>2, <1>3

LEMMA AndAre ==
    ASSUME NEW S \in SUBSET KeyPackets, NEW T \in SUBSET KeyPackets
    PROVE  PerformAnd(S, T) \subseteq KeyPackets
<1>1. ASSUME NEW p \in S, NEW r \in T, NEW q \in Both(p, r)
      PROVE  q \in KeyPackets
  <2>1. p \in KeyPackets /\ r \in KeyPackets
    OBVIOUS
  <2>2. QED
    BY <2>1, BothAre
<1>2. QED
  BY <1>1 DEF PerformAnd

LEMMA AndMeans ==
    ASSUME NEW e \in Operands, NEW n \in Operands, Ordered(e, n)
    PROVE  Denotes(PerformAnd(e.set, n.set)) = Denotes(e.set) \cap Denotes(n.set)
<1>0. e.set \subseteq KeyPackets /\ n.set \subseteq KeyPackets
  BY DEF Operands
<1>1. ASSUME NEW x \in Valuations
      PROVE  x \in Denotes(PerformAnd(e.set, n.set)) <=>
               x \in Denotes(e.set) /\ x \in Denotes(n.set)
  <2>1. x \in Denotes(PerformAnd(e.set, n.set)) <=>
          \E p \in e.set, r \in n.set : \E q \in Both(p, r) : Accepts(q, x)
    BY DenotesIs DEF PerformAnd
  <2>2. \A p \in e.set, r \in n.set :
           Accepts(p, x) /\ Accepts(r, x) <=> \E q \in Both(p, r) : Accepts(q, x)
    BY <1>0, BothMean DEF Ordered
  <2>3. QED
    BY <2>1, <2>2, DenotesIs
<1>2. QED
  BY <1>1, DenotesIn

LEMMA OrMeans ==
    ASSUME NEW S, NEW T
    PROVE  Denotes(PerformOr(S, T)) = Denotes(S) \cup Denotes(T)
BY DEF PerformOr, Denotes

\* The values of which the negation of a field takes the others.
Others(f) == CASE f.kind = "any" -> Values
               [] f.kind = "interval" -> 0 .. MaxValue - 1
               [] f.kind = "enum" -> Letters \cup {Other}

LEMMA NegatedFields ==
    ASSUME NEW f \in Fields
    PROVE  FieldNegate(f) \subseteq Fields
<1>1. CASE f.kind = "any"
  BY <1>1 DEF FieldNegate
<1>2. CASE f.kind = "enum"
  <2>1. f.values \in SUBSET Letters /\ (~ f.complement) \in BOOLEAN
    BY <1>2, FieldCases
  <2>2. Enum(f.values, ~ f.complement) \in Fields
    BY ONLY <2>1, EnumMeaning
  <2>3. QED
    BY <1>2, <2>2 DEF FieldNegate
<1>3. CASE f.kind = "interval"
  <2>1. f.min \in Int /\ f.max \in Int /\ 0 \in Int /\ MaxValue \in Int
    BY <1>3, FieldCases, PacketsAssumption
  <2>2. Interval(0, f.min) \in Fields /\ Interval(f.max, MaxValue) \in Fields
    BY ONLY <2>1, IntervalMeaning
  <2>3. QED
    BY <1>3, <2>2 DEF FieldNegate
<1>4. QED
  BY <1>1, <1>2, <1>3, FieldCases

\* A field and its negation share the values of the kind of the field.
LEMMA NegatedMeans ==
    ASSUME NEW f \in Fields, NEW v \in Values
    PROVE  (\E g \in FieldNegate(f) : v \in Meaning(g)) <=> v \in Others(f) /\ v \notin Meaning(f)
<1>1. CASE f.kind = "any"
  BY <1>1 DEF FieldNegate, Others, Meaning
<1>2. CASE f.kind = "enum"
  <2>1. /\ f.values \in SUBSET Letters /\ f.complement \in BOOLEAN
        /\ Meaning(f) = IF f.complement THEN (Letters \cup {Other}) \ f.values ELSE f.values
    BY <1>2, FieldCases
  <2>2. FieldNegate(f) = {Enum(f.values, ~ f.complement)}
    BY <1>2 DEF FieldNegate
  <2>3. Meaning(Enum(f.values, ~ f.complement))
          = IF ~ f.complement THEN (Letters \cup {Other}) \ f.values ELSE f.values
    BY <2>1, EnumMeaning
  <2>4. Others(f) = Letters \cup {Other}
    BY <1>2 DEF Others
  <2>5. QED
    BY <2>1, <2>2, <2>3, <2>4
<1>3. CASE f.kind = "interval"
  <2>0. MaxValue \in Nat
    BY PacketsAssumption
  <2>1. /\ f.min \in Int /\ f.max \in Int
        /\ Meaning(f) = f.min .. f.max - 1
    BY <1>3, FieldCases
  <2>2. Others(f) = 0 .. MaxValue - 1
    BY <1>3 DEF Others
  <2> DEFINE below == Interval(0, f.min)
             above == Interval(f.max, MaxValue)
  <2>3. \A g : g \in FieldNegate(f) <=> \/ f.min > 0 /\ g = below
                                        \/ f.max < MaxValue /\ g = above
    <3>1. FieldNegate(f) = (IF f.min > 0 THEN {below} ELSE {})
                           \cup (IF f.max < MaxValue THEN {above} ELSE {})
      BY <1>3 DEF FieldNegate
    <3> HIDE DEF below, above
    <3>2. QED
      BY <2>0, <2>1, <3>1
  <2>4. Meaning(below) = 0 .. f.min - 1
    <3>1. 0 \in Int /\ f.min \in Int
      BY <2>1
    <3>2. QED
      BY ONLY <3>1, IntervalMeaning
  <2>5. Meaning(above) = f.max .. MaxValue - 1
    <3>1. f.max \in Int /\ MaxValue \in Int
      BY <2>0, <2>1
    <3>2. QED
      BY ONLY <3>1, IntervalMeaning
  <2> HIDE DEF below, above
  <2>6. (\E g \in FieldNegate(f) : v \in Meaning(g)) <=>
          \/ f.min > 0 /\ v \in 0 .. f.min - 1
          \/ f.max < MaxValue /\ v \in f.max .. MaxValue - 1
    <3>1. (\E g \in FieldNegate(f) : v \in Meaning(g)) <=>
            \/ f.min > 0 /\ v \in Meaning(below)
            \/ f.max < MaxValue /\ v \in Meaning(above)
      BY ONLY <2>3
    <3>2. QED
      BY ONLY <2>4, <2>5, <3>1
  <2>7. CASE v \in Int
    <3>1. v \in 0 .. MaxValue - 1
      BY <2>7, ExpressionsAssumption DEF Values
    <3>2. QED
      BY <2>0, <2>1, <2>2, <2>6, <3>1
  <2>8. CASE v \notin Int
    <3>1. \A i, j \in Int : v \notin i .. j
      BY <2>8
    <3>2. /\ v \notin 0 .. f.min - 1 /\ v \notin f.max .. MaxValue - 1
          /\ v \notin 0 .. MaxValue - 1
      BY <2>0, <2>1, <2>8
    <3>3. QED
      BY <2>2, <2>6, <3>2
  <2>9. QED
    BY <2>7, <2>8
<1>4. QED
  BY <1>1, <1>2, <1>3, FieldCases

LEMMA NegatedAre ==
    ASSUME NEW S \in SUBSET KeyPackets
    PROVE  Negated(S) \subseteq KeyPackets
<1>1. ASSUME NEW p \in S, NEW r \in PacketNegate(p)
      PROVE  r \in KeyPackets
  <2>1. DOMAIN p \subseteq Keys /\ \A k \in DOMAIN p : p[k] \in Fields
    BY KeyPacketIs
  <2>2. /\ r \in [DOMAIN p -> UNION {FieldNegate(p[k]) : k \in DOMAIN p}]
        /\ \A k \in DOMAIN p : r[k] \in FieldNegate(p[k])
    BY DEF PacketNegate
  <2>3. \A k \in DOMAIN p : FieldNegate(p[k]) \subseteq Fields
    BY <2>1, NegatedFields
  <2>4. r \in [DOMAIN p -> Fields]
    BY <2>2, <2>3
  <2>5. QED
    BY <2>1, <2>4 DEF KeyPackets
<1>2. QED
  BY <1>1 DEF Negated

LEMMA ComplementIn == \A e : Complement(e) \subseteq Valuations
BY DEF Complement

\* Of one packet with one field, negate() gives the others.
LEMMA NegationMeans ==
    ASSUME NEW e \in Operands, Negatable(e), Denotes(e.set) = e.says
    PROVE  Denotes(Negated(e.set)) = Complement(e)
<1>1. PICK p \in e.set : e.set = {p} /\ \E k \in DOMAIN p : DOMAIN p = {k}
  BY DEF Negatable
<1>2. PICK k \in DOMAIN p : DOMAIN p = {k}
  BY <1>1
<1>3. k \in Keys /\ p[k] \in Fields
  BY <1>2, KeyPacketIs DEF Operands
<1>4. Complement(e) = {x \in Valuations : x[k] \in Others(p[k])} \ e.says
  <2>1. (CHOOSE q \in e.set : TRUE) = p
    BY <1>1
  <2>2. (CHOOSE key \in DOMAIN p : TRUE) = k
    BY <1>2
  <2>3. QED
    BY <2>1, <2>2 DEF Complement, Others
<1>5. \A x \in Valuations : x \in e.says <=> x[k] \in Meaning(p[k])
  BY <1>1, <1>2, DenotesIs DEF Accepts
<1>6. ASSUME NEW x \in Valuations
      PROVE  x \in Denotes(Negated(e.set)) <=> \E g \in FieldNegate(p[k]) : x[k] \in Meaning(g)
  <2>1. Negated(e.set) = PacketNegate(p)
    BY <1>1 DEF Negated
  <2>2. \A r : r \in PacketNegate(p) <=>
           r \in [{k} -> FieldNegate(p[k])]
    <3>1. UNION {FieldNegate(p[j]) : j \in DOMAIN p} = FieldNegate(p[k])
      BY <1>2
    <3>2. QED
      BY <1>2, <3>1 DEF PacketNegate
  <2>3. ASSUME NEW g \in FieldNegate(p[k])
        PROVE  [j \in {k} |-> g] \in PacketNegate(p)
    BY <2>2
  <2>4. ASSUME NEW r \in PacketNegate(p)
        PROVE  r[k] \in FieldNegate(p[k]) /\ DOMAIN r = {k}
    BY <2>2
  <2>5. ASSUME NEW r \in PacketNegate(p), Accepts(r, x)
        PROVE  \E g \in FieldNegate(p[k]) : x[k] \in Meaning(g)
    BY <2>4, <2>5 DEF Accepts
  <2>6. ASSUME NEW g \in FieldNegate(p[k]), x[k] \in Meaning(g)
        PROVE  \E r \in PacketNegate(p) : Accepts(r, x)
    <3>1. Accepts([j \in {k} |-> g], x)
      BY <2>6 DEF Accepts
    <3>2. QED
      BY <2>3, <3>1
  <2>7. QED
    BY <2>1, <2>5, <2>6, DenotesIs
<1>7. ASSUME NEW x \in Valuations
      PROVE  x \in Denotes(Negated(e.set)) <=> x \in Complement(e)
  <2>1. x[k] \in Values
    BY <1>3 DEF Valuations
  <2>2. QED
    BY <1>3, <1>4, <1>5, <1>6, <2>1, NegatedMeans
<1>8. QED
  BY <1>7, DenotesIn, ComplementIn

LEMMA WithinIn ==
    ASSUME NEW e \in Operands, NEW range
    PROVE  Within(e, range) \subseteq Valuations
BY DEF Within, Operands

\* If all packets have the same fields, a condition on each of them is one on the values.
LEMMA WithinMeans ==
    ASSUME NEW e \in Operands, Uniform(e), Denotes(e.set) = e.says, NEW range,
           NEW set, NEW m,
           \A q \in set : \E p \in e.set : q = m[p],
           \A p \in e.set : m[p] \in set,
           \A p \in e.set, x \in Valuations :
              Accepts(m[p], x) <=> Accepts(p, x) /\ \A k \in DOMAIN p : x[k] \in range
    PROVE  Denotes(set) = Within(e, range)
<1>1. ASSUME NEW x \in Valuations
      PROVE  x \in Denotes(set) <=> x \in Within(e, range)
  <2>1. x \in Denotes(set) <=> \E p \in e.set : Accepts(m[p], x)
    BY DenotesIs
  <2>2. x \in e.says <=> \E p \in e.set : Accepts(p, x)
    BY DenotesIs
  <2>3. \A p \in e.set : DOMAIN p = Mentioned(e)
    BY DEF Uniform
  <2>4. x \in Within(e, range) <=> x \in e.says /\ \A k \in Mentioned(e) : x[k] \in range
    BY DEF Within
  <2>5. QED
    BY <2>1, <2>2, <2>3, <2>4
<1>2. QED
  BY <1>1, DenotesIn, WithinIn

\* A comparison of a field, if it narrows it.
LEMMA NarrowedMeans ==
    ASSUME NEW f \in Fields, NEW lo \in Int, NEW hi \in Int, NEW v \in Values
    PROVE  /\ Below(f, hi) \in Fields /\ Above(f, lo) \in Fields
           /\ Narrows(f, Below(f, hi)) =>
                (v \in Meaning(Below(f, hi)) <=> v \in Meaning(f) /\ v \in 0 .. hi - 1)
           /\ Narrows(f, Above(f, lo)) =>
                (v \in Meaning(Above(f, lo)) <=> v \in Meaning(f) /\ v \in lo .. MaxValue - 1)
<1>0. MaxValue \in Int /\ 0 \in Int
  BY PacketsAssumption
<1>1. CASE f.kind = "any"
  <2>1. /\ Below(f, hi) = Interval(0, hi) /\ Above(f, lo) = Interval(lo, MaxValue)
        /\ v \in Meaning(f)
    BY <1>1 DEF Below, Above, Meaning
  <2>2. /\ Interval(0, hi) \in Fields /\ Meaning(Interval(0, hi)) = 0 .. hi - 1
    BY <1>0, IntervalMeaning
  <2>3. Interval(lo, MaxValue) \in Fields /\ Meaning(Interval(lo, MaxValue)) = lo .. MaxValue - 1
    BY <1>0, IntervalMeaning
  <2>4. QED
    BY <2>1, <2>2, <2>3
<1>2. CASE f.kind = "enum"
  BY <1>2 DEF Below, Above, Narrows
<1>3. CASE f.kind = "interval"
  <2>1. /\ f.min \in Int /\ f.max \in Int /\ f = Interval(f.min, f.max)
        /\ Meaning(f) = f.min .. f.max - 1
    BY <1>3, FieldCases
  <2>2. Below(f, hi) = Interval(f.min, hi) /\ Above(f, lo) = Interval(lo, f.max)
    <3>1. Below(f, hi) = [f EXCEPT !.max = hi] /\ Above(f, lo) = [f EXCEPT !.min = lo]
      BY <1>3 DEF Below, Above
    <3>2. f = [kind |-> "interval", min |-> f.min, max |-> f.max]
      BY <2>1 DEF Interval
    <3>3. [f EXCEPT !.max = hi] = [kind |-> "interval", min |-> f.min, max |-> hi]
      BY <3>2
    <3>4. [f EXCEPT !.min = lo] = [kind |-> "interval", min |-> lo, max |-> f.max]
      BY <3>2
    <3>5. QED
      BY <3>1, <3>3, <3>4 DEF Interval
  <2>3. /\ Below(f, hi) \in Fields /\ Meaning(Below(f, hi)) = f.min .. hi - 1
        /\ Below(f, hi).min = f.min /\ Below(f, hi).max = hi
    <3>1. f.min \in Int /\ hi \in Int
      BY <2>1
    <3>2. /\ Interval(f.min, hi) \in Fields /\ Meaning(Interval(f.min, hi)) = f.min .. hi - 1
          /\ Interval(f.min, hi).min = f.min /\ Interval(f.min, hi).max = hi
      BY ONLY <3>1, IntervalMeaning
    <3>3. QED
      BY ONLY <2>2, <3>2
  <2>4. /\ Above(f, lo) \in Fields /\ Meaning(Above(f, lo)) = lo .. f.max - 1
        /\ Above(f, lo).min = lo /\ Above(f, lo).max = f.max
    <3>1. lo \in Int /\ f.max \in Int
      BY <2>1
    <3>2. /\ Interval(lo, f.max) \in Fields /\ Meaning(Interval(lo, f.max)) = lo .. f.max - 1
          /\ Interval(lo, f.max).min = lo /\ Interval(lo, f.max).max = f.max
      BY ONLY <3>1, IntervalMeaning
    <3>3. QED
      BY ONLY <2>2, <3>2
  <2>5. CASE v \in Int
    <3>1. v \in 0 .. MaxValue - 1
      BY <2>5, ExpressionsAssumption DEF Values
    <3>2. Narrows(f, Below(f, hi)) => hi <= f.max
      BY <1>3, <2>3 DEF Narrows
    <3>3. Narrows(f, Above(f, lo)) => f.min <= lo
      BY <1>3, <2>4 DEF Narrows
    <3>4. QED
      BY <1>0, <2>1, <2>3, <2>4, <3>1, <3>2, <3>3
  <2>6. CASE v \notin Int
    <3>1. /\ v \notin f.min .. f.max - 1 /\ v \notin f.min .. hi - 1 /\ v \notin lo .. f.max - 1
      BY <2>1, <2>6
    <3>2. QED
      BY <2>1, <2>3, <2>4, <3>1
  <2>7. QED
    BY <2>5, <2>6
<1>4. QED
  BY <1>1, <1>2, <1>3, FieldCases

\* Expressions are only what the parser keeps of them, and those mean what they say.
ExprInvariant ==
    /\ operands \in Seq(Operands)
    /\ crashed \in BOOLEAN
    /\ ExpressionMeansWhatItSays

LEMMA InvariantIs ==
    ExprInvariant <=> /\ operands \in Seq(Operands) /\ crashed \in BOOLEAN
                      /\ \A i \in 1 .. Len(operands) : Exact(operands[i])
<1>1. ASSUME operands \in Seq(Operands)
      PROVE  DOMAIN operands = 1 .. Len(operands)
  BY <1>1
<1>2. QED
  BY <1>1 DEF ExprInvariant, ExpressionMeansWhatItSays, Exact

LEMMA InvariantNext ==
    ASSUME operands' \in Seq(Operands), crashed' \in BOOLEAN,
           \A i \in 1 .. Len(operands') : Exact(operands'[i])
    PROVE  ExprInvariant'
<1>1. DOMAIN (operands') = 1 .. Len(operands')
  OBVIOUS
<1>2. QED
  BY <1>1 DEF ExprInvariant, ExpressionMeansWhatItSays, Exact, Denotes, Valuations, Values

LEMMA InnermostIs ==
    ASSUME ExprInvariant, operands # <<>>
    PROVE  /\ Len(operands) \in 1 .. Len(operands)
           /\ Innermost \in Operands /\ Exact(Innermost)
<1>1. operands \in Seq(Operands) /\ Len(operands) \in 1 .. Len(operands)
  BY DEF ExprInvariant
<1>2. QED
  BY <1>1, InvariantIs DEF Innermost

LEMMA ReplaceKeeps ==
    ASSUME ExprInvariant, operands # <<>>, NEW e \in Operands, Exact(e), Replace(e),
           UNCHANGED crashed
    PROVE  ExprInvariant'
<1>1. /\ operands \in Seq(Operands) /\ crashed \in BOOLEAN
      /\ \A i \in 1 .. Len(operands) : Exact(operands[i])
  BY InvariantIs
<1>2. operands' = [operands EXCEPT ![Len(operands)] = e]
  BY DEF Replace
<1>3. /\ operands' \in Seq(Operands) /\ Len(operands') = Len(operands)
      /\ \A i \in 1 .. Len(operands) :
            operands'[i] = IF i = Len(operands) THEN e ELSE operands[i]
  BY <1>1, <1>2
<1>4. QED
  BY <1>1, <1>3, InvariantNext

LEMMA AppendKeeps ==
    ASSUME ExprInvariant, NEW e \in Operands, Exact(e), operands' = Append(operands, e),
           UNCHANGED crashed
    PROVE  ExprInvariant'
<1>1. /\ operands \in Seq(Operands) /\ crashed \in BOOLEAN
      /\ \A i \in 1 .. Len(operands) : Exact(operands[i])
  BY InvariantIs
<1>2. /\ operands' \in Seq(Operands) /\ Len(operands') = Len(operands) + 1
      /\ \A i \in 1 .. Len(operands) + 1 :
            operands'[i] = IF i = Len(operands) + 1 THEN e ELSE operands[i]
  BY <1>1
<1>3. QED
  BY <1>1, <1>2, InvariantNext

LEMMA ReplaceTwoKeeps ==
    ASSUME ExprInvariant, Len(operands) >= 2, NEW e \in Operands, Exact(e), ReplaceTwo(e),
           UNCHANGED crashed
    PROVE  ExprInvariant'
<1>1. /\ operands \in Seq(Operands) /\ crashed \in BOOLEAN
      /\ \A i \in 1 .. Len(operands) : Exact(operands[i])
  BY InvariantIs
<1> DEFINE rest == SubSeq(operands, 1, Len(operands) - 2)
           m == Len(operands) - 2
<1>2. m \in Nat /\ m <= Len(operands)
  BY <1>1
<1>3. /\ rest \in Seq(Operands) /\ Len(rest) = m
      /\ \A i \in 1 .. m : rest[i] = operands[i]
  <2>2. \A i \in 1 .. m : operands[i] \in Operands
    BY <1>1, <1>2
  <2>3. /\ rest \in Seq(Operands) /\ Len(rest) = IF 1 <= m THEN m - 1 + 1 ELSE 0
        /\ \A i \in 1 .. m - 1 + 1 : rest[i] = operands[1 + i - 1]
    BY <1>2, <2>2, SubSeqProperties
  <2> HIDE DEF rest, m
  <2>4. \A i \in 1 .. m : 1 + i - 1 = i /\ i \in 1 .. m - 1 + 1
    BY <1>2
  <2>5. QED
    BY <1>2, <2>3, <2>4
<1>4. operands' = Append(rest, e)
  BY DEF ReplaceTwo
<1> HIDE DEF rest
<1>5. /\ operands' \in Seq(Operands) /\ Len(operands') = m + 1
      /\ \A i \in 1 .. m + 1 : operands'[i] = IF i = m + 1 THEN e ELSE rest[i]
  BY <1>2, <1>3, <1>4
<1>6. \A i \in 1 .. m + 1 : Exact(operands'[i])
  BY <1>1, <1>2, <1>3, <1>5, SMTT(60)
<1>7. QED
  BY <1>1, <1>5, <1>6, InvariantNext

LEMMA FirstIsExact == ExprInit => ExprInvariant
<1> SUFFICES ASSUME ExprInit PROVE ExprInvariant
  OBVIOUS
<1>1. operands \in Seq(Operands) /\ Len(operands) = 0 /\ crashed \in BOOLEAN
  <2>1. operands = <<>> /\ crashed = FALSE
    BY DEF ExprInit
  <2>2. operands \in Seq(Operands) /\ Len(operands) = 0
    BY <2>1
  <2>3. crashed \in BOOLEAN
    BY <2>1
  <2>4. QED
    BY <2>2, <2>3
<1>2. QED
  BY <1>1, InvariantIs

LEMMA VariableKeeps == ExprInvariant /\ Variable => ExprInvariant'
<1> SUFFICES ASSUME ExprInvariant, Variable PROVE ExprInvariant'
  OBVIOUS
<1>1. PICK k \in Keys :
         operands' = Append(operands, Operand({[key \in {k} |-> AnyField]}, Valuations, TRUE, 1))
  BY DEF Variable
<1> DEFINE p == [key \in {k} |-> AnyField]
           e == Operand({p}, Valuations, TRUE, 1)
<1>2. {p} \in SUBSET KeyPackets
  <2>1. p \in [{k} -> Fields]
    BY DEF Fields
  <2>2. {k} \in SUBSET Keys
    OBVIOUS
  <2>3. QED
    BY <2>1, <2>2 DEF KeyPackets
<1>3. /\ e \in Operands /\ e.set = {p} /\ e.says = Valuations
  BY <1>2 DEF Operands, Operand
<1>4. Denotes({p}) = Valuations
  <2>1. \A x \in Valuations : Accepts(p, x)
    <3>1. Meaning(AnyField) = Values
      BY DEF Meaning, AnyField
    <3>2. QED
      BY <3>1 DEF Accepts, Valuations
  <2>2. QED
    BY <2>1, DenotesIs, DenotesIn
<1> HIDE DEF e
<1>5. Exact(e)
  BY <1>3, <1>4 DEF Exact
<1>6. UNCHANGED crashed
  BY DEF Variable
<1>7. QED
  BY <1>1, <1>3, <1>5, <1>6, AppendKeeps DEF e

LEMMA EqualToKeeps ==
    ASSUME ExprInvariant, NEW f \in Fields, f.kind # "any", EqualTo(f)
    PROVE  ExprInvariant'
<1> DEFINE i == Innermost
           n == Operand({Restricted(p, f) : p \in i.set}, Within(i, Meaning(f)),
                        i.plain /\ Uniform(i), i.length + 1)
<1>1. operands # <<>>
  BY DEF EqualTo
<1>2. i \in Operands /\ Exact(i)
  BY <1>1, InnermostIs
<1>3. CASE \E p \in i.set : Empty(p, f)
  <2>1. crashed' = TRUE /\ UNCHANGED operands
    BY <1>3 DEF EqualTo
  <2>2. QED
    BY <2>1, InvariantIs, InvariantNext
<1>4. CASE ~ \E p \in i.set : Empty(p, f)
  <2>1. Replace(n) /\ UNCHANGED crashed
    BY <1>4 DEF EqualTo
  <2> HIDE DEF i
  <2>2. i.set \subseteq KeyPackets /\ i.says \subseteq Valuations /\ i.plain \in BOOLEAN
        /\ i.length \in Nat
    BY <1>2 DEF Operands
  <2>3. \A p \in i.set :
          /\ Restricted(p, f) \in KeyPackets
          /\ \A x \in Valuations : Accepts(Restricted(p, f), x) <=>
                Accepts(p, x) /\ \A k \in DOMAIN p : x[k] \in Meaning(f)
    BY <1>4, <2>2, RestrictedMeans
  <2>4. /\ {Restricted(p, f) : p \in i.set} \in SUBSET KeyPackets
        /\ Within(i, Meaning(f)) \in SUBSET Valuations
        /\ (i.plain /\ Uniform(i)) \in BOOLEAN /\ i.length + 1 \in Nat
    BY <1>2, <2>2, <2>3, WithinIn
  <2>5. /\ n \in Operands /\ n.set = {Restricted(p, f) : p \in i.set}
        /\ n.says = Within(i, Meaning(f)) /\ (n.plain <=> i.plain /\ Uniform(i))
    BY <2>4 DEF Operands, Operand
  <2> HIDE DEF n
  <2>6. ASSUME n.plain PROVE Denotes(n.set) = n.says
    <3>1. Uniform(i) /\ Denotes(i.set) = i.says
      BY <1>2, <2>5, <2>6 DEF Exact
    <3> DEFINE m == [p \in i.set |-> Restricted(p, f)]
    <3>2. /\ \A q \in n.set : \E p \in i.set : q = m[p]
          /\ \A p \in i.set : m[p] \in n.set
      BY <2>5
    <3>3. \A p \in i.set, x \in Valuations :
             Accepts(m[p], x) <=> Accepts(p, x) /\ \A k \in DOMAIN p : x[k] \in Meaning(f)
      BY <2>3
    <3> HIDE DEF m
    <3>4. Denotes(n.set) = Within(i, Meaning(f))
      BY <1>2, <3>1, <3>2, <3>3, WithinMeans
    <3>5. QED
      BY <2>5, <3>4
  <2>7. Exact(n)
    BY <2>6 DEF Exact
  <2>8. QED
    BY <1>1, <2>1, <2>5, <2>7, ReplaceKeeps
<1>5. QED
  BY <1>3, <1>4

LEMMA EqualKeeps == ExprInvariant /\ Equal => ExprInvariant'
<1> SUFFICES ASSUME ExprInvariant, Equal PROVE ExprInvariant'
  OBVIOUS
<1>1. ASSUME NEW lo \in Numbers, NEW hi \in Numbers, EqualTo(Interval(lo, hi + 1))
      PROVE  ExprInvariant'
  <2>1. lo \in Int /\ hi + 1 \in Int
    BY ExpressionsAssumption
  <2>2. Interval(lo, hi + 1) \in Fields /\ Interval(lo, hi + 1).kind = "interval"
    BY <2>1, IntervalMeaning, ZenonT(60)
  <2>3. QED
    BY <1>1, <2>2, EqualToKeeps
<1>2. ASSUME NEW vs \in Enumerations, EqualTo(Enum(vs, FALSE))
      PROVE  ExprInvariant'
  <2>1. vs \in SUBSET Letters /\ FALSE \in BOOLEAN
    BY ExpressionsAssumption
  <2>2. Enum(vs, FALSE) \in Fields /\ Enum(vs, FALSE).kind = "enum"
    BY <2>1, EnumMeaning
  <2>3. QED
    BY <1>2, <2>2, EqualToKeeps
<1>3. QED
  BY <1>1, <1>2 DEF Equal

LEMMA NegateKeeps == ExprInvariant /\ Negate => ExprInvariant'
<1> SUFFICES ASSUME ExprInvariant, Negate PROVE ExprInvariant'
  OBVIOUS
<1> DEFINE i == Innermost
           says == IF Negatable(i) THEN Complement(i) ELSE {}
           n == Operand(Negated(i.set), says, i.plain /\ Negatable(i), i.length + 1)
<1>1. operands # <<>> /\ Replace(n) /\ UNCHANGED crashed
  BY DEF Negate
<1>2. i \in Operands /\ Exact(i)
  BY <1>1, InnermostIs
<1> HIDE DEF i
<1>3. /\ i.set \in SUBSET KeyPackets /\ i.plain \in BOOLEAN /\ i.length \in Nat
  BY <1>2 DEF Operands
<1>4. /\ Negated(i.set) \in SUBSET KeyPackets /\ says \in SUBSET Valuations
      /\ (i.plain /\ Negatable(i)) \in BOOLEAN /\ i.length + 1 \in Nat
  BY <1>3, NegatedAre, ComplementIn
<1> HIDE DEF says
<1>5. /\ n \in Operands /\ n.set = Negated(i.set) /\ n.says = says
      /\ (n.plain <=> i.plain /\ Negatable(i))
  BY <1>4 DEF Operands, Operand
<1> HIDE DEF n
<1>6. ASSUME n.plain PROVE Denotes(n.set) = n.says
  <2>1. Negatable(i) /\ Denotes(i.set) = i.says
    BY <1>2, <1>5, <1>6 DEF Exact
  <2>2. QED
    BY <1>2, <1>5, <2>1, NegationMeans DEF says
<1>7. Exact(n)
  BY <1>6 DEF Exact
<1>8. QED
  BY <1>1, <1>5, <1>7, ReplaceKeeps

\* A field of each packet is replaced by another.
LEMMA ComparedMeans ==
    ASSUME NEW p \in KeyPackets, NEW q, q = [k \in DOMAIN p |-> q[k]],
           \A k \in DOMAIN p : q[k] \in Fields
    PROVE  /\ q \in KeyPackets
           /\ \A range :
                 (\A k \in DOMAIN p, v \in Values :
                     v \in Meaning(q[k]) <=> v \in Meaning(p[k]) /\ v \in range) =>
                 \A x \in Valuations : Accepts(q, x) <=>
                    Accepts(p, x) /\ \A k \in DOMAIN p : x[k] \in range
<1>1. DOMAIN p \subseteq Keys
  BY KeyPacketIs
<1>2. q \in KeyPackets
  BY <1>1, KeyPacketIs
<1>3. ASSUME NEW range,
             \A k \in DOMAIN p, v \in Values :
                v \in Meaning(q[k]) <=> v \in Meaning(p[k]) /\ v \in range,
             NEW x \in Valuations
      PROVE  Accepts(q, x) <=> Accepts(p, x) /\ \A k \in DOMAIN p : x[k] \in range
  <2>1. \A k \in DOMAIN p : x[k] \in Values
    BY <1>1 DEF Valuations
  <2>2. DOMAIN q = DOMAIN p
    OBVIOUS
  <2>3. QED
    BY <1>3, <2>1, <2>2 DEF Accepts
<1>4. QED
  BY <1>2, <1>3

\* The packets of an expression are replaced by others of which less is accepted.
LEMMA NarrowedKeeps ==
    ASSUME ExprInvariant, operands # <<>>, UNCHANGED crashed, NEW range,
           NEW n, Replace(n), n = Operand(n.set, n.says, n.plain, n.length),
           NEW on,
           \A q \in n.set : \E p \in Innermost.set : q = on[p],
           \A p \in Innermost.set : on[p] \in n.set,
           \A p \in Innermost.set : on[p] \in KeyPackets,
           n.says = Within(Innermost, range), n.length = Innermost.length + 1,
           n.plain \in BOOLEAN,
           n.plain => /\ Innermost.plain /\ Uniform(Innermost)
                      /\ \A p \in Innermost.set, x \in Valuations : Accepts(on[p], x) <=>
                             Accepts(p, x) /\ \A k \in DOMAIN p : x[k] \in range
    PROVE  ExprInvariant'
<1>1. Innermost \in Operands /\ Exact(Innermost)
  BY InnermostIs
<1>2. n.set \in SUBSET KeyPackets
  OBVIOUS
<1>3. Innermost.length \in Nat
  BY <1>1 DEF Operands
<1>4. Within(Innermost, range) \in SUBSET Valuations
  BY <1>1, WithinIn
<1>5. n \in Operands
  BY <1>2, <1>3, <1>4 DEF Operands, Operand
<1>6. ASSUME n.plain PROVE Denotes(n.set) = Within(Innermost, range)
  <2>1. Uniform(Innermost) /\ Denotes(Innermost.set) = Innermost.says
    BY <1>1, <1>6 DEF Exact
  <2>2. QED
    BY <1>1, <1>6, <2>1, WithinMeans
<1>7. Exact(n)
  BY <1>6 DEF Exact
<1>8. QED
  BY <1>5, <1>7, ReplaceKeeps

LEMMA BelowKeeps ==
    ASSUME ExprInvariant, NEW b \in Int, NEW range, range = 0 .. b - 1,
           Compare(LAMBDA f : Below(f, b), range)
    PROVE  ExprInvariant'
<1> DEFINE i == Innermost
           on == [p \in i.set |-> [k \in DOMAIN p |-> Below(p[k], b)]]
           n == Operand({[k \in DOMAIN p |-> Below(p[k], b)] : p \in i.set}, Within(i, range),
                        /\ i.plain /\ Uniform(i)
                        /\ \A p \in i.set : \A k \in DOMAIN p : Narrows(p[k], Below(p[k], b)),
                        i.length + 1)
<1>1. operands # <<>> /\ UNCHANGED crashed /\ Replace(n)
  BY DEF Compare, OnFields
<1>2. i \in Operands
  BY <1>1, InnermostIs
<1> HIDE DEF i
<1>3. \A f \in Fields, v \in Values :
         /\ Below(f, b) \in Fields
         /\ Narrows(f, Below(f, b)) =>
              (v \in Meaning(Below(f, b)) <=> v \in Meaning(f) /\ v \in range)
  BY NarrowedMeans
<1>4. /\ n = Operand(n.set, n.says, n.plain, n.length)
      /\ n.set = {[k \in DOMAIN p |-> Below(p[k], b)] : p \in i.set}
      /\ n.says = Within(i, range)
      /\ n.plain \in BOOLEAN
      /\ n.plain => /\ i.plain /\ Uniform(i)
                    /\ \A p \in i.set : \A k \in DOMAIN p : Narrows(p[k], Below(p[k], b))
      /\ n.length = i.length + 1
  BY DEF Operand
<1> HIDE DEF n
<1>5. /\ \A q \in n.set : \E p \in i.set : q = on[p]
      /\ \A p \in i.set : on[p] \in n.set
  BY <1>4
<1>6. ASSUME NEW p \in i.set
      PROVE  /\ on[p] \in KeyPackets
             /\ n.plain => \A x \in Valuations : Accepts(on[p], x) <=>
                              Accepts(p, x) /\ \A k \in DOMAIN p : x[k] \in range
  <2>1. p \in KeyPackets
    BY <1>2 DEF Operands
  <2>2. \A k \in DOMAIN p : p[k] \in Fields
    BY <2>1, KeyPacketIs
  <2>3. /\ on[p] = [k \in DOMAIN p |-> on[p][k]]
        /\ \A k \in DOMAIN p : on[p][k] = Below(p[k], b)
    OBVIOUS
  <2> HIDE DEF on
  <2>4. \A k \in DOMAIN p : on[p][k] \in Fields
    <3>1. Other \in Values
      BY DEF Values
    <3>2. QED
      BY <1>3, <2>2, <2>3, <3>1
  <2>5. n.plain => \A k \in DOMAIN p, v \in Values :
           v \in Meaning(on[p][k]) <=> v \in Meaning(p[k]) /\ v \in range
    BY <1>3, <1>4, <2>2, <2>3
  <2>6. QED
    BY ONLY <2>1, <2>3, <2>4, <2>5, ComparedMeans
<1> HIDE DEF on
<1>7. n.plain => /\ i.plain /\ Uniform(i)
                 /\ \A p \in i.set, x \in Valuations : Accepts(on[p], x) <=>
                        Accepts(p, x) /\ \A k \in DOMAIN p : x[k] \in range
  BY <1>4, <1>6
<1>8. QED
  BY <1>1, <1>4, <1>5, <1>6, <1>7, NarrowedKeeps DEF i

LEMMA AboveKeeps ==
    ASSUME ExprInvariant, NEW b \in Int, NEW range, range = b .. MaxValue - 1,
           Compare(LAMBDA f : Above(f, b), range)
    PROVE  ExprInvariant'
<1> DEFINE i == Innermost
           on == [p \in i.set |-> [k \in DOMAIN p |-> Above(p[k], b)]]
           n == Operand({[k \in DOMAIN p |-> Above(p[k], b)] : p \in i.set}, Within(i, range),
                        /\ i.plain /\ Uniform(i)
                        /\ \A p \in i.set : \A k \in DOMAIN p : Narrows(p[k], Above(p[k], b)),
                        i.length + 1)
<1>1. operands # <<>> /\ UNCHANGED crashed /\ Replace(n)
  BY DEF Compare, OnFields
<1>2. i \in Operands
  BY <1>1, InnermostIs
<1> HIDE DEF i
<1>3. \A f \in Fields, v \in Values :
         /\ Above(f, b) \in Fields
         /\ Narrows(f, Above(f, b)) =>
              (v \in Meaning(Above(f, b)) <=> v \in Meaning(f) /\ v \in range)
  BY NarrowedMeans
<1>4. /\ n = Operand(n.set, n.says, n.plain, n.length)
      /\ n.set = {[k \in DOMAIN p |-> Above(p[k], b)] : p \in i.set}
      /\ n.says = Within(i, range)
      /\ n.plain \in BOOLEAN
      /\ n.plain => /\ i.plain /\ Uniform(i)
                    /\ \A p \in i.set : \A k \in DOMAIN p : Narrows(p[k], Above(p[k], b))
      /\ n.length = i.length + 1
  BY DEF Operand
<1> HIDE DEF n
<1>5. /\ \A q \in n.set : \E p \in i.set : q = on[p]
      /\ \A p \in i.set : on[p] \in n.set
  BY <1>4
<1>6. ASSUME NEW p \in i.set
      PROVE  /\ on[p] \in KeyPackets
             /\ n.plain => \A x \in Valuations : Accepts(on[p], x) <=>
                              Accepts(p, x) /\ \A k \in DOMAIN p : x[k] \in range
  <2>1. p \in KeyPackets
    BY <1>2 DEF Operands
  <2>2. \A k \in DOMAIN p : p[k] \in Fields
    BY <2>1, KeyPacketIs
  <2>3. /\ on[p] = [k \in DOMAIN p |-> on[p][k]]
        /\ \A k \in DOMAIN p : on[p][k] = Above(p[k], b)
    OBVIOUS
  <2> HIDE DEF on
  <2>4. \A k \in DOMAIN p : on[p][k] \in Fields
    <3>1. Other \in Values
      BY DEF Values
    <3>2. QED
      BY <1>3, <2>2, <2>3, <3>1
  <2>5. n.plain => \A k \in DOMAIN p, v \in Values :
           v \in Meaning(on[p][k]) <=> v \in Meaning(p[k]) /\ v \in range
    BY <1>3, <1>4, <2>2, <2>3
  <2>6. QED
    BY ONLY <2>1, <2>3, <2>4, <2>5, ComparedMeans
<1> HIDE DEF on
<1>7. n.plain => /\ i.plain /\ Uniform(i)
                 /\ \A p \in i.set, x \in Valuations : Accepts(on[p], x) <=>
                        Accepts(p, x) /\ \A k \in DOMAIN p : x[k] \in range
  BY <1>4, <1>6
<1>8. QED
  BY <1>1, <1>4, <1>5, <1>6, <1>7, NarrowedKeeps DEF i

LEMMA BoundsIn == Bounds \subseteq Int
<1>1. \A n, j \in Nat : /\ n + j \in Int /\ n - j \in Int /\ n * j \in Int
                        /\ j # 0 => n \div j \in Int /\ n % j \in Int
  OBVIOUS
<1>2. \A op \in {"+", "-", "*"}, n, j \in Unsigned : Arithmetic(op, n, j) \in Int
  BY <1>1 DEF Arithmetic, Unsigned
<1>3. \A op \in {"/", "mod"}, n \in Unsigned, j \in Unsigned \ {0} : Arithmetic(op, n, j) \in Int
  BY <1>1 DEF Arithmetic, Unsigned
<1>4. QED
  BY <1>2, <1>3 DEF Bounds, Unsigned

LEMMA ComparisonsKeep ==
    ExprInvariant /\ (Less \/ LessEqual \/ Greater \/ GreaterEqual) => ExprInvariant'
<1> SUFFICES ASSUME ExprInvariant PROVE (Less \/ LessEqual \/ Greater \/ GreaterEqual) => ExprInvariant'
  OBVIOUS
<1>1. ASSUME Less PROVE ExprInvariant'
  <2>1. PICK b \in Bounds : Compare(LAMBDA f : Below(f, b), 0 .. b - 1)
    BY <1>1 DEF Less
  <2>2. b \in Int
    BY BoundsIn
  <2>3. QED
    BY <2>1, <2>2, BelowKeeps
<1>2. ASSUME LessEqual PROVE ExprInvariant'
  <2>1. PICK b \in Bounds : Compare(LAMBDA f : Below(f, b + 1), 0 .. b)
    BY <1>2 DEF LessEqual
  <2> DEFINE c == b + 1
  <2>2. c \in Int /\ 0 .. b = 0 .. c - 1
    BY BoundsIn
  <2>3. Compare(LAMBDA f : Below(f, c), 0 .. b)
    BY <2>1
  <2> HIDE DEF c
  <2>4. QED
    BY <2>2, <2>3, BelowKeeps
<1>3. ASSUME Greater PROVE ExprInvariant'
  <2>1. PICK b \in Bounds : Compare(LAMBDA f : Above(f, b + 1), b + 1 .. MaxValue - 1)
    BY <1>3 DEF Greater
  <2>2. b + 1 \in Int
    BY BoundsIn
  <2>3. QED
    BY <2>1, <2>2, AboveKeeps
<1>4. ASSUME GreaterEqual PROVE ExprInvariant'
  <2>1. PICK b \in Bounds : Compare(LAMBDA f : Above(f, b), b .. MaxValue - 1)
    BY <1>4 DEF GreaterEqual
  <2>2. b \in Int
    BY BoundsIn
  <2>3. QED
    BY <2>1, <2>2, AboveKeeps
<1>5. QED
  BY <1>1, <1>2, <1>3, <1>4

LEMMA DivideByZeroKeeps == ExprInvariant /\ DivideByZero => ExprInvariant'
BY InvariantIs, InvariantNext DEF DivideByZero

\* The two innermost operands.
LEMMA OuterIs ==
    ASSUME ExprInvariant, Len(operands) >= 2
    PROVE  /\ Innermost \in Operands /\ Exact(Innermost)
           /\ Outer \in Operands /\ Exact(Outer)
<1>1. /\ operands \in Seq(Operands)
      /\ Len(operands) \in 1 .. Len(operands) /\ Len(operands) - 1 \in 1 .. Len(operands)
  BY DEF ExprInvariant
<1>2. QED
  BY <1>1, InvariantIs DEF Innermost, Outer

LEMMA AndKeeps == ExprInvariant /\ And => ExprInvariant'
<1> SUFFICES ASSUME ExprInvariant, And PROVE ExprInvariant'
  OBVIOUS
<1> DEFINE i == Innermost
           o == Outer
           n == Operand(PerformAnd(o.set, i.set), o.says \cap i.says,
                        o.plain /\ i.plain /\ Ordered(o, i), o.length + i.length + 1)
<1>1. Len(operands) >= 2 /\ UNCHANGED crashed /\ ReplaceTwo(n)
  BY DEF And
<1>2. i \in Operands /\ Exact(i) /\ o \in Operands /\ Exact(o)
  BY <1>1, OuterIs
<1> HIDE DEF i, o
<1>3. /\ i.set \in SUBSET KeyPackets /\ i.says \in SUBSET Valuations /\ i.length \in Nat
      /\ o.set \in SUBSET KeyPackets /\ o.says \in SUBSET Valuations /\ o.length \in Nat
  BY <1>2 DEF Operands
<1>4. PerformAnd(o.set, i.set) \in SUBSET KeyPackets
  BY <1>3, AndAre
<1>5. /\ n \in Operands /\ n.set = PerformAnd(o.set, i.set) /\ n.says = o.says \cap i.says
      /\ n.plain <=> o.plain /\ i.plain /\ Ordered(o, i)
  <2>1. o.says \cap i.says \in SUBSET Valuations /\ o.length + i.length + 1 \in Nat
    BY <1>3
  <2>2. QED
    BY <1>4, <2>1 DEF Operands, Operand
<1> HIDE DEF n
<1>6. Exact(n)
  BY <1>2, <1>5, AndMeans DEF Exact
<1>7. QED
  BY <1>1, <1>5, <1>6, ReplaceTwoKeeps

LEMMA OrKeeps == ExprInvariant /\ Or => ExprInvariant'
<1> SUFFICES ASSUME ExprInvariant, Or PROVE ExprInvariant'
  OBVIOUS
<1> DEFINE i == Innermost
           o == Outer
           n == Operand(PerformOr(o.set, i.set), o.says \cup i.says, o.plain /\ i.plain,
                        o.length + i.length + 1)
<1>1. Len(operands) >= 2 /\ UNCHANGED crashed /\ ReplaceTwo(n)
  BY DEF Or
<1>2. i \in Operands /\ Exact(i) /\ o \in Operands /\ Exact(o)
  BY <1>1, OuterIs
<1> HIDE DEF i, o
<1>3. /\ i.set \in SUBSET KeyPackets /\ i.says \in SUBSET Valuations /\ i.length \in Nat
      /\ o.set \in SUBSET KeyPackets /\ o.says \in SUBSET Valuations /\ o.length \in Nat
  BY <1>2 DEF Operands
<1>4. PerformOr(o.set, i.set) \in SUBSET KeyPackets
  BY <1>3 DEF PerformOr
<1>5. /\ n \in Operands /\ n.set = PerformOr(o.set, i.set) /\ n.says = o.says \cup i.says
      /\ n.plain <=> o.plain /\ i.plain
  <2>1. o.says \cup i.says \in SUBSET Valuations /\ o.length + i.length + 1 \in Nat
    BY <1>3
  <2>2. QED
    BY <1>4, <2>1 DEF Operands, Operand
<1> HIDE DEF n
<1>6. Exact(n)
  BY <1>2, <1>5, OrMeans DEF Exact
<1>7. QED
  BY <1>1, <1>5, <1>6, ReplaceTwoKeeps

LEMMA IfThenElseKeeps == ExprInvariant /\ IfThenElse => ExprInvariant'
<1> SUFFICES ASSUME ExprInvariant, IfThenElse PROVE ExprInvariant'
  OBVIOUS
<1> DEFINE c == operands[1]
           yes == operands[2]
           no == operands[3]
           not == [c EXCEPT !.set = Negated(c.set),
                            !.says = IF Negatable(c) THEN Complement(c) ELSE {}]
           n == Operand(PerformOr(PerformAnd(c.set, yes.set), PerformAnd(not.set, no.set)),
                        (c.says \cap yes.says) \cup (not.says \cap no.says),
                        /\ c.plain /\ yes.plain /\ no.plain /\ Negatable(c)
                        /\ Ordered(c, yes) /\ Ordered(not, no),
                        c.length + yes.length + no.length + 1)
<1>1. Len(operands) = 3 /\ UNCHANGED crashed /\ operands' = <<n>>
  BY DEF IfThenElse
<1>2. /\ c \in Operands /\ Exact(c) /\ yes \in Operands /\ Exact(yes)
      /\ no \in Operands /\ Exact(no) /\ crashed \in BOOLEAN
  <2>1. operands \in Seq(Operands)
    BY DEF ExprInvariant
  <2>2. /\ 1 \in 1 .. Len(operands) /\ 2 \in 1 .. Len(operands) /\ 3 \in 1 .. Len(operands)
    BY <1>1
  <2>3. QED
    BY <2>1, <2>2, InvariantIs
<1> HIDE DEF c, yes, no
<1>3. /\ c.set \in SUBSET KeyPackets /\ c.says \in SUBSET Valuations /\ c.length \in Nat
      /\ yes.set \in SUBSET KeyPackets /\ yes.says \in SUBSET Valuations /\ yes.length \in Nat
      /\ no.set \in SUBSET KeyPackets /\ no.says \in SUBSET Valuations /\ no.length \in Nat
  BY <1>2 DEF Operands
<1>4. /\ Negated(c.set) \in SUBSET KeyPackets
      /\ (IF Negatable(c) THEN Complement(c) ELSE {}) \in SUBSET Valuations
  BY <1>3, NegatedAre, ComplementIn
<1>5. /\ not \in Operands /\ not.set = Negated(c.set)
      /\ not.says = IF Negatable(c) THEN Complement(c) ELSE {}
  BY <1>2, <1>4 DEF Operands
<1> HIDE DEF not
<1>6. not.set \in SUBSET KeyPackets /\ not.says \in SUBSET Valuations
  BY <1>5 DEF Operands
<1>7. /\ PerformAnd(c.set, yes.set) \in SUBSET KeyPackets
      /\ PerformAnd(not.set, no.set) \in SUBSET KeyPackets
  BY <1>3, <1>6, AndAre
<1>8. PerformOr(PerformAnd(c.set, yes.set), PerformAnd(not.set, no.set)) \in SUBSET KeyPackets
  BY <1>7 DEF PerformOr
<1>9. /\ n \in Operands
      /\ n.set = PerformOr(PerformAnd(c.set, yes.set), PerformAnd(not.set, no.set))
      /\ n.says = (c.says \cap yes.says) \cup (not.says \cap no.says)
      /\ n.plain <=> /\ c.plain /\ yes.plain /\ no.plain /\ Negatable(c)
                     /\ Ordered(c, yes) /\ Ordered(not, no)
  BY <1>3, <1>6, <1>8 DEF Operands, Operand
<1> HIDE DEF n
<1>10. ASSUME n.plain PROVE Denotes(n.set) = n.says
  <2>1. /\ Denotes(c.set) = c.says /\ Denotes(yes.set) = yes.says /\ Denotes(no.set) = no.says
        /\ Negatable(c) /\ Ordered(c, yes) /\ Ordered(not, no)
    BY <1>2, <1>9, <1>10 DEF Exact
  <2>2. Denotes(not.set) = not.says
    BY <1>2, <1>5, <2>1, NegationMeans
  <2>3. /\ Denotes(PerformAnd(c.set, yes.set)) = c.says \cap yes.says
        /\ Denotes(PerformAnd(not.set, no.set)) = not.says \cap no.says
    BY <1>2, <1>5, <2>1, <2>2, AndMeans
  <2>4. QED
    BY <1>9, <2>3, OrMeans
<1>11. Exact(n)
  BY <1>10 DEF Exact
<1>12. operands' \in Seq(Operands) /\ Len(operands') = 1 /\ operands'[1] = n
  BY <1>1, <1>9
<1>13. QED
  BY <1>1, <1>2, <1>11, <1>12, InvariantNext

\* However it goes on, the parser keeps packets of fields, and what it promises to mean
\* what was written does.
THEOREM ExpressionsInvariance == ExprSpec => []ExprInvariant
<1>1. ASSUME ExprInvariant, [ExprNext]_exprVars PROVE ExprInvariant'
  <2>1. CASE ExprNext
    BY <1>1, <2>1, VariableKeeps, EqualKeeps, NegateKeeps, ComparisonsKeep, DivideByZeroKeeps,
       AndKeeps, OrKeeps, IfThenElseKeeps DEF ExprNext
  <2>2. CASE UNCHANGED exprVars
    BY <1>1, <2>2, InvariantIs, InvariantNext DEF exprVars
  <2>3. QED
    BY <1>1, <2>1, <2>2
<1>2. QED
  BY <1>1, FirstIsExact, PTL DEF ExprSpec

\* A packet expression stands for exactly the packets that it says, whatever names,
\* numbers and enumerations are in it and however long it is: the parser's intersections,
\* unions, negations and comparisons are those of the values.
THEOREM ExpressionsAlwaysExact == ExprSpec => []ExpressionMeansWhatItSays
<1>1. ExprInvariant => ExpressionMeansWhatItSays
  BY DEF ExprInvariant
<1>2. QED
  BY <1>1, ExpressionsInvariance, PTL
------------------------------------------------------------------------------
LEMMA WrappedFits ==
    ASSUME NEW n \in Int
    PROVE  Wrapped(n) \in Int /\ Fits(Wrapped(n)) /\ (Fits(n) => Wrapped(n) = n)
<1>1. MaxValue \in Nat
  BY PacketsAssumption
<1> DEFINE m == n + MaxValue + 1
           w == 2 * (MaxValue + 1)
<1>2. m \in Int /\ w \in Nat \ {0}
  BY <1>1
<1>3. m % w \in 0 .. w - 1
  BY <1>2
<1>4. m \in 0 .. w - 1 => m % w = m
  BY <1>2
<1>5. Wrapped(n) = (m % w) - MaxValue - 1
  BY <1>1 DEF Wrapped, MinValue
<1>6. QED
  BY <1>1, <1>2, <1>3, <1>4, <1>5 DEF Fits, MinValue

\* A sum of intervals has the sums of the numbers in them, but for those that have no room.
LEMMA AdditionMeans ==
    ASSUME NEW f \in Fields, f.kind = "interval", InWidth(f),
           NEW g \in Fields, g.kind = "interval", InWidth(g)
    PROVE  /\ AddField(f, g) \in Fields /\ InWidth(AddField(f, g))
           /\ Fits(f.min + g.min) =>
                \A i \in Meaning(f), j \in Meaning(g) :
                    Fits(i + j) /\ i + j # MaxValue => i + j \in Meaning(AddField(f, g))
<1>1. MaxValue \in Nat
  BY PacketsAssumption
<1>2. /\ f.min \in Int /\ f.max \in Int /\ Fits(f.min) /\ Fits(f.max)
      /\ Meaning(f) = f.min .. f.max - 1
  BY FieldCases DEF InWidth
<1>3. /\ g.min \in Int /\ g.max \in Int /\ Fits(g.min) /\ Fits(g.max)
      /\ Meaning(g) = g.min .. g.max - 1
  BY FieldCases DEF InWidth
<1> DEFINE lo == IF f.min > MinValue THEN Wrapped(f.min + g.min) ELSE f.min
           hi == IF f.max = MaxValue \/ Wrapped(MaxValue - f.max) < g.max THEN MaxValue
                 ELSE Wrapped(f.max + g.max - 1)
<1>4. AddField(f, g) = Interval(lo, hi)
  BY DEF AddField
<1>0. MinValue \in Int /\ Fits(MinValue) /\ Fits(MaxValue)
  BY <1>1 DEF Fits, MinValue
<1>5. lo \in Int /\ Fits(lo) /\ (Fits(f.min + g.min) => lo <= f.min + g.min \/ lo = MinValue)
  <2>1. f.min + g.min \in Int
    BY <1>2, <1>3
  <2>2. /\ Wrapped(f.min + g.min) \in Int /\ Fits(Wrapped(f.min + g.min))
        /\ Fits(f.min + g.min) => Wrapped(f.min + g.min) = f.min + g.min
    BY <2>1, WrappedFits
  <2>3. ~ (f.min > MinValue) => f.min = MinValue
    BY <1>0, <1>1, <1>2 DEF Fits
  <2>4. QED
    BY <1>2, <2>1, <2>2, <2>3
<1>6. hi \in Int /\ Fits(hi)
  <2>1. f.max + g.max - 1 \in Int
    BY <1>2, <1>3
  <2>2. Wrapped(f.max + g.max - 1) \in Int /\ Fits(Wrapped(f.max + g.max - 1))
    BY <2>1, WrappedFits
  <2>3. QED
    BY <1>0, <1>1, <2>2
<1>7. /\ AddField(f, g) \in Fields /\ InWidth(AddField(f, g))
      /\ Meaning(AddField(f, g)) = lo .. hi - 1
  <2> HIDE DEF lo, hi
  <2>1. lo \in Int /\ hi \in Int
    BY <1>5, <1>6
  <2>2. /\ Interval(lo, hi) \in Fields /\ Interval(lo, hi).min = lo /\ Interval(lo, hi).max = hi
        /\ Meaning(Interval(lo, hi)) = lo .. hi - 1
    BY <2>1, IntervalMeaning
  <2>3. QED
    BY <1>4, <1>5, <1>6, <2>2 DEF InWidth
<1>8. ASSUME Fits(f.min + g.min), NEW i \in Meaning(f), NEW j \in Meaning(g),
             Fits(i + j), i + j # MaxValue
      PROVE  i + j \in lo .. hi - 1
  <2>1. i \in Int /\ j \in Int /\ f.min <= i /\ i < f.max /\ g.min <= j /\ j < g.max
    BY <1>2, <1>3, <1>8
  <2>2. i + j < MaxValue /\ i + j >= MinValue
    BY <1>1, <1>8, <2>1 DEF Fits, MinValue
  <2>3. lo <= i + j
    <3> HIDE DEF lo, hi
    <3>1. QED
      BY <1>2, <1>3, <1>5, <1>8, <2>1, <2>2
  <2>4. i + j < hi
    <3>1. CASE f.max = MaxValue \/ Wrapped(MaxValue - f.max) < g.max
      BY <2>2, <3>1
    <3>2. CASE ~ (f.max = MaxValue \/ Wrapped(MaxValue - f.max) < g.max)
      <4>1. f.max + g.max - 1 \in Int /\ f.min + g.min <= f.max + g.max - 2
        BY <1>2, <1>3, <2>1, SMTT(60)
      <4>2. f.max + g.max - 1 >= MinValue
        BY <1>1, <1>2, <1>3, <1>8, <4>1, SMTT(60) DEF Fits, MinValue
      <4>3. f.max + g.max - 1 <= MaxValue
        <5>1. CASE f.max >= 0
          <6>1. Wrapped(MaxValue - f.max) = MaxValue - f.max
            BY <1>1, <1>2, <5>1, WrappedFits DEF Fits, MinValue
          <6>2. QED
            BY <1>1, <1>2, <1>3, <3>2, <6>1 DEF Fits, MinValue
        <5>2. CASE f.max < 0
          BY <1>1, <1>2, <1>3, <5>2 DEF Fits, MinValue
        <5>3. QED
          BY <1>2, <5>1, <5>2
      <4>4. Wrapped(f.max + g.max - 1) = f.max + g.max - 1
        BY <1>1, <4>1, <4>2, <4>3, WrappedFits DEF Fits, MinValue
      <4>5. hi = f.max + g.max - 1
        BY <3>2, <4>4
      <4>6. QED
        BY <1>2, <1>3, <2>1, <4>5
    <3>3. QED
      BY <3>1, <3>2
  <2>5. QED
    <3> HIDE DEF lo, hi
    <3>1. QED
      BY <1>5, <1>6, <2>1, <2>3, <2>4
<1>9. QED
  BY <1>7, <1>8

\* So has a difference.
LEMMA DifferenceMeans ==
    ASSUME NEW f \in Fields, f.kind = "interval", InWidth(f),
           NEW g \in Fields, g.kind = "interval", InWidth(g)
    PROVE  /\ MinusField(f, g) \in Fields /\ InWidth(MinusField(f, g))
           /\ Fits(f.min - g.max + 1) /\ Fits(f.max - g.min) =>
                \A i \in Meaning(f), j \in Meaning(g) :
                    Fits(i - j) /\ i - j # MaxValue => i - j \in Meaning(MinusField(f, g))
<1>1. MaxValue \in Nat
  BY PacketsAssumption
<1>2. /\ f.min \in Int /\ f.max \in Int /\ Fits(f.min) /\ Fits(f.max)
      /\ Meaning(f) = f.min .. f.max - 1
  BY FieldCases DEF InWidth
<1>3. /\ g.min \in Int /\ g.max \in Int /\ Fits(g.min) /\ Fits(g.max)
      /\ Meaning(g) = g.min .. g.max - 1
  BY FieldCases DEF InWidth
<1> DEFINE room == IF wraps THEN Wrapped(f.min - MinValue) ELSE f.min - MinValue
           lo == IF f.min = MinValue \/ room < g.max THEN MinValue ELSE Wrapped(f.min - g.max + 1)
           hi == IF f.max = MaxValue THEN MaxValue ELSE Wrapped(f.max - g.min)
<1>4. MinusField(f, g) = Interval(lo, hi)
  BY DEF MinusField
<1>0. MinValue \in Int /\ Fits(MinValue) /\ Fits(MaxValue)
  BY <1>1 DEF Fits, MinValue
<1>5. lo \in Int /\ Fits(lo) /\ (Fits(f.min - g.max + 1) => lo = f.min - g.max + 1 \/ lo = MinValue)
  <2>1. f.min - g.max + 1 \in Int
    BY <1>2, <1>3
  <2>2. /\ Wrapped(f.min - g.max + 1) \in Int /\ Fits(Wrapped(f.min - g.max + 1))
        /\ Fits(f.min - g.max + 1) => Wrapped(f.min - g.max + 1) = f.min - g.max + 1
    BY <2>1, WrappedFits
  <2>3. lo = MinValue \/ lo = Wrapped(f.min - g.max + 1)
    OBVIOUS
  <2> HIDE DEF lo
  <2>4. QED
    BY <1>0, <2>2, <2>3
<1>6. hi \in Int /\ Fits(hi) /\ (Fits(f.max - g.min) => hi = f.max - g.min \/ hi = MaxValue)
  <2>1. f.max - g.min \in Int
    BY <1>2, <1>3
  <2>2. /\ Wrapped(f.max - g.min) \in Int /\ Fits(Wrapped(f.max - g.min))
        /\ Fits(f.max - g.min) => Wrapped(f.max - g.min) = f.max - g.min
    BY <2>1, WrappedFits
  <2>3. hi = MaxValue \/ hi = Wrapped(f.max - g.min)
    OBVIOUS
  <2> HIDE DEF hi
  <2>4. QED
    BY <1>0, <1>1, <2>2, <2>3
<1> HIDE DEF lo, hi
<1>7. /\ MinusField(f, g) \in Fields /\ InWidth(MinusField(f, g))
      /\ Meaning(MinusField(f, g)) = lo .. hi - 1
  <2>1. lo \in Int /\ hi \in Int
    BY <1>5, <1>6
  <2>2. /\ Interval(lo, hi) \in Fields /\ Interval(lo, hi).min = lo /\ Interval(lo, hi).max = hi
        /\ Meaning(Interval(lo, hi)) = lo .. hi - 1
    BY <2>1, IntervalMeaning
  <2>3. QED
    BY <1>4, <1>5, <1>6, <2>2 DEF InWidth
<1>8. ASSUME Fits(f.min - g.max + 1), Fits(f.max - g.min),
             NEW i \in Meaning(f), NEW j \in Meaning(g), Fits(i - j), i - j # MaxValue
      PROVE  i - j \in lo .. hi - 1
  <2>1. i \in Int /\ j \in Int /\ f.min <= i /\ i < f.max /\ g.min <= j /\ j < g.max
    BY <1>2, <1>3, <1>8
  <2>2. i - j < MaxValue /\ i - j >= MinValue
    BY <1>1, <1>8, <2>1 DEF Fits, MinValue
  <2>3. lo <= i - j
    BY <1>2, <1>3, <1>5, <1>8, <2>1, <2>2
  <2>4. i - j < hi
    BY <1>2, <1>3, <1>6, <1>8, <2>1, <2>2
  <2>5. QED
    BY <1>5, <1>6, <2>1, <2>3, <2>4
<1>9. QED
  BY <1>7, <1>8

\* A substitution has what each of the letters is replaced by.
LEMMA SubstitutionMeans ==
    ASSUME NEW f \in Fields, f.kind = "enum", NEW map, \A v \in DOMAIN map : map[v] \in Letters
    PROVE  /\ SubstituteField(map, f) \in Fields /\ InWidth(SubstituteField(map, f))
           /\ ~ f.complement =>
                \A v \in Meaning(f) : Substitute(map, v) \subseteq Meaning(SubstituteField(map, f))
<1>1. \A v : Substitute(map, v) \subseteq Letters
  BY DEF Substitute
<1> DEFINE vs == UNION {Substitute(map, v) : v \in f.values}
<1>2. vs \in SUBSET Letters
  BY <1>1
<1>3. /\ SubstituteField(map, f) \in Fields /\ SubstituteField(map, f).kind = "enum"
      /\ Meaning(SubstituteField(map, f)) = vs
  <2> HIDE DEF vs
  <2>1. SubstituteField(map, f) = Enum(vs, FALSE)
    BY DEF SubstituteField, vs
  <2>2. /\ Enum(vs, FALSE) \in Fields /\ Enum(vs, FALSE).kind = "enum"
        /\ Meaning(Enum(vs, FALSE)) = vs
    BY <1>2, EnumMeaning
  <2>3. QED
    BY <2>1, <2>2
<1>4. ASSUME ~ f.complement PROVE Meaning(f) = f.values
  BY <1>4, FieldCases
<1>5. QED
  BY <1>3, <1>4 DEF InWidth

\* The bounds of what packets have in common, and of what they have not, are bounds of theirs.
LEMMA FieldsStayInWidth ==
    ASSUME NEW f \in Fields, InWidth(f), NEW g \in Fields, InWidth(g)
    PROVE  /\ \A h \in FieldIntersection(f, g) : InWidth(h)
           /\ \A h \in FieldDifference(f, g) : InWidth(h)
<1>1. ASSUME NEW lo \in Int, NEW hi \in Int, Fits(lo), Fits(hi)
      PROVE  InWidth(Interval(lo, hi))
  BY <1>1, IntervalMeaning DEF InWidth
<1>2. ASSUME NEW vs, NEW c PROVE InWidth(Enum(vs, c))
  BY DEF InWidth, Enum
<1>3. ASSUME f.kind = "interval", g.kind = "interval"
      PROVE  /\ f.min \in Int /\ f.max \in Int /\ g.min \in Int /\ g.max \in Int
             /\ Fits(f.min) /\ Fits(f.max) /\ Fits(g.min) /\ Fits(g.max)
  BY <1>3, FieldCases DEF InWidth
<1>4. ASSUME NEW h \in FieldIntersection(f, g) PROVE InWidth(h)
  <2>1. CASE f.kind = "any"
    BY <1>4, <2>1 DEF FieldIntersection
  <2>2. CASE f.kind # "any" /\ f.kind # g.kind
    BY <1>4, <2>2 DEF FieldIntersection
  <2>3. CASE f.kind = "enum" /\ g.kind = "enum"
    <3>1. h = EnumIntersection(f, g)
      BY <1>4, <2>3 DEF FieldIntersection
    <3>2. h.kind = "enum"
      BY <2>3, <3>1, FieldCases DEF EnumIntersection, Enum
    <3>3. QED
      BY <3>2 DEF InWidth
  <2>4. CASE f.kind = "interval" /\ g.kind = "interval"
    <3>1. h = Interval(HigherOf(f.min, g.min), LowerOf(f.max, g.max))
      BY <1>4, <2>4 DEF FieldIntersection, IntervalIntersection
    <3>2. QED
      BY <1>1, <1>3, <2>4, <3>1 DEF HigherOf, LowerOf
  <2>5. QED
    BY <2>1, <2>2, <2>3, <2>4, FieldCases
<1>5. ASSUME NEW h \in FieldDifference(f, g) PROVE InWidth(h)
  <2>1. CASE f.kind = "any" \/ f.kind # g.kind
    BY <1>5, <2>1 DEF FieldDifference
  <2>2. CASE f.kind = "enum" /\ g.kind = "enum"
    <3>1. h = EnumDifference(f, g)
      BY <1>5, <2>2 DEF FieldDifference
    <3>2. h.kind = "enum"
      BY <2>2, <3>1, FieldCases DEF EnumDifference, Enum
    <3>3. QED
      BY <3>2 DEF InWidth
  <2>3. CASE f.kind = "interval" /\ g.kind = "interval"
    <3>1. \/ h = Interval(f.min, LowerOf(f.max, g.min))
          \/ h = Interval(HigherOf(f.min, g.max), f.max)
      BY <1>5, <2>3 DEF FieldDifference, IntervalDifference
    <3>2. QED
      BY <1>1, <1>3, <2>3, <3>1 DEF HigherOf, LowerOf
  <2>4. QED
    BY <2>1, <2>2, <2>3, FieldCases
<1>6. QED
  BY <1>4, <1>5

LEMMA SizedPackets ==
    ASSUME NEW p, IsSized(p)
    PROVE  IsPacket(p) /\ \A k \in DOMAIN p : p[k] \in Fields /\ InWidth(p[k])
BY PacketFields DEF IsSized

LEMMA IntersectionIsSized ==
    ASSUME NEW p, IsSized(p), NEW c, IsSized(c), Comparable(p, c),
           NEW r \in PacketIntersection(p, c)
    PROVE  IsSized(r)
<1>1. IsPacket(r) /\ DOMAIN r = DOMAIN p
  BY SizedPackets, IntersectionOfPackets
<1>2. ASSUME NEW k \in DOMAIN p PROVE InWidth(r[k])
  <2>1. r[k] \in IF k \in DOMAIN c THEN FieldIntersection(p[k], c[k]) ELSE {p[k]}
    BY DEF PacketIntersection
  <2>2. p[k] \in Fields /\ InWidth(p[k])
    BY SizedPackets
  <2>3. k \in DOMAIN c => c[k] \in Fields /\ InWidth(c[k])
    BY SizedPackets
  <2>4. QED
    BY <2>1, <2>2, <2>3, FieldsStayInWidth
<1>3. QED
  BY <1>1, <1>2 DEF IsSized

LEMMA DifferenceIsSized ==
    ASSUME NEW p, IsSized(p), NEW c, IsSized(c), Comparable(p, c),
           NEW r \in PacketDifference(p, c)
    PROVE  IsSized(r)
<1>1. IsPacket(r) /\ DOMAIN r = DOMAIN p
  BY SizedPackets, DifferenceOfPackets
<1>2. PICK k \in DOMAIN c : \E d \in FieldDifference(p[k], c[k]) : r = [p EXCEPT ![k] = d]
  BY DEF PacketDifference
<1>0. PICK d \in FieldDifference(p[k], c[k]) : r = [p EXCEPT ![k] = d]
  BY <1>2
<1>3. InWidth(d)
  BY SizedPackets, FieldsStayInWidth DEF Comparable
<1>4. \A j \in DOMAIN p : r[j] = d \/ r[j] = p[j]
  BY <1>0
<1>5. QED
  BY <1>1, <1>3, <1>4, SizedPackets DEF IsSized

\* What values may be said to become.
Said == Letters \cup {Other} \cup Int

\* What is on the stack: a field for each packet of the clause, and what is said.
OnStack == [value : [own -> Fields], says : [mine -> SUBSET Said]]

\* What is said of values is in the field that a packet has which stands for them.
Covers(e) ==
    \A p \in own :
        /\ InWidth(e.value[p])
        /\ exact => \A x \in mine : x \in PacketMeaning(p) => e.says[x] \subseteq Meaning(e.value[p])

\* What is kept of a packet that meets no condition has its keys, and fields of their kinds.
LeftOf(r, p) == DOMAIN r = DOMAIN p /\ \A k \in DOMAIN r : r[k].kind = p[k].kind

FuncTypes ==
    /\ function \in Seq(Clauses)
    /\ \A p \in given \cup conditions \cup others \cup own : IsSized(p)
    /\ exact \in BOOLEAN
    /\ \A x \in waiting \cup mine : \A k \in DOMAIN x : x[k] \in Said
    /\ \A r \in others : doing = "conditions" => \E p \in given : LeftOf(r, p)

\* Where the function is: the last part has no condition and leaves nothing over.
FuncPlace ==
    /\ doing \in {"clause", "conditions", "fields", "expression"}
    /\ doing = "conditions" => Len(function) > 1
    /\ doing \in {"fields", "expression"} =>
          function # <<>> /\ (Len(function) = 1 => others = {})
    /\ function = <<>> => given = {}
    /\ doing \in {"clause", "conditions"} => assigned = <<>>

FuncStack ==
    /\ doing # "expression" => stack = <<>>
    /\ doing = "expression" => /\ code \in Seq(Nodes) /\ stack \in Seq(OnStack)
                               /\ \A i \in 1 .. Len(stack) : Covers(stack[i])

\* The values that have no part yet, and those whose part is under way, are still there.
FuncKeeps ==
    /\ doing = "clause" => waiting \subseteq All(given)
    /\ doing = "conditions" =>
          /\ waiting \cup mine \subseteq All(given)
          /\ \A x \in mine : x \in All(own) \/ Meets(x, conditions)
          /\ \A x \in waiting : x \in All(others) /\ ~ Meets(x, conditions)
    /\ doing \in {"fields", "expression"} =>
          /\ mine \subseteq All(own) /\ waiting \subseteq All(others)
          /\ \A k \in DOMAIN assigned : \A x \in mine : \A v \in assigned[k].says[x] :
                \E f \in assigned[k].values : v \in Meaning(f)

ResultCovers ==
    \A x \in DOMAIN outcomes : \A y \in outcomes[x] :
        \E r \in result : DOMAIN r = DOMAIN y /\ Accepts(r, y)

FuncInv == FuncTypes /\ FuncPlace /\ FuncStack /\ (exact => FuncKeeps /\ ResultCovers)

LEMMA PacketsOfAll ==
    ASSUME NEW ps
    PROVE  /\ \A x \in All(ps) : \E p \in ps : x \in PacketMeaning(p)
           /\ \A p \in ps : PacketMeaning(p) \subseteq All(ps)
BY InAll

LEMMA SaidOfPacket ==
    ASSUME NEW p, IsSized(p), NEW x \in PacketMeaning(p), NEW k \in DOMAIN x
    PROVE  DOMAIN x = DOMAIN p /\ x[k] \in Said
<1>1. DOMAIN x = DOMAIN p /\ x[k] \in Meaning(p[k])
  BY MeaningOfPacket
<1>2. p[k] \in Fields
  BY <1>1, SizedPackets
<1>3. Meaning(p[k]) \subseteq Said
  <2>1. CASE p[k].kind = "any"
    BY <1>2, <2>1, PacketsAssumption, FieldCases DEF Meaning, Values, Said
  <2>2. CASE p[k].kind = "enum"
    BY <1>2, <2>2, FieldCases DEF Said
  <2>3. CASE p[k].kind = "interval"
    BY <1>2, <2>3, FieldCases DEF Said
  <2>4. QED
    BY <1>2, <2>1, <2>2, <2>3, FieldCases
<1>4. QED
  BY <1>1, <1>3

\* What the assumption says of the clause that is next.
LEMMA NextClause ==
    ASSUME function \in Seq(Clauses), function # <<>>
    PROVE  /\ Head(function) \in Clauses /\ Tail(function) \in Seq(Clauses)
           /\ Len(Tail(function)) = Len(function) - 1
           /\ \A p \in Head(function).conditions : IsSized(p)
           /\ \A k \in DOMAIN Head(function).fields : Head(function).fields[k] \in Seq(Nodes)
<1>1. /\ Head(function) \in Clauses /\ Tail(function) \in Seq(Clauses)
      /\ Len(Tail(function)) = Len(function) - 1
  OBVIOUS
<1>2. QED
  BY <1>1, FunctionsAssumption

LEMMA FunctionStarts == FuncInit => FuncInv
<1> SUFFICES ASSUME FuncInit PROVE FuncInv
  OBVIOUS
<1>1. /\ function \in Seq(Clauses) /\ function # <<>> /\ \A p \in given : IsSized(p)
      /\ doing = "clause" /\ conditions = {} /\ others = {} /\ own = {} /\ stack = <<>>
      /\ assigned = <<>> /\ waiting = All(given) /\ mine = {} /\ outcomes = <<>> /\ exact = TRUE
  BY FunctionsAssumption DEF FuncInit
<1>2. ASSUME NEW x \in waiting, NEW k \in DOMAIN x PROVE x[k] \in Said
  BY <1>1, <1>2, PacketsOfAll, SaidOfPacket
<1>3. FuncTypes
  BY <1>1, <1>2 DEF FuncTypes
<1>4. FuncPlace /\ FuncStack
  BY <1>1 DEF FuncPlace, FuncStack
<1>5. FuncKeeps /\ ResultCovers
  BY <1>1 DEF FuncKeeps, ResultCovers
<1>6. QED
  BY <1>3, <1>4, <1>5 DEF FuncInv

LEMMA FailKeeps == FuncInv /\ Fail => FuncInv'
<1> SUFFICES ASSUME FuncInv, Fail PROVE FuncInv'
  OBVIOUS
<1>1. /\ doing' = doing /\ function' = function /\ given' = given /\ conditions' = conditions
      /\ others' = others /\ own' = own /\ code' = code /\ stack' = stack /\ assigned' = assigned
      /\ result' = result /\ waiting' = waiting /\ mine' = mine /\ outcomes' = outcomes
      /\ exact' = exact
  BY DEF Fail, clauseVars, fieldVars, saidVars
<1>2. FuncTypes'
  BY <1>1 DEF FuncInv, FuncTypes, LeftOf
<1>3. FuncPlace'
  BY <1>1 DEF FuncInv, FuncPlace
<1>4. OnStack' = OnStack /\ \A e : Covers(e)' <=> Covers(e)
  BY <1>1 DEF OnStack, Covers
<1>5. FuncStack'
  BY <1>1, <1>4 DEF FuncInv, FuncStack
<1>6. exact' => FuncKeeps' /\ ResultCovers'
  BY <1>1 DEF FuncInv, FuncKeeps, ResultCovers, Meets
<1>7. QED
  BY <1>2, <1>3, <1>5, <1>6 DEF FuncInv

LEMMA IfKeeps == FuncInv /\ If => FuncInv'
<1> SUFFICES ASSUME FuncInv, If PROVE FuncInv'
  OBVIOUS
<1>1. /\ doing = "clause" /\ doing' = "conditions" /\ Len(function) > 1
      /\ function' = function /\ given' = given /\ conditions' = Head(function).conditions
      /\ others' = given /\ own' = {} /\ stack' = stack /\ assigned' = assigned
      /\ mine' = {x \in waiting : Meets(x, conditions')} /\ waiting' = waiting \ mine'
      /\ result' = result /\ outcomes' = outcomes /\ exact' = exact
  BY DEF If, fieldVars
<1>2. /\ function \in Seq(Clauses) /\ stack = <<>> /\ assigned = <<>> /\ exact \in BOOLEAN
      /\ \A p \in given : IsSized(p)
      /\ \A x \in waiting : \A k \in DOMAIN x : x[k] \in Said
  BY <1>1 DEF FuncInv, FuncTypes, FuncPlace, FuncStack
<1>3. function # <<>>
  BY <1>1, <1>2
<1>4. \A p \in conditions' : IsSized(p)
  BY <1>1, <1>2, <1>3, NextClause
<1>5. \A r \in given : LeftOf(r, r)
  BY DEF LeftOf
<1>6. FuncTypes'
  <2>1. \A x \in waiting' \cup mine' : x \in waiting
    BY <1>1
  <2>2. \A r \in others' : \E p \in given' : LeftOf(r, p)'
    BY <1>1, <1>5
  <2>3. QED
    BY <1>1, <1>2, <1>4, <2>1, <2>2 DEF FuncTypes
<1>7. FuncPlace' /\ FuncStack'
  BY <1>1, <1>2, <1>3 DEF FuncPlace, FuncStack
<1>8. ASSUME exact' PROVE FuncKeeps' /\ ResultCovers'
  <2>1. waiting \subseteq All(given) /\ ResultCovers
    BY <1>1, <1>8 DEF FuncInv, FuncKeeps
  <2>2. ResultCovers'
    BY <1>1, <2>1 DEF ResultCovers
  <2>3. \A x \in waiting' : x \in All(others') /\ ~ Meets(x, conditions')
    BY <1>1, <2>1
  <2>4. \A x \in mine' : Meets(x, conditions')
    BY <1>1
  <2>5. waiting' \cup mine' \subseteq All(given')
    BY <1>1, <2>1
  <2>6. FuncKeeps'
    BY <1>1, <2>3, <2>4, <2>5 DEF FuncKeeps
  <2>7. QED
    BY <2>2, <2>6
<1>9. QED
  BY <1>6, <1>7, <1>8 DEF FuncInv

LEMMA ElseKeeps == FuncInv /\ Else => FuncInv'
<1> SUFFICES ASSUME FuncInv, Else PROVE FuncInv'
  OBVIOUS
<1>1. /\ doing = "clause" /\ doing' = "fields" /\ Len(function) = 1
      /\ function' = function /\ given' = given /\ conditions' = conditions
      /\ others' = {} /\ own' = given /\ stack' = stack /\ assigned' = assigned
      /\ mine' = waiting /\ waiting' = {}
      /\ result' = result /\ outcomes' = outcomes /\ exact' = exact
  BY DEF Else, fieldVars
<1>2. /\ function \in Seq(Clauses) /\ stack = <<>> /\ assigned = <<>> /\ exact \in BOOLEAN
      /\ \A p \in given \cup conditions : IsSized(p)
      /\ \A x \in waiting : \A k \in DOMAIN x : x[k] \in Said
  BY <1>1 DEF FuncInv, FuncTypes, FuncPlace, FuncStack
<1>3. function # <<>>
  BY <1>1, <1>2
<1>4. FuncTypes'
  BY <1>1, <1>2 DEF FuncTypes
<1>5. FuncPlace' /\ FuncStack'
  BY <1>1, <1>2, <1>3 DEF FuncPlace, FuncStack
<1>6. ASSUME exact' PROVE FuncKeeps' /\ ResultCovers'
  <2>1. waiting \subseteq All(given) /\ ResultCovers
    BY <1>1, <1>6 DEF FuncInv, FuncKeeps
  <2>2. ResultCovers'
    BY <1>1, <2>1 DEF ResultCovers
  <2>3. DOMAIN assigned' = {}
    BY <1>1, <1>2
  <2>4. FuncKeeps'
    BY <1>1, <2>1, <2>3 DEF FuncKeeps
  <2>5. QED
    BY <2>2, <2>4
<1>7. QED
  BY <1>4, <1>5, <1>6 DEF FuncInv

\* A condition that is looked at: the values that meet it are with the packets of the
\* clause, those that do not are left over.
LEMMA ConditionSplits ==
    ASSUME NEW p, IsSized(p), NEW c, IsSized(c), Comparable(p, c), SameKinds(c, p),
           NEW x \in PacketMeaning(p)
    PROVE  /\ Comparable(x, c)
           /\ Accepts(c, x) => x \in All(PacketIntersection(p, c))
           /\ ~ Accepts(c, x) => x \in All(PacketDifference(p, c))
<1>1. IsPacket(p) /\ IsPacket(c)
  BY SizedPackets
<1>2. DOMAIN x = DOMAIN p
  BY MeaningOfPacket
<1>3. All(PacketIntersection(p, c)) = {y \in PacketMeaning(p) : Accepts(c, y)}
  BY <1>1, IntersectionOfPackets
<1>4. All(PacketDifference(p, c)) = {y \in PacketMeaning(p) : ~ Accepts(c, y)}
  BY <1>1, DifferenceOfPackets
<1>5. QED
  BY <1>2, <1>3, <1>4 DEF Comparable

LEMMA MeetConditionKeeps == FuncInv /\ MeetCondition => FuncInv'
<1> SUFFICES ASSUME FuncInv, MeetCondition PROVE FuncInv'
  OBVIOUS
<1>1. doing = "conditions"
  BY DEF MeetCondition
<1>2. PICK c \in conditions :
          IF \E p \in given : ~ Comparable(p, c) THEN Fail
          ELSE /\ conditions' = conditions \ {c}
               /\ own' = own \cup UNION {PacketIntersection(p, c) : p \in given}
               /\ others' = UNION {PacketDifference(p, c) : p \in others}
               /\ exact' = (exact /\ \A p \in given : SameKinds(c, p))
               /\ UNCHANGED <<doing, function, given, fieldVars, result, failed, wraps, waiting,
                              mine, outcomes>>
  BY DEF MeetCondition
<1>3. CASE \E p \in given : ~ Comparable(p, c)
  BY <1>2, <1>3, FailKeeps
<1>4. CASE \A p \in given : Comparable(p, c)
  <2>1. /\ conditions' = conditions \ {c}
        /\ own' = own \cup UNION {PacketIntersection(p, c) : p \in given}
        /\ others' = UNION {PacketDifference(p, c) : p \in others}
        /\ exact' = (exact /\ \A p \in given : SameKinds(c, p))
        /\ doing' = doing /\ function' = function /\ given' = given /\ stack' = stack
        /\ assigned' = assigned /\ result' = result /\ waiting' = waiting /\ mine' = mine
        /\ outcomes' = outcomes
    BY <1>2, <1>4 DEF fieldVars
  <2>2. /\ function \in Seq(Clauses) /\ stack = <<>> /\ assigned = <<>> /\ exact \in BOOLEAN
        /\ \A p \in given \cup conditions \cup others \cup own : IsSized(p)
        /\ \A x \in waiting \cup mine : \A k \in DOMAIN x : x[k] \in Said
        /\ \A r \in others : \E p \in given : LeftOf(r, p)
        /\ Len(function) > 1 /\ function # <<>>
    BY <1>1 DEF FuncInv, FuncTypes, FuncPlace, FuncStack
  <2>3. IsSized(c)
    BY <1>2, <2>2
  <2>4. ASSUME NEW p \in others
        PROVE  Comparable(p, c) /\ (exact' => SameKinds(c, p))
    <3>1. PICK g \in given : LeftOf(p, g)
      BY <2>2
    <3>2. Comparable(g, c)
      BY <1>4
    <3>3. SameKinds(c, g) => SameKinds(c, p)
      BY <3>1, <3>2 DEF SameKinds, LeftOf, Comparable
    <3>4. QED
      BY <2>1, <3>1, <3>2, <3>3 DEF Comparable, LeftOf
  <2>5. ASSUME NEW r \in own' PROVE IsSized(r)
    <3>1. CASE r \in own
      BY <2>2, <3>1
    <3>2. CASE r \notin own
      <4>1. PICK p \in given : r \in PacketIntersection(p, c)
        BY <2>1, <3>2
      <4>2. QED
        BY <1>4, <2>2, <2>3, <4>1, IntersectionIsSized
    <3>3. QED
      BY <3>1, <3>2
  <2>6. ASSUME NEW r \in others' PROVE IsSized(r) /\ \E p \in given : LeftOf(r, p)
    <3>1. PICK p \in others : r \in PacketDifference(p, c)
      BY <2>1
    <3>2. IsSized(p) /\ Comparable(p, c) /\ IsPacket(p) /\ IsPacket(c)
      BY <2>2, <2>3, <2>4, SizedPackets
    <3>3. LeftOf(r, p)
      BY <3>1, <3>2, DifferenceOfPackets DEF LeftOf
    <3>4. PICK g \in given : LeftOf(p, g)
      BY <2>2
    <3>5. LeftOf(r, g)
      BY <3>3, <3>4 DEF LeftOf
    <3>6. QED
      BY <2>3, <3>1, <3>2, <3>5, DifferenceIsSized
  <2>7. FuncTypes'
    <3>1. \A r \in others' : \E p \in given' : LeftOf(r, p)'
      BY <2>1, <2>6 DEF LeftOf
    <3>2. exact' \in BOOLEAN
      BY <2>1
    <3>3. \A p \in given' \cup conditions' \cup others' \cup own' : IsSized(p)
      BY <2>1, <2>2, <2>5, <2>6
    <3>4. QED
      BY <2>1, <2>2, <3>1, <3>2, <3>3 DEF FuncTypes
  <2>8. FuncPlace' /\ FuncStack'
    BY <1>1, <2>1, <2>2 DEF FuncPlace, FuncStack
  <2>9. ASSUME exact' PROVE FuncKeeps' /\ ResultCovers'
    <3>1. /\ waiting \cup mine \subseteq All(given) /\ ResultCovers
          /\ \A x \in mine : x \in All(own) \/ Meets(x, conditions)
          /\ \A x \in waiting : x \in All(others) /\ ~ Meets(x, conditions)
      BY <1>1, <2>1, <2>9 DEF FuncInv, FuncKeeps
    <3>2. ResultCovers'
      BY <2>1, <3>1 DEF ResultCovers
    <3>3. ASSUME NEW x \in mine PROVE x \in All(own') \/ Meets(x, conditions')
      <4>1. CASE x \in All(own)
        BY <2>1, <4>1, PacketsOfAll
      <4>2. CASE Meets(x, conditions)
        <5>1. PICK d \in conditions : Comparable(x, d) /\ Accepts(d, x)
          BY <4>2 DEF Meets
        <5>2. CASE d # c
          BY <2>1, <5>1, <5>2 DEF Meets
        <5>3. CASE d = c
          <6>1. PICK p \in given : x \in PacketMeaning(p)
            BY <3>1, PacketsOfAll
          <6>2. x \in All(PacketIntersection(p, c))
            BY <1>4, <2>1, <2>2, <2>3, <2>9, <5>1, <5>3, <6>1, ConditionSplits
          <6>3. PacketIntersection(p, c) \subseteq own'
            BY <2>1
          <6>4. QED
            BY <6>2, <6>3, PacketsOfAll
        <5>4. QED
          BY <5>2, <5>3
      <4>3. QED
        BY <3>1, <4>1, <4>2
    <3>4. ASSUME NEW x \in waiting PROVE x \in All(others') /\ ~ Meets(x, conditions')
      <4>1. PICK p \in others : x \in PacketMeaning(p)
        BY <3>1, PacketsOfAll
      <4>2. Comparable(x, c) /\ (~ Accepts(c, x) => x \in All(PacketDifference(p, c)))
        BY <2>2, <2>3, <2>4, <2>9, <4>1, ConditionSplits
      <4>3. ~ Accepts(c, x)
        BY <3>1, <4>2 DEF Meets
      <4>4. PacketDifference(p, c) \subseteq others'
        BY <2>1
      <4>5. ~ Meets(x, conditions')
        BY <2>1, <3>1 DEF Meets
      <4>6. QED
        BY <4>2, <4>3, <4>4, <4>5, PacketsOfAll
    <3>5. FuncKeeps'
      BY <1>1, <2>1, <3>1, <3>3, <3>4 DEF FuncKeeps
    <3>6. QED
      BY <3>2, <3>5
  <2>10. QED
    BY <2>7, <2>8, <2>9 DEF FuncInv
<1>5. QED
  BY <1>3, <1>4

LEMMA ConditionsMetKeeps == FuncInv /\ ConditionsMet => FuncInv'
<1> SUFFICES ASSUME FuncInv, ConditionsMet PROVE FuncInv'
  OBVIOUS
<1>1. /\ doing = "conditions" /\ doing' = "fields" /\ conditions = {}
      /\ function' = function /\ given' = given /\ conditions' = conditions
      /\ others' = others /\ own' = own /\ stack' = stack /\ assigned' = assigned
      /\ mine' = mine /\ waiting' = waiting
      /\ result' = result /\ outcomes' = outcomes /\ exact' = exact
  BY DEF ConditionsMet, clauseVars, fieldVars, saidVars
<1>0. function \in Seq(Clauses) /\ stack = <<>> /\ assigned = <<>> /\ Len(function) > 1
  BY <1>1 DEF FuncInv, FuncTypes, FuncPlace, FuncStack
<1>2. /\ function \in Seq(Clauses) /\ stack = <<>> /\ assigned = <<>>
      /\ Len(function) # 1 /\ function # <<>>
  <2>1. Len(function) \in Nat /\ Len(function) # 1
    BY ONLY <1>0
  <2>2. function # <<>>
    BY ONLY <1>0
  <2>3. QED
    BY <1>0, <2>1, <2>2
<1>3. FuncTypes'
  BY <1>1 DEF FuncInv, FuncTypes
<1>4. FuncPlace' /\ FuncStack'
  BY <1>1, <1>2 DEF FuncPlace, FuncStack
<1>5. ASSUME exact' PROVE FuncKeeps' /\ ResultCovers'
  <2>1. /\ ResultCovers /\ \A x \in mine : x \in All(own) \/ Meets(x, conditions)
        /\ \A x \in waiting : x \in All(others)
    BY <1>1, <1>5 DEF FuncInv, FuncKeeps
  <2>2. \A x \in mine : x \in All(own)
    BY <1>1, <2>1 DEF Meets
  <2>3. ResultCovers'
    BY <1>1, <2>1 DEF ResultCovers
  <2>4. DOMAIN assigned' = {}
    BY <1>1, <1>2
  <2>5. FuncKeeps'
    BY <1>1, <2>1, <2>2, <2>4 DEF FuncKeeps
  <2>6. QED
    BY <2>3, <2>5
<1>6. QED
  BY <1>3, <1>4, <1>5 DEF FuncInv

LEMMA AssignKeeps == FuncInv /\ Assign => FuncInv'
<1> SUFFICES ASSUME FuncInv, Assign PROVE FuncInv'
  OBVIOUS
<1>1. doing = "fields"
  BY DEF Assign
<1>2. PICK k \in DOMAIN ToAssign \ DOMAIN assigned : assignee' = k /\ code' = ToAssign[k]
  BY DEF Assign
<1>3. /\ doing' = "expression" /\ function' = function /\ given' = given
      /\ conditions' = conditions /\ others' = others /\ own' = own /\ stack' = stack
      /\ assigned' = assigned /\ mine' = mine /\ waiting' = waiting
      /\ result' = result /\ outcomes' = outcomes /\ exact' = exact
  BY DEF Assign, clauseVars, saidVars
<1>4. /\ function \in Seq(Clauses) /\ stack = <<>> /\ function # <<>>
      /\ Len(function) = 1 => others = {}
  BY <1>1 DEF FuncInv, FuncTypes, FuncPlace, FuncStack
<1>5. code' \in Seq(Nodes)
  BY <1>2, <1>4, NextClause DEF ToAssign
<1>6. FuncTypes'
  BY <1>1, <1>3 DEF FuncInv, FuncTypes
<1>7. FuncPlace'
  BY <1>3, <1>4 DEF FuncPlace
<1>8. FuncStack'
  <2>1. stack' = <<>> /\ <<>> \in Seq(OnStack')
    BY <1>3, <1>4
  <2>2. \A i \in 1 .. Len(stack') : FALSE
    BY <2>1
  <2>3. QED
    BY <1>3, <1>5, <2>1, <2>2 DEF FuncStack
<1>9. exact' => FuncKeeps' /\ ResultCovers'
  BY <1>1, <1>3 DEF FuncInv, FuncKeeps, ResultCovers
<1>10. QED
  BY <1>6, <1>7, <1>8, <1>9 DEF FuncInv

\* A node returns e, in place of n operands, and e covers what is said.
Pushes(n, e) ==
    /\ doing = "expression" /\ code # <<>> /\ n <= Len(stack)
    /\ code' = Tail(code) /\ stack' = Append(SubSeq(stack, 1, Len(stack) - n), e)
    /\ doing' = doing /\ clauseVars' = clauseVars /\ assigned' = assigned /\ result' = result
    /\ waiting' = waiting /\ mine' = mine /\ outcomes' = outcomes
    /\ exact' \in BOOLEAN /\ (exact' => exact)
    /\ \A p \in own :
          /\ InWidth(e.value[p])
          /\ exact' => \A x \in mine : x \in PacketMeaning(p) => e.says[x] \subseteq Meaning(e.value[p])

LEMMA ReturnKeeps ==
    ASSUME FuncInv, NEW n \in Nat, NEW e \in OnStack, Pushes(n, e)
    PROVE  FuncInv'
<1>0. /\ doing = "expression" /\ code # <<>> /\ n <= Len(stack)
      /\ code' = Tail(code) /\ stack' = Append(SubSeq(stack, 1, Len(stack) - n), e)
      /\ doing' = doing /\ clauseVars' = clauseVars /\ assigned' = assigned /\ result' = result
      /\ waiting' = waiting /\ mine' = mine /\ outcomes' = outcomes
      /\ exact' \in BOOLEAN /\ (exact' => exact)
      /\ \A p \in own :
            /\ InWidth(e.value[p])
            /\ exact' => \A x \in mine : x \in PacketMeaning(p) => e.says[x] \subseteq Meaning(e.value[p])
  BY DEF Pushes
<1>1. /\ function' = function /\ given' = given /\ conditions' = conditions
      /\ others' = others /\ own' = own
  BY <1>0 DEF clauseVars
<1>2. FuncTypes'
  BY <1>0, <1>1 DEF FuncInv, FuncTypes
<1>3. FuncPlace'
  BY <1>0, <1>1 DEF FuncInv, FuncPlace
<1>4. /\ code \in Seq(Nodes) /\ stack \in Seq(OnStack)
      /\ \A i \in 1 .. Len(stack) : Covers(stack[i])
  BY <1>0 DEF FuncInv, FuncStack
<1>5. OnStack' = OnStack
  BY <1>0, <1>1 DEF OnStack
<1> DEFINE kept == SubSeq(stack, 1, Len(stack) - n)
<1>6. /\ kept \in Seq(OnStack) /\ Len(kept) = Len(stack) - n /\ Len(kept) \in Nat
      /\ \A i \in 1 .. Len(kept) : i \in 1 .. Len(stack) /\ kept[i] = stack[i]
  BY <1>0, <1>4
<1>7. \A f : Covers(f) => Covers(f)'
  BY <1>0, <1>1 DEF Covers
<1>8. Covers(e)'
  BY <1>0, <1>1 DEF Covers
<1>9. FuncStack'
  <2>1. code' \in Seq(Nodes)
    BY <1>0, <1>4
  <2>2. stack' = Append(kept, e)
    BY <1>0
  <2> HIDE DEF kept
  <2>3. e \in OnStack /\ kept \in Seq(OnStack)
    BY <1>6
  <2>4. /\ Append(kept, e) \in Seq(OnStack) /\ Len(Append(kept, e)) = Len(kept) + 1
        /\ \A i \in 1 .. Len(kept) + 1 :
              Append(kept, e)[i] = IF i = Len(kept) + 1 THEN e ELSE kept[i]
    BY ONLY <2>3
  <2>5. stack' \in Seq(OnStack) /\ Len(stack') = Len(kept) + 1
    BY <2>2, <2>4
  <2>6. ASSUME NEW i \in 1 .. Len(stack') PROVE Covers(stack[i])'
    <3>1. stack'[i] = IF i = Len(kept) + 1 THEN e ELSE kept[i]
      BY <2>2, <2>5, <2>4
    <3>2. CASE i = Len(kept) + 1
      BY <1>8, <3>1, <3>2
    <3>3. CASE i # Len(kept) + 1
      <4>0. i \in 1 .. Len(kept) + 1 /\ Len(kept) \in Nat
        BY <1>6, <2>5
      <4>1. i \in 1 .. Len(kept)
        BY ONLY <3>3, <4>0
      <4>2. i \in 1 .. Len(stack) /\ stack'[i] = stack[i]
        BY <1>6, <3>1, <3>3, <4>1
      <4>3. QED
        BY <1>4, <1>7, <4>2
    <3>4. QED
      BY <3>2, <3>3
  <2>7. QED
    BY <1>0, <1>5, <2>1, <2>5, <2>6 DEF FuncStack
<1>10. exact' => FuncKeeps' /\ ResultCovers'
  BY <1>0, <1>1 DEF FuncInv, FuncKeeps, ResultCovers
<1>11. QED
  BY <1>2, <1>3, <1>9, <1>10 DEF FuncInv

\* What a node finds on the stack.
LEMMA OperandsAre ==
    ASSUME FuncInv, doing = "expression", NEW i \in Nat, i < Len(stack)
    PROVE  /\ Returned(i).value \in [own -> Fields] /\ Returned(i).says \in [mine -> SUBSET Said]
           /\ \A p \in own : /\ Returned(i).value[p] \in Fields /\ InWidth(Returned(i).value[p])
                             /\ exact => \A x \in mine : x \in PacketMeaning(p) =>
                                  Returned(i).says[x] \subseteq Meaning(Returned(i).value[p])
<1>1. stack \in Seq(OnStack) /\ \A j \in 1 .. Len(stack) : Covers(stack[j])
  BY DEF FuncInv, FuncStack
<1>2. Len(stack) - i \in 1 .. Len(stack)
  BY <1>1
<1>3. Returned(i) \in OnStack /\ Covers(Returned(i))
  BY <1>1, <1>2 DEF Returned
<1>4. Returned(i).value \in [own -> Fields] /\ Returned(i).says \in [mine -> SUBSET Said]
  BY <1>3 DEF OnStack
<1>5. QED
  BY <1>3, <1>4 DEF Covers

LEMMA NextNode ==
    ASSUME FuncInv, doing = "expression", code # <<>>
    PROVE  /\ Head(code) \in Nodes /\ Len(stack) \in Nat /\ exact \in BOOLEAN
           /\ \A p \in own : IsSized(p)
           /\ \A x \in mine : \A k \in DOMAIN x : x[k] \in Said
BY DEF FuncInv, FuncTypes, FuncStack

LEMMA FieldAccessKeeps == FuncInv /\ FieldAccess => FuncInv'
<1> SUFFICES ASSUME FuncInv, FieldAccess PROVE FuncInv'
  OBVIOUS
<1> DEFINE k == Head(code).key
           e == [value |-> [p \in own |-> p[k]],
                 says |-> [x \in mine |-> IF k \in DOMAIN x THEN {x[k]} ELSE {}]]
<1>1. doing = "expression" /\ code # <<>>
  BY DEF FieldAccess, At
<1>2. CASE \E p \in own : k \notin DOMAIN p
  BY <1>2, FailKeeps DEF FieldAccess
<1>3. CASE \A p \in own : k \in DOMAIN p
  <2>1. /\ code' = Tail(code) /\ stack' = Append(SubSeq(stack, 1, Len(stack) - 0), e)
        /\ doing' = doing /\ clauseVars' = clauseVars /\ assigned' = assigned /\ result' = result
        /\ waiting' = waiting /\ mine' = mine /\ outcomes' = outcomes /\ exact' = exact
    BY <1>3 DEF FieldAccess, Return
  <2>2. /\ Len(stack) \in Nat /\ exact \in BOOLEAN /\ \A p \in own : IsSized(p)
        /\ \A x \in mine : \A j \in DOMAIN x : x[j] \in Said
    BY <1>1, NextNode
  <2> HIDE DEF k
  <2>3. ASSUME NEW p \in own PROVE p[k] \in Fields /\ InWidth(p[k])
    BY <1>3, <2>2, SizedPackets
  <2>4. ASSUME NEW x \in mine PROVE e.says[x] \in SUBSET Said
    BY <2>2
  <2>5. e \in OnStack
    BY <2>3, <2>4 DEF OnStack
  <2>6. ASSUME NEW p \in own PROVE e.value[p] = p[k]
    OBVIOUS
  <2>7. ASSUME NEW p \in own, NEW x \in mine, x \in PacketMeaning(p)
        PROVE  e.says[x] \subseteq Meaning(e.value[p])
    <3>1. k \in DOMAIN x /\ x[k] \in Meaning(p[k])
      BY <1>3, <2>7, MeaningOfPacket
    <3>2. QED
      BY <3>1, <2>6
  <2> HIDE DEF e
  <2>8. \A p \in own : InWidth(e.value[p])
    BY <2>3, <2>6
  <2>9. Pushes(0, e)
    BY <1>1, <2>1, <2>2, <2>7, <2>8 DEF Pushes
  <2>10. QED
    BY <2>5, <2>9, ReturnKeeps
<1>4. QED
  BY <1>2, <1>3

LEMMA NumberKeeps == FuncInv /\ Number => FuncInv'
<1> SUFFICES ASSUME FuncInv, Number PROVE FuncInv'
  OBVIOUS
<1> DEFINE n == Head(code).value
           e == [value |-> [p \in own |-> Interval(n, n + 1)], says |-> [x \in mine |-> {n}]]
<1>1. doing = "expression" /\ code # <<>> /\ Head(code).op = "constant"
  BY DEF Number, At
<1>2. /\ code' = Tail(code) /\ stack' = Append(SubSeq(stack, 1, Len(stack) - 0), e)
      /\ doing' = doing /\ clauseVars' = clauseVars /\ assigned' = assigned /\ result' = result
      /\ waiting' = waiting /\ mine' = mine /\ outcomes' = outcomes /\ exact' = exact
  BY DEF Number, Return
<1>3. Len(stack) \in Nat /\ exact \in BOOLEAN /\ Head(code) \in Nodes
  BY <1>1, NextNode
<1>4. Fits(n) /\ Fits(n + 1) /\ n \in Int /\ n + 1 \in Int
  <2>1. Fits(n) /\ Fits(n + 1)
    BY <1>1, <1>3, FunctionsAssumption
  <2>2. QED
    BY <2>1, PacketsAssumption DEF Fits, MinValue
<1> HIDE DEF n
<1>5. /\ Interval(n, n + 1) \in Fields /\ InWidth(Interval(n, n + 1))
      /\ n \in Meaning(Interval(n, n + 1))
  BY <1>4, IntervalMeaning DEF InWidth
<1>6. e \in OnStack
  BY <1>4, <1>5 DEF OnStack, Said
<1>7. \A p \in own : InWidth(e.value[p]) /\ \A x \in mine : e.says[x] \subseteq Meaning(e.value[p])
  BY <1>5
<1> HIDE DEF e
<1>8. Pushes(0, e)
  BY <1>1, <1>2, <1>3, <1>7 DEF Pushes
<1>9. QED
  BY <1>6, <1>8, ReturnKeeps

\* The operands of a sum or a difference.
LEMMA NumericOperands ==
    ASSUME FuncInv, doing = "expression", code # <<>>, Len(stack) > 1, Numeric,
           NEW i \in {0, 1}, NEW p \in own
    PROVE  /\ Returned(i).value[p] \in Fields /\ Returned(i).value[p].kind = "interval"
           /\ InWidth(Returned(i).value[p])
           /\ exact => \A x \in mine : x \in PacketMeaning(p) =>
                           NumbersOf(i, x) \subseteq Meaning(Returned(i).value[p])
<1>1. Len(stack) \in Nat
  BY NextNode
<1>2. i \in Nat /\ i < Len(stack)
  BY <1>1
<1>3. QED
  BY <1>2, OperandsAre DEF Numeric, NumbersOf

\* What is said within the width are numbers.
LEMMA InRangeIs ==
    \A vs : InRange(vs) \subseteq Int /\ \A v \in InRange(vs) : v \in vs /\ Fits(v) /\ v # MaxValue
BY PacketsAssumption DEF InRange, Fits, MinValue

LEMMA AdditionKeeps == FuncInv /\ Addition => FuncInv'
<1> SUFFICES ASSUME FuncInv, Addition PROVE FuncInv'
  OBVIOUS
<1> DEFINE f(p) == Returned(1).value[p]
           g(p) == Returned(0).value[p]
           sums(x) == InRange({i + j : i \in NumbersOf(1, x), j \in NumbersOf(0, x)})
           e == [value |-> [p \in own |-> AddField(f(p), g(p))], says |-> [x \in mine |-> sums(x)]]
<1>1. doing = "expression" /\ code # <<>> /\ Len(stack) > 1
  BY DEF Addition, At
<1>2. CASE ~ Numeric
  BY <1>2, FailKeeps DEF Addition
<1>3. CASE Numeric
  <2>1. /\ code' = Tail(code) /\ stack' = Append(SubSeq(stack, 1, Len(stack) - 2), e)
        /\ doing' = doing /\ clauseVars' = clauseVars /\ assigned' = assigned /\ result' = result
        /\ waiting' = waiting /\ mine' = mine /\ outcomes' = outcomes
        /\ exact' = (exact /\ \A p \in own : Fits(f(p).min + g(p).min))
    BY <1>3 DEF Addition, Return
  <2>2. Len(stack) \in Nat /\ exact \in BOOLEAN
    BY <1>1, NextNode
  <2>3. exact' \in BOOLEAN /\ (exact' => exact)
    BY <2>1, <2>2
  <2>4. ASSUME NEW p \in own
        PROVE  /\ f(p) \in Fields /\ f(p).kind = "interval" /\ InWidth(f(p))
               /\ g(p) \in Fields /\ g(p).kind = "interval" /\ InWidth(g(p))
               /\ exact => \A x \in mine : x \in PacketMeaning(p) =>
                    NumbersOf(1, x) \subseteq Meaning(f(p)) /\ NumbersOf(0, x) \subseteq Meaning(g(p))
    BY <1>1, <1>3, NumericOperands
  <2>5. ASSUME NEW x \in mine PROVE sums(x) \in SUBSET Said
    BY InRangeIs DEF Said
  <2>6. ASSUME NEW p \in own
        PROVE  /\ AddField(f(p), g(p)) \in Fields /\ InWidth(AddField(f(p), g(p)))
               /\ Fits(f(p).min + g(p).min) =>
                    \A i \in Meaning(f(p)), j \in Meaning(g(p)) :
                        Fits(i + j) /\ i + j # MaxValue => i + j \in Meaning(AddField(f(p), g(p)))
    <3> HIDE DEF f, g
    <3>1. QED
      BY <2>4, AdditionMeans
  <2>7. /\ e \in OnStack /\ \A p \in own : e.value[p] = AddField(f(p), g(p))
        /\ \A x \in mine : e.says[x] = sums(x)
    <3> HIDE DEF f, g, sums
    <3>1. QED
      BY <2>5, <2>6 DEF OnStack
  <2>8. ASSUME exact', NEW p \in own, NEW x \in mine, x \in PacketMeaning(p)
        PROVE  e.says[x] \subseteq Meaning(e.value[p])
    <3>1. NumbersOf(1, x) \subseteq Meaning(f(p)) /\ NumbersOf(0, x) \subseteq Meaning(g(p))
      BY <2>3, <2>4, <2>8
    <3>2. Fits(f(p).min + g(p).min)
      BY <2>1, <2>8
    <3>3. ASSUME NEW v \in sums(x) PROVE v \in Meaning(AddField(f(p), g(p)))
      <4>1. PICK i \in NumbersOf(1, x), j \in NumbersOf(0, x) : v = i + j
        BY <3>3, InRangeIs
      <4>2. Fits(i + j) /\ i + j # MaxValue
        BY <3>3, <4>1, InRangeIs
      <4> HIDE DEF f, g
      <4>3. QED
        BY <2>6, <3>1, <3>2, <4>1, <4>2
    <3>4. QED
      BY <2>7, <3>3
  <2> HIDE DEF e
  <2>9. \A p \in own : InWidth(e.value[p])
    BY <2>6, <2>7
  <2>10. Pushes(2, e)
    BY <1>1, <2>1, <2>2, <2>3, <2>8, <2>9 DEF Pushes
  <2>11. e \in OnStack
    BY <2>7
  <2>12. QED
    BY <2>10, <2>11, ReturnKeeps
<1>4. QED
  BY <1>2, <1>3

LEMMA MinusKeeps == FuncInv /\ Minus => FuncInv'
<1> SUFFICES ASSUME FuncInv, Minus PROVE FuncInv'
  OBVIOUS
<1> DEFINE f(p) == Returned(1).value[p]
           g(p) == Returned(0).value[p]
           differences(x) == InRange({i - j : i \in NumbersOf(1, x), j \in NumbersOf(0, x)})
           e == [value |-> [p \in own |-> MinusField(f(p), g(p))],
                 says |-> [x \in mine |-> differences(x)]]
<1>1. doing = "expression" /\ code # <<>> /\ Len(stack) > 1
  BY DEF Minus, At
<1>2. CASE ~ Numeric
  BY <1>2, FailKeeps DEF Minus
<1>3. CASE Numeric
  <2>1. /\ code' = Tail(code) /\ stack' = Append(SubSeq(stack, 1, Len(stack) - 2), e)
        /\ doing' = doing /\ clauseVars' = clauseVars /\ assigned' = assigned /\ result' = result
        /\ waiting' = waiting /\ mine' = mine /\ outcomes' = outcomes
        /\ exact' = (exact /\ \A p \in own : /\ Fits(f(p).min - g(p).max + 1)
                                             /\ Fits(f(p).max - g(p).min))
    BY <1>3 DEF Minus, Return
  <2>2. Len(stack) \in Nat /\ exact \in BOOLEAN
    BY <1>1, NextNode
  <2>3. exact' \in BOOLEAN /\ (exact' => exact)
    BY <2>1, <2>2
  <2>4. ASSUME NEW p \in own
        PROVE  /\ f(p) \in Fields /\ f(p).kind = "interval" /\ InWidth(f(p))
               /\ g(p) \in Fields /\ g(p).kind = "interval" /\ InWidth(g(p))
               /\ exact => \A x \in mine : x \in PacketMeaning(p) =>
                    NumbersOf(1, x) \subseteq Meaning(f(p)) /\ NumbersOf(0, x) \subseteq Meaning(g(p))
    BY <1>1, <1>3, NumericOperands
  <2>5. ASSUME NEW x \in mine PROVE differences(x) \in SUBSET Said
    BY InRangeIs DEF Said
  <2>6. ASSUME NEW p \in own
        PROVE  /\ MinusField(f(p), g(p)) \in Fields /\ InWidth(MinusField(f(p), g(p)))
               /\ Fits(f(p).min - g(p).max + 1) /\ Fits(f(p).max - g(p).min) =>
                    \A i \in Meaning(f(p)), j \in Meaning(g(p)) :
                        Fits(i - j) /\ i - j # MaxValue => i - j \in Meaning(MinusField(f(p), g(p)))
    <3> HIDE DEF f, g
    <3>1. QED
      BY <2>4, DifferenceMeans
  <2>7. /\ e \in OnStack /\ \A p \in own : e.value[p] = MinusField(f(p), g(p))
        /\ \A x \in mine : e.says[x] = differences(x)
    <3> HIDE DEF f, g, differences
    <3>1. QED
      BY <2>5, <2>6 DEF OnStack
  <2>8. ASSUME exact', NEW p \in own, NEW x \in mine, x \in PacketMeaning(p)
        PROVE  e.says[x] \subseteq Meaning(e.value[p])
    <3>1. NumbersOf(1, x) \subseteq Meaning(f(p)) /\ NumbersOf(0, x) \subseteq Meaning(g(p))
      BY <2>3, <2>4, <2>8
    <3>2. Fits(f(p).min - g(p).max + 1) /\ Fits(f(p).max - g(p).min)
      BY <2>1, <2>8
    <3>3. ASSUME NEW v \in differences(x) PROVE v \in Meaning(MinusField(f(p), g(p)))
      <4>1. PICK i \in NumbersOf(1, x), j \in NumbersOf(0, x) : v = i - j
        BY <3>3, InRangeIs
      <4>2. Fits(i - j) /\ i - j # MaxValue
        BY <3>3, <4>1, InRangeIs
      <4> HIDE DEF f, g
      <4>3. QED
        BY <2>6, <3>1, <3>2, <4>1, <4>2
    <3>4. QED
      BY <2>7, <3>3
  <2> HIDE DEF e
  <2>9. \A p \in own : InWidth(e.value[p])
    BY <2>6, <2>7
  <2>10. Pushes(2, e)
    BY <1>1, <2>1, <2>2, <2>3, <2>8, <2>9 DEF Pushes
  <2>11. e \in OnStack
    BY <2>7
  <2>12. QED
    BY <2>10, <2>11, ReturnKeeps
<1>4. QED
  BY <1>2, <1>3

LEMMA MulDivKeeps == FuncInv /\ MulDiv => FuncInv'
<1> SUFFICES ASSUME FuncInv, MulDiv PROVE FuncInv'
  OBVIOUS
<1> DEFINE e == [value |-> [p \in own |-> AnyField], says |-> [x \in mine |-> {}]]
<1>1. doing = "expression" /\ code # <<>> /\ Len(stack) > 1
  BY DEF MulDiv, At
<1>2. CASE own # {}
  BY <1>2, FailKeeps DEF MulDiv
<1>3. CASE own = {}
  <2>1. /\ code' = Tail(code) /\ stack' = Append(SubSeq(stack, 1, Len(stack) - 2), e)
        /\ doing' = doing /\ clauseVars' = clauseVars /\ assigned' = assigned /\ result' = result
        /\ waiting' = waiting /\ mine' = mine /\ outcomes' = outcomes /\ exact' = exact
    BY <1>3 DEF MulDiv, Return
  <2>2. Len(stack) \in Nat /\ exact \in BOOLEAN
    BY <1>1, NextNode
  <2>3. e \in OnStack
    BY <1>3 DEF OnStack
  <2> HIDE DEF e
  <2>4. Pushes(2, e)
    BY <1>1, <1>3, <2>1, <2>2 DEF Pushes
  <2>5. QED
    BY <2>3, <2>4, ReturnKeeps
<1>4. QED
  BY <1>2, <1>3

LEMMA SubstitutionKeeps == FuncInv /\ Substitution => FuncInv'
<1> SUFFICES ASSUME FuncInv, Substitution PROVE FuncInv'
  OBVIOUS
<1> DEFINE map == Head(code).map
           f(p) == Returned(0).value[p]
           letters(x) == UNION {Substitute(map, v) : v \in Returned(0).says[x]}
           e == [value |-> [p \in own |-> SubstituteField(map, f(p))],
                 says |-> [x \in mine |-> letters(x)]]
           no == \E p \in own : \/ f(p).kind # "enum"
                                \/ \E v \in f(p).values : Substitute(map, v) = {}
<1>1. doing = "expression" /\ code # <<>> /\ Head(code).op = "with" /\ stack # <<>>
  BY DEF Substitution, At
<1>2. CASE no
  BY <1>2, FailKeeps DEF Substitution
<1>3. CASE ~ no
  <2>1. /\ code' = Tail(code) /\ stack' = Append(SubSeq(stack, 1, Len(stack) - 1), e)
        /\ doing' = doing /\ clauseVars' = clauseVars /\ assigned' = assigned /\ result' = result
        /\ waiting' = waiting /\ mine' = mine /\ outcomes' = outcomes
        /\ exact' = (exact /\ \A p \in own : ~ f(p).complement)
    BY <1>3 DEF Substitution, Return
  <2>2. /\ Len(stack) \in Nat /\ Len(stack) > 0 /\ exact \in BOOLEAN
        /\ \A v \in DOMAIN map : map[v] \in Letters
    <3>1. /\ Len(stack) \in Nat /\ exact \in BOOLEAN /\ Head(code) \in Nodes
          /\ stack \in Seq(OnStack)
      BY <1>1, NextNode DEF FuncInv, FuncStack
    <3>2. Len(stack) > 0
      BY <1>1, <3>1
    <3>3. \A v \in DOMAIN map : map[v] \in Letters
      BY <1>1, <3>1, FunctionsAssumption
    <3>4. QED
      BY <3>1, <3>2, <3>3
  <2>3. exact' \in BOOLEAN /\ (exact' => exact)
    BY <2>1, <2>2
  <2>4. ASSUME NEW p \in own
        PROVE  /\ f(p) \in Fields /\ f(p).kind = "enum"
               /\ exact => \A x \in mine : x \in PacketMeaning(p) =>
                    Returned(0).says[x] \subseteq Meaning(f(p))
    <3>1. 0 \in Nat /\ 0 < Len(stack)
      BY <2>2
    <3>2. QED
      BY <1>1, <1>3, <3>1, OperandsAre
  <2> HIDE DEF map, no
  <2>5. ASSUME NEW x \in mine PROVE letters(x) \in SUBSET Said
    BY <2>2 DEF Said, Substitute
  <2>6. ASSUME NEW p \in own
        PROVE  /\ SubstituteField(map, f(p)) \in Fields /\ InWidth(SubstituteField(map, f(p)))
               /\ ~ f(p).complement => \A v \in Meaning(f(p)) :
                    Substitute(map, v) \subseteq Meaning(SubstituteField(map, f(p)))
    <3> HIDE DEF f
    <3>1. QED
      BY <2>2, <2>4, SubstitutionMeans
  <2>7. /\ e \in OnStack /\ \A p \in own : e.value[p] = SubstituteField(map, f(p))
        /\ \A x \in mine : e.says[x] = letters(x)
    <3> HIDE DEF f, letters
    <3>1. QED
      BY <2>5, <2>6 DEF OnStack
  <2>8. ASSUME exact', NEW p \in own, NEW x \in mine, x \in PacketMeaning(p)
        PROVE  e.says[x] \subseteq Meaning(e.value[p])
    <3>1. Returned(0).says[x] \subseteq Meaning(f(p)) /\ ~ f(p).complement
      BY <2>1, <2>3, <2>4, <2>8
    <3>2. ASSUME NEW v \in letters(x) PROVE v \in Meaning(SubstituteField(map, f(p)))
      BY <2>6, <3>1, <3>2
    <3>3. QED
      BY <2>7, <3>2
  <2> HIDE DEF e
  <2>9. \A p \in own : InWidth(e.value[p])
    BY <2>6, <2>7
  <2>10. Pushes(1, e)
    BY <1>1, <2>1, <2>2, <2>3, <2>8, <2>9 DEF Pushes
  <2>11. e \in OnStack
    BY <2>7
  <2>12. QED
    BY <2>10, <2>11, ReturnKeeps
<1>4. QED
  BY <1>2, <1>3

LEMMA AssignDoneKeeps == FuncInv /\ AssignDone => FuncInv'
<1> SUFFICES ASSUME FuncInv, AssignDone PROVE FuncInv'
  OBVIOUS
<1> DEFINE e == Returned(0)
<1>1. /\ doing = "expression" /\ doing' = "fields" /\ Len(stack) = 1
      /\ assigned' = [k \in DOMAIN assigned \cup {assignee} |->
                       IF k = assignee THEN [values |-> Range(e.value), says |-> e.says]
                       ELSE assigned[k]]
      /\ stack' = <<>> /\ function' = function /\ given' = given /\ conditions' = conditions
      /\ others' = others /\ own' = own /\ mine' = mine /\ waiting' = waiting
      /\ result' = result /\ outcomes' = outcomes /\ exact' = exact
  BY DEF AssignDone, clauseVars, saidVars
<1>2. 0 \in Nat /\ 0 < Len(stack)
  BY <1>1
<1>3. /\ e.value \in [own -> Fields] /\ e.says \in [mine -> SUBSET Said]
      /\ \A p \in own : exact => \A x \in mine : x \in PacketMeaning(p) =>
                                    e.says[x] \subseteq Meaning(e.value[p])
  BY <1>1, <1>2, OperandsAre
<1>4. FuncTypes'
  BY <1>1 DEF FuncInv, FuncTypes
<1>5. FuncPlace' /\ FuncStack'
  BY <1>1 DEF FuncInv, FuncPlace, FuncStack
<1> HIDE DEF e
<1>6. ASSUME exact' PROVE FuncKeeps' /\ ResultCovers'
  <2>1. /\ ResultCovers /\ mine \subseteq All(own) /\ waiting \subseteq All(others)
        /\ \A k \in DOMAIN assigned : \A x \in mine : \A v \in assigned[k].says[x] :
               \E f \in assigned[k].values : v \in Meaning(f)
    BY <1>1, <1>6 DEF FuncInv, FuncKeeps
  <2>2. ResultCovers'
    BY <1>1, <2>1 DEF ResultCovers
  <2>3. ASSUME NEW k \in DOMAIN assigned', NEW x \in mine, NEW v \in assigned'[k].says[x]
        PROVE  \E f \in assigned'[k].values : v \in Meaning(f)
    <3>1. CASE k = assignee
      <4>1. assigned'[k].values = Range(e.value) /\ assigned'[k].says = e.says
        BY <1>1, <3>1
      <4>2. PICK p \in own : x \in PacketMeaning(p)
        BY <2>1, PacketsOfAll
      <4>3. v \in Meaning(e.value[p])
        BY <1>1, <1>3, <1>6, <2>3, <4>1, <4>2
      <4>4. e.value[p] \in Range(e.value)
        BY <1>3 DEF Range
      <4>5. QED
        BY <4>1, <4>3, <4>4
    <3>2. CASE k # assignee
      <4>1. k \in DOMAIN assigned /\ assigned'[k] = assigned[k]
        BY <1>1, <3>2
      <4>2. QED
        BY <2>1, <2>3, <4>1
    <3>3. QED
      BY <3>1, <3>2
  <2>4. FuncKeeps'
    BY <1>1, <2>1, <2>3 DEF FuncKeeps
  <2>5. QED
    BY <2>2, <2>4
<1>7. QED
  BY <1>4, <1>5, <1>6 DEF FuncInv

LEMMA ClauseDoneKeeps == FuncInv /\ ClauseDone => FuncInv'
<1> SUFFICES ASSUME FuncInv, ClauseDone PROVE FuncInv'
  OBVIOUS
<1> DEFINE keys == DOMAIN ToAssign
           packets == {r \in [keys -> UNION {assigned[k].values : k \in keys}] :
                          \A k \in keys : r[k] \in assigned[k].values}
           become(x) == {r \in [keys -> UNION {assigned[k].says[x] : k \in keys}] :
                            \A k \in keys : r[k] \in assigned[k].says[x]}
<1>1. /\ doing = "fields" /\ doing' = "clause" /\ DOMAIN assigned = keys
      /\ result' = result \cup packets
      /\ outcomes' = [x \in DOMAIN outcomes \cup mine |->
                         IF x \in mine THEN become(x) ELSE outcomes[x]]
      /\ function' = IF others = {} THEN <<>> ELSE Tail(function)
      /\ given' = others /\ others' = {} /\ own' = {} /\ mine' = {} /\ assigned' = <<>>
      /\ conditions' = conditions /\ stack' = stack /\ waiting' = waiting /\ exact' = exact
  BY DEF ClauseDone, Combinations
<1>2. /\ function \in Seq(Clauses) /\ function # <<>> /\ stack = <<>> /\ exact \in BOOLEAN
      /\ Len(function) = 1 => others = {}
      /\ \A p \in others \cup conditions : IsSized(p)
      /\ \A x \in waiting : \A k \in DOMAIN x : x[k] \in Said
  BY <1>1 DEF FuncInv, FuncTypes, FuncPlace, FuncStack
<1>3. function' \in Seq(Clauses) /\ (function' = <<>> => others = {})
  <2>1. CASE others = {}
    BY <1>1, <2>1
  <2>2. CASE others # {}
    <3>1. /\ function' = Tail(function) /\ Tail(function) \in Seq(Clauses)
          /\ Len(Tail(function)) = Len(function) - 1 /\ Len(function) # 1
      BY <1>1, <1>2, <2>2, NextClause
    <3>2. QED
      BY <2>2, <3>1, <1>2
  <2>3. QED
    BY <2>1, <2>2
<1>4. FuncTypes'
  BY <1>1, <1>2, <1>3 DEF FuncTypes
<1>5. FuncPlace' /\ FuncStack'
  BY <1>1, <1>2, <1>3 DEF FuncPlace, FuncStack
<1>6. ASSUME exact' PROVE FuncKeeps' /\ ResultCovers'
  <2>1. /\ ResultCovers /\ waiting \subseteq All(others)
        /\ \A k \in DOMAIN assigned : \A x \in mine : \A v \in assigned[k].says[x] :
               \E f \in assigned[k].values : v \in Meaning(f)
    BY <1>1, <1>6 DEF FuncInv, FuncKeeps
  <2>2. FuncKeeps'
    BY <1>1, <2>1 DEF FuncKeeps
  <2>3. ASSUME NEW x \in mine, NEW y \in become(x)
        PROVE  \E r \in packets : DOMAIN r = DOMAIN y /\ Accepts(r, y)
    <3>1. DOMAIN y = keys /\ \A k \in keys : y[k] \in assigned[k].says[x]
      OBVIOUS
    <3> DEFINE r == [k \in keys |-> CHOOSE f \in assigned[k].values : y[k] \in Meaning(f)]
    <3>2. ASSUME NEW k \in keys PROVE r[k] \in assigned[k].values /\ y[k] \in Meaning(r[k])
      <4>1. \E f \in assigned[k].values : y[k] \in Meaning(f)
        BY <1>1, <2>1, <3>1
      <4>2. QED
        BY <4>1
    <3>3. DOMAIN r = keys /\ r \in [keys -> UNION {assigned[k].values : k \in keys}]
      BY <3>2
    <3> HIDE DEF r, keys
    <3>4. r \in packets
      BY <3>2, <3>3
    <3>5. DOMAIN r = DOMAIN y /\ Accepts(r, y)
      BY <3>1, <3>2, <3>3 DEF Accepts
    <3>6. QED
      BY <3>4, <3>5
  <2> HIDE DEF packets, become, keys
  <2>4. ASSUME NEW x \in DOMAIN outcomes', NEW y \in outcomes'[x]
        PROVE  \E r \in result' : DOMAIN r = DOMAIN y /\ Accepts(r, y)
    <3>1. CASE x \in mine
      <4>1. y \in become(x)
        BY <1>1, <2>4, <3>1
      <4>2. QED
        BY <1>1, <2>3, <3>1, <4>1
    <3>2. CASE x \notin mine
      <4>1. x \in DOMAIN outcomes /\ y \in outcomes[x]
        BY <1>1, <2>4, <3>2
      <4>2. QED
        BY <1>1, <2>1, <4>1 DEF ResultCovers
    <3>3. QED
      BY <3>1, <3>2
  <2>5. ResultCovers'
    BY <2>4 DEF ResultCovers
  <2>6. QED
    BY <2>2, <2>5
<1>7. QED
  BY <1>4, <1>5, <1>6 DEF FuncInv

LEMMA FunctionStays == FuncInv /\ UNCHANGED funcVars => FuncInv'
<1> SUFFICES ASSUME FuncInv, UNCHANGED funcVars PROVE FuncInv'
  OBVIOUS
<1>1. /\ doing' = doing /\ function' = function /\ given' = given /\ conditions' = conditions
      /\ others' = others /\ own' = own /\ code' = code /\ stack' = stack /\ assigned' = assigned
      /\ result' = result /\ waiting' = waiting /\ mine' = mine /\ outcomes' = outcomes
      /\ exact' = exact
  BY DEF funcVars, clauseVars, fieldVars, saidVars
<1>2. FuncTypes' /\ FuncPlace'
  BY <1>1 DEF FuncInv, FuncTypes, FuncPlace, LeftOf
<1>3. OnStack' = OnStack /\ \A e : Covers(e)' <=> Covers(e)
  BY <1>1 DEF OnStack, Covers
<1>4. FuncStack'
  BY <1>1, <1>3 DEF FuncInv, FuncStack
<1>5. exact' => FuncKeeps' /\ ResultCovers'
  BY <1>1 DEF FuncInv, FuncKeeps, ResultCovers, Meets
<1>6. QED
  BY <1>2, <1>4, <1>5 DEF FuncInv

\* Whatever has been done of a function, what it was given is accounted for.
THEOREM FunctionsInvariance == FuncSpec => []FuncInv
<1>1. FuncInit => FuncInv
  BY FunctionStarts
<1>2. FuncInv /\ [FuncNext]_funcVars => FuncInv'
  <2> SUFFICES ASSUME FuncInv, [FuncNext]_funcVars PROVE FuncInv'
    OBVIOUS
  <2>1. CASE If
    BY <2>1, IfKeeps
  <2>2. CASE Else
    BY <2>2, ElseKeeps
  <2>3. CASE MeetCondition
    BY <2>3, MeetConditionKeeps
  <2>4. CASE ConditionsMet
    BY <2>4, ConditionsMetKeeps
  <2>5. CASE Assign
    BY <2>5, AssignKeeps
  <2>6. CASE FieldAccess
    BY <2>6, FieldAccessKeeps
  <2>7. CASE Number
    BY <2>7, NumberKeeps
  <2>8. CASE Addition
    BY <2>8, AdditionKeeps
  <2>9. CASE Minus
    BY <2>9, MinusKeeps
  <2>10. CASE MulDiv
    BY <2>10, MulDivKeeps
  <2>11. CASE Substitution
    BY <2>11, SubstitutionKeeps
  <2>12. CASE AssignDone
    BY <2>12, AssignDoneKeeps
  <2>13. CASE ClauseDone
    BY <2>13, ClauseDoneKeeps
  <2>14. CASE UNCHANGED funcVars
    BY <2>14, FunctionStays
  <2>15. QED
    BY <2>1, <2>2, <2>3, <2>4, <2>5, <2>6, <2>7, <2>8, <2>9, <2>10, <2>11, <2>12, <2>13,
       <2>14 DEF FuncNext
<1>3. QED
  BY <1>1, <1>2, PTL DEF FuncSpec

\* A function that ends leaves nothing out, for any functions, packets and width of numbers.
THEOREM FunctionsAlwaysCover == FuncSpec => []FunctionCovers
<1>1. FuncInv => FunctionCovers
  <2> SUFFICES ASSUME FuncInv, function = <<>>, ~ failed, exact PROVE
               waiting = {} /\ ResultCovers
    BY DEF FunctionCovers, ResultCovers
  <2>1. doing = "clause" /\ given = {}
    BY DEF FuncInv, FuncTypes, FuncPlace
  <2>2. waiting \subseteq All({}) /\ ResultCovers
    BY <2>1 DEF FuncInv, FuncKeeps
  <2>3. waiting = {}
    BY <2>2, PacketsOfAll
  <2>4. QED
    BY <2>2, <2>3
<1>2. QED
  BY <1>1, FunctionsInvariance, PTL
==============================================================================
