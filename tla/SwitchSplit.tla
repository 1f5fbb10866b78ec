------------------------------ MODULE SwitchSplit ------------------------------
(***************************************************************************)
(* How a switch distributes a packet over its two outputs: the visitors of *)
(* XMASSwitch in symbolic.cpp and in messagespec.cpp, and the conditions   *)
(* of ParsedXMASFunction.  Output a gets what the packet has in common     *)
(* with each packet of the switching function, output b what is left when  *)
(* they are subtracted one after the other.                                *)
(***************************************************************************)
EXTENDS SymbolicPackets

CONSTANTS Packets,          \* packets that may arrive
          SwitchFunctions    \* switching functions: sets of packets

ASSUME SwitchAssumption ==
    \A p \in Packets \cup UNION SwitchFunctions : IsPacket(p)

VARIABLES packet,       \* the packet that arrives
          todo,         \* packets of the switching function not looked at
          seen,         \* history: those that were
          outA,         \* retval for output a
          outB          \* retval for output b

splitVars == <<packet, todo, seen, outA, outB>>

SplitInit ==
    /\ packet \in Packets
    /\ todo \in SwitchFunctions
    /\ seen = {}
    /\ outA = {}
    /\ outB = {packet}

\* Mutant of Left: subtracts from the packet that arrived.
LeftOfPacket(f) == PacketDifference(packet, f)

\* newRetval: the differences of all that was left.
Left(f) == UNION {PacketDifference(r, f) : r \in outB}

Common(f) == PacketIntersection(packet, f)

\* One turn of both loops; the order is that of a std::set of hash values.  A
\* field that the packet does not have ends both with an exception.
Split(f) ==
    /\ f \in todo
    /\ Comparable(packet, f)
    /\ outA' = outA \cup Common(f)
    /\ outB' = Left(f)
    /\ todo' = todo \ {f}
    /\ seen' = seen \cup {f}
    /\ UNCHANGED packet

SplitNext == \E f \in UNION SwitchFunctions : Split(f)

SplitSpec == SplitInit /\ [][SplitNext]_splitVars
------------------------------------------------------------------------------
\* The switching function restricts fields to values of the kind they have.
OfOneKind ==
    \A f \in seen : \A k \in DOMAIN f : packet[k].kind = f[k].kind /\ f[k].kind # "any"

\* A switch takes no packet apart and loses none: in whatever order the switching
\* function is looked at, and however its packets overlap, what leaves through output a
\* is accepted by one of them, what leaves through output b by none; and each value that
\* arrives leaves, as long as values of one kind are compared.  (A name is compared with
\* numbers, or anything with something, as if there were nothing left.)
SwitchIsExact ==
    /\ \A x \in All(outA) : \E f \in seen : Accepts(f, x)
    /\ \A x \in All(outB) : \A f \in seen : ~ Accepts(f, x)
    /\ OfOneKind => All(outA) \cup All(outB) = PacketMeaning(packet)

\* The enumerations say which values they have and not which they have not.
Listed(p) == \A k \in DOMAIN p : p[k].kind = "enum" => ~ p[k].complement

\* The values of which the negation of a field takes the others.
Universe(f) == IF f.kind = "interval" THEN 0 .. MaxValue - 1 ELSE Letters \cup {Other}

\* What simplify() and the parser rely on.  Containment, by which simplify() erases
\* packets, is containment of what they stand for; the combination of packets neither
\* adds a value to a type nor takes one from it, as long as the enumerations are listed;
\* and of a packet with one field negate() is the complement, so that "key != value"
\* holds for what "key == value" does not.  (With more fields it is not: only what is
\* outside of all of them is in the negation.)
AlgebraExact ==
    LET S == {p \in outA \cup outB \cup {packet} : PacketValid(p)}
    IN  \A p \in S :
          /\ \A r \in S : SameKinds(p, r) =>
                /\ PacketContains(p, r) <=> PacketMeaning(r) \subseteq PacketMeaning(p)
                /\ Listed(p) /\ Listed(r) /\ PacketCombinable(p, r) =>
                     PacketMeaning(PacketCombine(p, r)) = PacketMeaning(p) \cup PacketMeaning(r)
          /\ \A k \in DOMAIN p :
                p[k].kind # "any" /\ Meaning(p[k]) \subseteq Universe(p[k]) =>
                  All(PacketNegate(Restrict(p, {k}))) =
                     [{k} -> Universe(p[k])] \ PacketMeaning(Restrict(p, {k}))
==============================================================================
