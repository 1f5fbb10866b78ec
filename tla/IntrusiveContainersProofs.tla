----------------------- MODULE IntrusiveContainersProofs -----------------------
(***************************************************************************)
(* Proofs about IntrusiveContainers, for any finite set of elements and    *)
(* any Deques, Queues and Stacks: whatever is pushed, erased, split and    *)
(* spliced, the links stay well formed and the containers are sequences.   *)
(***************************************************************************)
EXTENDS IntrusiveContainers, FiniteSetTheorems, FunctionTheorems,
        SequenceTheorems, WellFoundedInduction, TLAPS

\* A set of natural numbers has a least one.
LEMMA LeastOf ==
    ASSUME NEW T \in SUBSET Nat, T # {}
    PROVE  \E k \in T : \A j \in T : k <= j
<1>1. PICK k \in T : \A j \in T : <<j, k>> \notin OpToRel(<, Nat)
  BY NatLessThanWellFounded, WFMin
<1>2. \A j \in T : ~ (j < k)
  BY <1>1 DEF OpToRel
<1>3. QED
  BY <1>2
------------------------------------------------------------------------------
(* Sequences, by their ends. *)

First(s) == IF s = <<>> THEN Null ELSE s[1]
Final(s) == IF s = <<>> THEN Null ELSE s[Len(s)]

\* Elements that stand next to each other, and the links between them, forward and back.
Neighbours(s) == {<<s[i], s[i + 1]>> : i \in 1 .. Len(s) - 1}
Linked(next, s) == \A p \in Neighbours(s) : next[p[1]] = p[2]
Backed(prev, s) == \A p \in Neighbours(s) : prev[p[2]] = p[1]

LEMMA Indices ==
    ASSUME NEW S, NEW s \in Seq(S)
    PROVE  /\ Len(s) \in Nat /\ DOMAIN s = 1 .. Len(s)
           /\ \A i \in 1 .. Len(s) : s[i] \in S
           /\ s = <<>> <=> Len(s) = 0
           /\ ToSet(s) \subseteq S
BY DEF ToSet

\* The ends of a sequence are elements of it.
LEMMA EndsOf ==
    ASSUME NEW s \in Seq(Elements)
    PROVE  /\ First(s) \in Elements \cup {Null} /\ Final(s) \in Elements \cup {Null}
           /\ s = <<>> <=> First(s) = Null
           /\ s = <<>> <=> Final(s) = Null
           /\ s # <<>> => First(s) \in ToSet(s) /\ Final(s) \in ToSet(s)
           /\ s # <<>> => First(s) \in Elements /\ Final(s) \in Elements
           /\ ToSet(s) \subseteq Elements
           /\ s = <<>> <=> ToSet(s) = {}
<1>1. CASE s = <<>>
  BY <1>1 DEF First, Final, ToSet
<1>2. CASE s # <<>>
  <2>1. 1 \in DOMAIN s /\ Len(s) \in DOMAIN s
    BY <1>2, Indices
  <2>2. \A i \in DOMAIN s : s[i] \in Elements /\ s[i] \in ToSet(s)
    BY Indices DEF ToSet
  <2>3. QED
    BY <1>2, <2>1, <2>2, ContainersAssumption, Indices DEF First, Final
<1>3. QED
  BY <1>1, <1>2

\* One sequence behind another.
LEMMA Joined ==
    ASSUME NEW S, NEW s \in Seq(S), NEW t \in Seq(S)
    PROVE  /\ s \o t \in Seq(S) /\ Len(s \o t) = Len(s) + Len(t)
           /\ \A i \in 1 .. Len(s) : (s \o t)[i] = s[i]
           /\ \A i \in 1 .. Len(t) : (s \o t)[Len(s) + i] = t[i]
           /\ \A i \in 1 .. Len(s \o t) :
                 \/ i \in 1 .. Len(s)
                 \/ \E j \in 1 .. Len(t) : i = Len(s) + j
           /\ ToSet(s \o t) = ToSet(s) \cup ToSet(t)
           /\ s \o t = <<>> <=> s = <<>> /\ t = <<>>
<1> DEFINE u == s \o t
<1>1. u \in Seq(S) /\ Len(u) = Len(s) + Len(t) /\ Len(s) \in Nat /\ Len(t) \in Nat
  OBVIOUS
<1>2. /\ \A i \in 1 .. Len(s) : u[i] = s[i]
      /\ \A i \in 1 .. Len(t) : u[Len(s) + i] = t[i]
  BY <1>1, ConcatProperties
<1> HIDE DEF u
<1>3. ASSUME NEW i \in 1 .. Len(u), i \notin 1 .. Len(s)
      PROVE  \E j \in 1 .. Len(t) : i = Len(s) + j
  <2>1. i - Len(s) \in 1 .. Len(t) /\ i = Len(s) + (i - Len(s))
    BY <1>1, <1>3
  <2>2. QED
    BY <2>1
<1>4. ToSet(u) = ToSet(s) \cup ToSet(t)
  <2>1. DOMAIN u = 1 .. Len(u) /\ DOMAIN s = 1 .. Len(s) /\ DOMAIN t = 1 .. Len(t)
    BY <1>1, Indices
  <2>2. \A i \in DOMAIN s : i \in DOMAIN u
    BY <1>1, <2>1
  <2>3. \A i \in DOMAIN t : Len(s) + i \in DOMAIN u
    BY <1>1, <2>1
  <2>4. ASSUME NEW i \in DOMAIN u
        PROVE  (\E j \in DOMAIN s : u[i] = s[j]) \/ \E j \in DOMAIN t : u[i] = t[j]
    <3>1. CASE i \in 1 .. Len(s)
      BY <1>2, <2>1, <3>1
    <3>2. CASE i \notin 1 .. Len(s)
      <4>1. PICK j \in 1 .. Len(t) : i = Len(s) + j
        BY <1>3, <2>1, <3>2
      <4>2. QED
        BY <1>2, <2>1, <4>1
    <3>3. QED
      BY <3>1, <3>2
  <2>5. /\ \A j \in DOMAIN s : \E i \in DOMAIN u : u[i] = s[j]
        /\ \A j \in DOMAIN t : \E i \in DOMAIN u : u[i] = t[j]
    BY <1>2, <2>1, <2>2, <2>3
  <2>6. QED
    BY <2>4, <2>5 DEF ToSet
<1>5. u = <<>> <=> s = <<>> /\ t = <<>>
  BY <1>1, Indices
<1>6. QED
  BY <1>1, <1>2, <1>3, <1>4, <1>5 DEF u

\* Sequences without repetition that have nothing in common, one behind the other.
LEMMA JoinedOnce ==
    ASSUME NEW S, NEW s \in Seq(S), NEW t \in Seq(S)
    PROVE  IsInjective(s \o t) <=> /\ IsInjective(s) /\ IsInjective(t)
                                   /\ ToSet(s) \cap ToSet(t) = {}
<1> DEFINE u == s \o t
<1>1. /\ DOMAIN u = 1 .. Len(u) /\ DOMAIN s = 1 .. Len(s) /\ DOMAIN t = 1 .. Len(t)
      /\ Len(u) = Len(s) + Len(t) /\ Len(s) \in Nat /\ Len(t) \in Nat
  BY Joined, Indices
<1>2. /\ \A i \in DOMAIN s : i \in DOMAIN u /\ u[i] = s[i]
      /\ \A i \in DOMAIN t : Len(s) + i \in DOMAIN u /\ u[Len(s) + i] = t[i]
      /\ \A i \in DOMAIN u : i \in DOMAIN s \/ \E j \in DOMAIN t : i = Len(s) + j
  <2>1. \A i \in DOMAIN s : i \in DOMAIN u
    BY <1>1
  <2>2. \A i \in DOMAIN t : Len(s) + i \in DOMAIN u
    BY <1>1
  <2>3. /\ \A i \in 1 .. Len(s) : u[i] = s[i]
        /\ \A i \in 1 .. Len(t) : u[Len(s) + i] = t[i]
        /\ \A i \in 1 .. Len(u) : i \in 1 .. Len(s) \/ \E j \in 1 .. Len(t) : i = Len(s) + j
    BY Joined
  <2>4. QED
    BY <1>1, <2>1, <2>2, <2>3
<1>3. \A i \in DOMAIN s, j \in DOMAIN t : i # Len(s) + j
  BY <1>1
<1>4. \A i, j \in DOMAIN t : Len(s) + i = Len(s) + j => i = j
  BY <1>1
<1> HIDE DEF u
<1>5. ASSUME IsInjective(u)
      PROVE  IsInjective(s) /\ IsInjective(t) /\ ToSet(s) \cap ToSet(t) = {}
  <2>1. IsInjective(s)
    BY <1>2, <1>5 DEF IsInjective
  <2>2. IsInjective(t)
    BY <1>2, <1>4, <1>5 DEF IsInjective
  <2>3. ASSUME NEW i \in DOMAIN s, NEW j \in DOMAIN t, s[i] = t[j] PROVE FALSE
    BY <1>2, <1>3, <1>5, <2>3 DEF IsInjective
  <2>4. QED
    BY <2>1, <2>2, <2>3 DEF ToSet
<1>6. ASSUME IsInjective(s), IsInjective(t), ToSet(s) \cap ToSet(t) = {}
      PROVE  IsInjective(u)
  <2> SUFFICES ASSUME NEW i \in DOMAIN u, NEW j \in DOMAIN u, u[i] = u[j] PROVE i = j
    BY DEF IsInjective
  <2>1. \A x \in DOMAIN s, y \in DOMAIN t : s[x] # t[y]
    BY <1>6 DEF ToSet
  <2>2. CASE i \in DOMAIN s
    <3>1. j \in DOMAIN s
      BY <1>2, <2>1, <2>2
    <3>2. QED
      BY <1>2, <1>6, <2>2, <3>1 DEF IsInjective
  <2>3. CASE i \notin DOMAIN s
    <3>1. PICK x \in DOMAIN t : i = Len(s) + x
      BY <1>2, <2>3
    <3>2. j \notin DOMAIN s
      BY <1>2, <2>1, <3>1
    <3>3. PICK y \in DOMAIN t : j = Len(s) + y
      BY <1>2, <3>2
    <3>4. x = y
      BY <1>2, <1>6, <3>1, <3>3 DEF IsInjective
    <3>5. QED
      BY <3>1, <3>3, <3>4
  <2>4. QED
    BY <2>2, <2>3
<1>7. QED
  BY <1>5, <1>6 DEF u

\* The ends of two sequences, one behind the other.
LEMMA EndsOfJoined ==
    ASSUME NEW s \in Seq(Elements), NEW t \in Seq(Elements)
    PROVE  /\ First(s \o t) = IF s = <<>> THEN First(t) ELSE First(s)
           /\ Final(s \o t) = IF t = <<>> THEN Final(s) ELSE Final(t)
<1> DEFINE u == s \o t
<1>1. /\ u \in Seq(Elements) /\ Len(u) = Len(s) + Len(t)
      /\ u = <<>> <=> s = <<>> /\ t = <<>>
      /\ \A i \in 1 .. Len(s) : u[i] = s[i]
      /\ \A i \in 1 .. Len(t) : u[Len(s) + i] = t[i]
  BY Joined
<1>2. /\ Len(s) \in Nat /\ Len(t) \in Nat /\ (s = <<>> <=> Len(s) = 0)
      /\ t = <<>> <=> Len(t) = 0
  BY Indices
<1> HIDE DEF u
<1>3. s # <<>> => u[1] = s[1]
  BY <1>1, <1>2
<1>4. s = <<>> /\ t # <<>> => u[1] = t[1]
  BY <1>1, <1>2
<1>5. t # <<>> => u[Len(u)] = t[Len(t)]
  BY <1>1, <1>2
<1>6. t = <<>> /\ s # <<>> => u[Len(u)] = s[Len(s)]
  BY <1>1, <1>2
<1>7. QED
  BY <1>1, <1>3, <1>4, <1>5, <1>6 DEF First, Final, u

\* The neighbours in two sequences, one behind the other, are those in each and the two in
\* the middle.
LEMMA NeighboursJoined ==
    ASSUME NEW s \in Seq(Elements), NEW t \in Seq(Elements)
    PROVE  Neighbours(s \o t) =
             Neighbours(s) \cup Neighbours(t) \cup
             (IF s = <<>> \/ t = <<>> THEN {} ELSE {<<Final(s), First(t)>>})
<1> DEFINE u == s \o t
<1>1. /\ Len(u) = Len(s) + Len(t)
      /\ \A i \in 1 .. Len(s) : u[i] = s[i]
      /\ \A i \in 1 .. Len(t) : u[Len(s) + i] = t[i]
  BY Joined
<1>2. PICK m \in Nat : m = Len(s)
  BY Indices
<1>3. PICK n \in Nat : n = Len(t)
  BY Indices
<1>4. (s = <<>> <=> m = 0) /\ (t = <<>> <=> n = 0)
  BY <1>2, <1>3, Indices
<1>5. /\ \A i \in 1 .. m : u[i] = s[i]
      /\ \A i \in 1 .. n : u[m + i] = t[i]
  BY <1>1, <1>2, <1>3
<1> HIDE DEF u
<1>6. Neighbours(u) = {<<u[i], u[i + 1]>> : i \in 1 .. m + n - 1}
  BY <1>1, <1>2, <1>3 DEF Neighbours
<1>7. Neighbours(s) = {<<u[i], u[i + 1]>> : i \in 1 .. m - 1}
  <2>1. \A i \in 1 .. m - 1 : u[i] = s[i] /\ u[i + 1] = s[i + 1]
    BY <1>5
  <2>2. QED
    BY <1>2, <2>1 DEF Neighbours
<1>8. Neighbours(t) = {<<u[i], u[i + 1]>> : i \in m + 1 .. m + n - 1}
  <2>1. ASSUME NEW i \in 1 .. n - 1
        PROVE  /\ m + i \in m + 1 .. m + n - 1
               /\ <<t[i], t[i + 1]>> = <<u[m + i], u[m + i + 1]>>
    <3>1. i \in 1 .. n /\ i + 1 \in 1 .. n /\ m + i + 1 = m + (i + 1)
      OBVIOUS
    <3>2. QED
      BY <1>5, <3>1
  <2>2. ASSUME NEW i \in m + 1 .. m + n - 1
        PROVE  \E j \in 1 .. n - 1 : i = m + j
    <3>1. i - m \in 1 .. n - 1 /\ i = m + (i - m)
      OBVIOUS
    <3>2. QED
      BY <3>1
  <2>3. ASSUME NEW i \in m + 1 .. m + n - 1
        PROVE  \E j \in 1 .. n - 1 : <<t[j], t[j + 1]>> = <<u[i], u[i + 1]>>
    <3>1. PICK j \in 1 .. n - 1 : i = m + j
      BY <2>2
    <3>2. <<t[j], t[j + 1]>> = <<u[i], u[i + 1]>>
      BY <2>1, <3>1
    <3>3. QED
      BY <3>2
  <2>4. Neighbours(t) = {<<t[j], t[j + 1]>> : j \in 1 .. n - 1}
    BY <1>3 DEF Neighbours
  <2>5. ASSUME NEW j \in 1 .. n - 1
        PROVE  \E i \in m + 1 .. m + n - 1 : <<t[j], t[j + 1]>> = <<u[i], u[i + 1]>>
    BY <2>1
  <2>6. PICK N : N = {<<u[i], u[i + 1]>> : i \in m + 1 .. m + n - 1}
    OBVIOUS
  <2>7. ASSUME NEW p \in N PROVE p \in Neighbours(t)
    <3>1. PICK i \in m + 1 .. m + n - 1 : p = <<u[i], u[i + 1]>>
      BY <2>6
    <3>2. PICK j \in 1 .. n - 1 : <<t[j], t[j + 1]>> = <<u[i], u[i + 1]>>
      BY <2>3
    <3>3. QED
      BY <2>4, <3>1, <3>2
  <2>8. ASSUME NEW p \in Neighbours(t) PROVE p \in N
    <3>1. PICK j \in 1 .. n - 1 : p = <<t[j], t[j + 1]>>
      BY <2>4
    <3>2. PICK i \in m + 1 .. m + n - 1 : <<t[j], t[j + 1]>> = <<u[i], u[i + 1]>>
      BY <2>5
    <3>3. QED
      BY <2>6, <3>1, <3>2
  <2>9. QED
    BY <2>6, <2>7, <2>8
<1>9. m # 0 /\ n # 0 => Final(s) = u[m] /\ First(t) = u[m + 1]
  BY <1>2, <1>4, <1>5 DEF First, Final
<1>10. 1 .. m + n - 1 = (1 .. m - 1) \cup (m + 1 .. m + n - 1)
                          \cup (IF m = 0 \/ n = 0 THEN {} ELSE {m})
  OBVIOUS
<1>11. QED
  BY <1>4, <1>6, <1>7, <1>8, <1>9, <1>10 DEF u

\* Two sequences that are linked, the first one to the second, are one that is.
LEMMA LinkedJoined ==
    ASSUME NEW s \in Seq(Elements), NEW t \in Seq(Elements), NEW link
    PROVE  /\ Linked(link, s \o t)
                <=> /\ Linked(link, s) /\ Linked(link, t)
                    /\ s # <<>> /\ t # <<>> => link[Final(s)] = First(t)
           /\ Backed(link, s \o t)
                <=> /\ Backed(link, s) /\ Backed(link, t)
                    /\ s # <<>> /\ t # <<>> => link[First(t)] = Final(s)
<1>1. CASE s = <<>> \/ t = <<>>
  <2>1. Neighbours(s \o t) = Neighbours(s) \cup Neighbours(t)
    BY <1>1, NeighboursJoined
  <2>2. QED
    BY <1>1, <2>1 DEF Linked, Backed
<1>2. CASE s # <<>> /\ t # <<>>
  <2>1. Neighbours(s \o t) = Neighbours(s) \cup Neighbours(t) \cup {<<Final(s), First(t)>>}
    BY <1>2, NeighboursJoined
  <2> DEFINE p == <<Final(s), First(t)>>
  <2>2. p[1] = Final(s) /\ p[2] = First(t)
    OBVIOUS
  <2>3. Neighbours(s \o t) = Neighbours(s) \cup Neighbours(t) \cup {p}
    BY <2>1
  <2> HIDE DEF p
  <2>4. QED
    BY <1>2, <2>2, <2>3 DEF Linked, Backed
<1>3. QED
  BY <1>1, <1>2

\* Of a sequence without repetition the last element is in front of nobody, the first
\* behind nobody.
LEMMA NeighboursWithin ==
    ASSUME NEW s \in Seq(Elements), IsInjective(s), NEW p \in Neighbours(s)
    PROVE  /\ p[1] \in ToSet(s) \ {Final(s)}
           /\ p[2] \in ToSet(s) \ {First(s)}
<1>1. PICK n \in Nat : n = Len(s) /\ DOMAIN s = 1 .. n
  BY Indices
<1>2. PICK i \in 1 .. n - 1 : p = <<s[i], s[i + 1]>>
  BY <1>1 DEF Neighbours
<1>3. i \in DOMAIN s /\ i + 1 \in DOMAIN s /\ n \in DOMAIN s /\ 1 \in DOMAIN s /\ s # <<>>
  BY <1>1
<1>4. i # n /\ i + 1 # 1
  BY <1>1
<1>5. s[i] # s[n] /\ s[i + 1] # s[1]
  BY <1>3, <1>4 DEF IsInjective
<1>6. QED
  BY <1>1, <1>2, <1>3, <1>5 DEF First, Final, ToSet

\* A sequence stays linked if the links of its elements do not change, but for the last
\* one's (going back, the first one's).
LEMMA StayLinked ==
    ASSUME NEW s \in Seq(Elements), IsInjective(s), NEW f, NEW g
    PROVE  /\ Linked(f, s) /\ (\A x \in ToSet(s) \ {Final(s)} : g[x] = f[x]) => Linked(g, s)
           /\ Backed(f, s) /\ (\A x \in ToSet(s) \ {First(s)} : g[x] = f[x]) => Backed(g, s)
BY NeighboursWithin DEF Linked, Backed

\* One element, and none.
LEMMA OneOrNone ==
    ASSUME NEW e \in Elements
    PROVE  /\ <<>> \in Seq(Elements) /\ <<e>> \in Seq(Elements) /\ <<e>> # <<>>
           /\ First(<<e>>) = e /\ Final(<<e>>) = e
           /\ First(<<>>) = Null /\ Final(<<>>) = Null
           /\ ToSet(<<e>>) = {e} /\ ToSet(<<>>) = {}
           /\ IsInjective(<<e>>) /\ IsInjective(<<>>)
           /\ Neighbours(<<e>>) = {} /\ Neighbours(<<>>) = {}
<1>1. /\ <<>> \in Seq(Elements) /\ <<e>> \in Seq(Elements) /\ <<e>> # <<>>
      /\ Len(<<e>>) = 1 /\ Len(<<>>) = 0 /\ <<e>>[1] = e
      /\ DOMAIN <<e>> = {1} /\ DOMAIN <<>> = {}
  OBVIOUS
<1>2. Neighbours(<<e>>) = {} /\ Neighbours(<<>>) = {}
  BY <1>1 DEF Neighbours
<1>3. QED
  BY <1>1, <1>2 DEF First, Final, ToSet, IsInjective

\* Sequences without repetition that share no element, one behind the other.
LEMMA BothOnce ==
    ASSUME NEW s \in Seq(Elements), NEW t \in Seq(Elements),
           IsInjective(s), IsInjective(t), ToSet(s) \cap ToSet(t) = {}
    PROVE  /\ s \o t \in Seq(Elements) /\ IsInjective(s \o t)
           /\ s \o t = <<>> <=> s = <<>> /\ t = <<>>
           /\ ToSet(s \o t) = ToSet(s) \cup ToSet(t)
           /\ First(s \o t) = IF s = <<>> THEN First(t) ELSE First(s)
           /\ Final(s \o t) = IF t = <<>> THEN Final(s) ELSE Final(t)
BY Joined, JoinedOnce, EndsOfJoined
------------------------------------------------------------------------------
(* Containers as sequences. *)

Links == Elements \cup {Null}
Memories == [next : [Elements -> Links], prev : [Elements -> Links],
             head : [Containers -> Links], tail : [Containers -> Links]]

\* The elements of s have the links that they would have in container c.
Together(m, c, s) == Linked(m.next, s) /\ (c \in Deques => Backed(m.prev, s))

\* In memory m the container c holds the elements of s, in this order.  Nothing is said of
\* the tail of an empty container, of prev in Queues and Stacks, and of elements elsewhere.
Represents(m, c, s) ==
    /\ s \in Seq(Elements) /\ IsInjective(s)
    /\ m.head[c] = First(s)
    /\ Together(m, c, s)
    /\ s # <<>> => m.next[Final(s)] = Null
    /\ s # <<>> /\ c \in Lists => m.tail[c] = Final(s)
    /\ s # <<>> /\ c \in Deques => m.prev[First(s)] = Null

\* Memories that differ in the links of the elements of S and the ends of C only.
Differ(m, n, S, C) ==
    /\ \A e \in Elements \ S : n.next[e] = m.next[e] /\ n.prev[e] = m.prev[e]
    /\ \A c \in Containers \ C : n.head[c] = m.head[c] /\ n.tail[c] = m.tail[c]

\* An operation makes memory n of m, and s of container c.
Makes(m, n, c, s, S) == n \in Memories /\ Represents(n, c, s) /\ Differ(m, n, S, {c})

LEMMA TogetherJoined ==
    ASSUME NEW m, NEW c, NEW s \in Seq(Elements), NEW t \in Seq(Elements)
    PROVE  Together(m, c, s \o t)
             <=> /\ Together(m, c, s) /\ Together(m, c, t)
                 /\ s # <<>> /\ t # <<>> =>
                       /\ m.next[Final(s)] = First(t)
                       /\ c \in Deques => m.prev[First(t)] = Final(s)
BY LinkedJoined DEF Together

\* Elements stay together if nothing changes in between.
LEMMA StayTogether ==
    ASSUME NEW m, NEW n, NEW c, NEW s \in Seq(Elements), IsInjective(s), Together(m, c, s),
           \A x \in ToSet(s) \ {Final(s)} : n.next[x] = m.next[x],
           c \in Deques => \A x \in ToSet(s) \ {First(s)} : n.prev[x] = m.prev[x]
    PROVE  Together(n, c, s)
BY StayLinked DEF Together

LEMMA OneTogether ==
    ASSUME NEW m, NEW c, NEW e \in Elements
    PROVE  Together(m, c, <<e>>) /\ Together(m, c, <<>>)
BY OneOrNone DEF Together, Linked, Backed

\* The others stay as they are.
LEMMA OthersStay ==
    ASSUME NEW m, NEW n, NEW S, NEW C, Differ(m, n, S, C),
           NEW c \in Containers \ C, NEW s, Represents(m, c, s), ToSet(s) \cap S = {}
    PROVE  Represents(n, c, s)
<1>0. s \in Seq(Elements) /\ IsInjective(s) /\ Together(m, c, s)
  BY DEF Represents
<1>1. \A x \in ToSet(s) : n.next[x] = m.next[x] /\ n.prev[x] = m.prev[x]
  BY <1>0, EndsOf DEF Differ
<1>2. n.head[c] = m.head[c] /\ n.tail[c] = m.tail[c]
  BY DEF Differ
<1>3. Together(n, c, s)
  BY <1>0, <1>1, StayTogether
<1>4. s # <<>> => /\ n.next[Final(s)] = m.next[Final(s)]
                  /\ n.prev[First(s)] = m.prev[First(s)]
  BY <1>0, <1>1, EndsOf
<1>5. QED
  BY <1>2, <1>3, <1>4 DEF Represents

\* A sequence without repetition is not longer than there are elements.
LEMMA LengthBounded ==
    ASSUME NEW s \in Seq(Elements), IsInjective(s)
    PROVE  /\ Cardinality(Elements) \in Nat /\ Len(s) \in Nat
           /\ Len(s) <= Cardinality(Elements)
<1>1. Len(s) \in Nat /\ DOMAIN s = 1 .. Len(s) /\ ToSet(s) \subseteq Elements
  BY Indices
<1>2. IsFiniteSet(1 .. Len(s)) /\ Cardinality(1 .. Len(s)) = Len(s)
  BY <1>1, FS_Interval, SMTT(60)
<1>3. s \in Bijection(1 .. Len(s), ToSet(s))
  <2>1. s \in [1 .. Len(s) -> ToSet(s)]
    BY <1>1 DEF ToSet
  <2>2. \A x, y \in 1 .. Len(s) : s[x] = s[y] => x = y
    BY <1>1 DEF IsInjective
  <2>3. \A e \in ToSet(s) : \E x \in 1 .. Len(s) : s[x] = e
    BY <1>1 DEF ToSet
  <2>4. QED
    BY <2>1, <2>2, <2>3, Fun_IsBij
<1>4. Cardinality(ToSet(s)) = Len(s)
  BY <1>2, <1>3, FS_Bijection DEF ExistsBijection
<1>5. IsFiniteSet(Elements)
  BY ContainersAssumption
<1>6. Cardinality(ToSet(s)) <= Cardinality(Elements) /\ Cardinality(Elements) \in Nat
  BY <1>1, <1>5, FS_Subset, FS_CardinalityType
<1>7. QED
  BY <1>1, <1>4, <1>6

\* What an iteration meets is what the container holds.
LEMMA ChainIs ==
    ASSUME NEW m, NEW c \in Containers, NEW s, Represents(m, c, s)
    PROVE  Chain(m, c) = s
<1> DEFINE last == Cardinality(Elements) + 1
           Walks(f) == f = [i \in 1 .. last |->
                              IF i = 1 THEN m.head[c]
                              ELSE IF f[i - 1] = Null THEN Null ELSE m.next[f[i - 1]]]
           at == CHOOSE f : Walks(f)
           met == [i \in 1 .. last |-> IF i <= Len(s) THEN s[i] ELSE Null]
<1>0. s \in Seq(Elements) /\ IsInjective(s)
  BY DEF Represents
<1>1. PICK k \in Nat : k = Len(s) /\ last \in Nat /\ k < last /\ DOMAIN s = 1 .. k
  BY <1>0, LengthBounded, Indices
<1>2. /\ m.head[c] = First(s)
      /\ \A i \in 1 .. k - 1 : m.next[s[i]] = s[i + 1]
      /\ k # 0 => m.next[s[k]] = Null
  <2>1. \A i \in 1 .. k - 1 : <<s[i], s[i + 1]>> \in Neighbours(s)
    BY <1>1 DEF Neighbours
  <2>2. \A i \in 1 .. k - 1 : m.next[<<s[i], s[i + 1]>>[1]] = <<s[i], s[i + 1]>>[2]
    BY <2>1 DEF Represents, Together, Linked
  <2>3. k # 0 => s # <<>>
    BY <1>0, <1>1, Indices
  <2>4. QED
    BY <1>1, <2>2, <2>3 DEF Represents, Final
<1>3. \A i \in 1 .. k : s[i] # Null
  BY <1>0, <1>1, Indices, ContainersAssumption
<1>4. ASSUME NEW i \in 1 .. last
      PROVE  met[i] = IF i = 1 THEN m.head[c]
                      ELSE IF met[i - 1] = Null THEN Null ELSE m.next[met[i - 1]]
  <2>1. CASE i = 1
    BY <1>0, <1>1, <1>2, <2>1, Indices DEF First
  <2>2. CASE i # 1 /\ i <= k
    <3>1. i - 1 \in 1 .. k - 1 /\ i - 1 \in 1 .. last /\ i - 1 + 1 = i /\ i - 1 <= k
      BY <1>1, <2>2
    <3>2. m.next[s[i - 1]] = s[i] /\ s[i - 1] # Null
      BY <1>2, <1>3, <3>1
    <3>3. QED
      BY <1>1, <2>2, <3>1, <3>2
  <2>3. CASE i # 1 /\ i = k + 1
    <3>1. k \in 1 .. k /\ i - 1 = k /\ k \in 1 .. last /\ k # 0
      BY <1>1, <2>3
    <3>2. m.next[s[k]] = Null /\ met[k] = s[k]
      BY <1>1, <1>2, <3>1
    <3>3. QED
      BY <1>1, <1>3, <2>3, <3>1, <3>2
  <2>4. CASE i > k + 1
    <3>1. i - 1 \in 1 .. last /\ ~ (i - 1 <= k) /\ ~ (i <= k) /\ i # 1
      BY <1>1, <2>4
    <3>2. QED
      BY <1>1, <3>1
  <2>5. QED
    BY <1>1, <2>1, <2>2, <2>3, <2>4
<1>5. Walks(met)
  BY <1>4
<1>6. Walks(at)
  BY <1>5
<1>7. \A i \in 1 .. last : at[i] = IF i = 1 THEN m.head[c]
                      ELSE IF at[i - 1] = Null THEN Null ELSE m.next[at[i - 1]]
  BY <1>6
<1>8. DOMAIN at = 1 .. last /\ DOMAIN met = 1 .. last
  BY <1>6
<1> PICK S : S = {i \in 1 .. last : at[i] # met[i]}
  OBVIOUS
<1>9. Chain(m, c) = [i \in {j \in DOMAIN at : at[j] # Null} |-> at[i]]
  BY DEF Chain
<1>10. \A j \in 1 .. last : met[j] = IF j <= k THEN s[j] ELSE Null
  BY <1>1
<1> HIDE DEF at, met, last
<1>11. S = {}
  <2> SUFFICES ASSUME S # {} PROVE FALSE
    OBVIOUS
  <2>1. S \in SUBSET Nat
    BY <1>1
  <2>2. PICK i \in S : \A j \in S : i <= j
    BY <2>1, LeastOf
  <2>3. i \in 1 .. last /\ at[i] # met[i]
    OBVIOUS
  <2>4. i # 1
    BY <1>4, <1>7, <2>3
  <2>5. i - 1 \in 1 .. last /\ i - 1 \notin S
    BY <1>1, <2>2, <2>3, <2>4
  <2>6. at[i - 1] = met[i - 1]
    BY <2>5
  <2>7. QED
    BY <1>4, <1>7, <2>3, <2>4, <2>6
<1>12. \A j \in 1 .. last : at[j] = IF j <= k THEN s[j] ELSE Null
  BY <1>10, <1>11
<1>13. {j \in DOMAIN at : at[j] # Null} = 1 .. k
  BY <1>1, <1>3, <1>8, <1>12
<1>14. \A i \in 1 .. k : at[i] = s[i]
  BY <1>1, <1>12
<1>15. QED
  <2>1. s = [i \in 1 .. k |-> s[i]]
    BY <1>0, <1>1
  <2>2. QED
    BY <1>9, <1>13, <1>14, <2>1
\* The kinds of containers.
LEMMA Kinds ==
    /\ Deques \subseteq Lists /\ Queues \subseteq Lists /\ Lists \subseteq Containers
    /\ Stacks \subseteq Containers
    /\ \A c \in Queues : c \notin Deques
    /\ \A c \in Stacks : c \notin Lists /\ c \notin Deques
BY ContainersAssumption DEF Lists, Containers
------------------------------------------------------------------------------
(* A container in three pieces.  An operation puts pieces together that it does not change *)
(* inside: what is to be shown of it is where the pieces meet. *)

Apart(a, t, b) ==
    /\ a \in Seq(Elements) /\ t \in Seq(Elements) /\ b \in Seq(Elements)
    /\ IsInjective(a) /\ IsInjective(t) /\ IsInjective(b)
    /\ ToSet(a) \cap ToSet(t) = {} /\ ToSet(a) \cap ToSet(b) = {} /\ ToSet(t) \cap ToSet(b) = {}

\* The links where the pieces meet, and the ends of the container.
Fits(m, c, a, t, b) ==
    /\ m.head[c] = IF a # <<>> THEN First(a) ELSE IF t # <<>> THEN First(t) ELSE First(b)
    /\ c \in Lists /\ ~ (a = <<>> /\ t = <<>> /\ b = <<>>) =>
          m.tail[c] = IF b # <<>> THEN Final(b) ELSE IF t # <<>> THEN Final(t) ELSE Final(a)
    /\ a # <<>> => m.next[Final(a)] = IF t # <<>> THEN First(t) ELSE First(b)
    /\ t # <<>> => m.next[Final(t)] = First(b)
    /\ b # <<>> => m.next[Final(b)] = Null
    /\ c \in Deques =>
          /\ a # <<>> => m.prev[First(a)] = Null
          /\ t # <<>> => m.prev[First(t)] = Final(a)
          /\ b # <<>> => m.prev[First(b)] = IF t # <<>> THEN Final(t) ELSE Final(a)

LEMMA Pieces ==
    ASSUME NEW m, NEW c, NEW a \in Seq(Elements), NEW t \in Seq(Elements), NEW b \in Seq(Elements)
    PROVE  Represents(m, c, a \o t \o b)
             <=> /\ Apart(a, t, b) /\ Fits(m, c, a, t, b)
                 /\ Together(m, c, a) /\ Together(m, c, t) /\ Together(m, c, b)
<1> DEFINE u == a \o t
           s == u \o b
<1>1. /\ u \in Seq(Elements) /\ s \in Seq(Elements)
      /\ ToSet(u) = ToSet(a) \cup ToSet(t)
      /\ u = <<>> <=> a = <<>> /\ t = <<>>
      /\ s = <<>> <=> u = <<>> /\ b = <<>>
  BY Joined
<1>2. /\ First(u) = IF a = <<>> THEN First(t) ELSE First(a)
      /\ Final(u) = IF t = <<>> THEN Final(a) ELSE Final(t)
      /\ First(s) = IF u = <<>> THEN First(b) ELSE First(u)
      /\ Final(s) = IF b = <<>> THEN Final(u) ELSE Final(b)
  BY <1>1, EndsOfJoined
<1>3. IsInjective(s) <=> Apart(a, t, b)
  <2>1. IsInjective(s) <=> IsInjective(u) /\ IsInjective(b) /\ ToSet(u) \cap ToSet(b) = {}
    BY <1>1, JoinedOnce
  <2>2. IsInjective(u) <=> IsInjective(a) /\ IsInjective(t) /\ ToSet(a) \cap ToSet(t) = {}
    BY JoinedOnce
  <2>3. ToSet(u) \cap ToSet(b) = {} <=> ToSet(a) \cap ToSet(b) = {} /\ ToSet(t) \cap ToSet(b) = {}
    BY <1>1
  <2>4. QED
    BY <2>1, <2>2, <2>3 DEF Apart
<1>4. Together(m, c, s)
        <=> /\ Together(m, c, u) /\ Together(m, c, b)
            /\ u # <<>> /\ b # <<>> => /\ m.next[Final(u)] = First(b)
                                       /\ c \in Deques => m.prev[First(b)] = Final(u)
  BY <1>1, TogetherJoined
<1>5. Together(m, c, u)
        <=> /\ Together(m, c, a) /\ Together(m, c, t)
            /\ a # <<>> /\ t # <<>> => /\ m.next[Final(a)] = First(t)
                                       /\ c \in Deques => m.prev[First(t)] = Final(a)
  BY TogetherJoined
<1>6. First(<<>>) = Null /\ Final(<<>>) = Null
  BY DEF First, Final
<1>7. Represents(m, c, s)
        <=> /\ IsInjective(s) /\ m.head[c] = First(s) /\ Together(m, c, s)
            /\ s # <<>> => m.next[Final(s)] = Null
            /\ s # <<>> /\ c \in Lists => m.tail[c] = Final(s)
            /\ s # <<>> /\ c \in Deques => m.prev[First(s)] = Null
  BY <1>1 DEF Represents
<1> HIDE DEF u, s
<1>8. Represents(m, c, s)
        <=> /\ Apart(a, t, b) /\ Fits(m, c, a, t, b)
            /\ Together(m, c, a) /\ Together(m, c, t) /\ Together(m, c, b)
  <2>1. CASE a = <<>> /\ t = <<>>
    BY <1>1, <1>2, <1>3, <1>4, <1>5, <1>6, <1>7, <2>1 DEF Fits
  <2>2. CASE a = <<>> /\ t # <<>>
    BY <1>1, <1>2, <1>3, <1>4, <1>5, <1>6, <1>7, <2>2 DEF Fits
  <2>3. CASE a # <<>> /\ t = <<>>
    BY <1>1, <1>2, <1>3, <1>4, <1>5, <1>6, <1>7, <2>3 DEF Fits
  <2>4. CASE a # <<>> /\ t # <<>>
    BY <1>1, <1>2, <1>3, <1>4, <1>5, <1>6, <1>7, <2>4 DEF Fits
  <2>5. QED
    BY <2>1, <2>2, <2>3, <2>4
<1>9. QED
  BY <1>8 DEF s, u

\* The links inside of a piece do not change.
Keeps(m, n, c, s) ==
    /\ \A x \in ToSet(s) \ {Final(s)} : n.next[x] = m.next[x]
    /\ c \in Deques => \A x \in ToSet(s) \ {First(s)} : n.prev[x] = m.prev[x]

LEMMA Assembled ==
    ASSUME NEW m, NEW n, NEW c, NEW a, NEW t, NEW b, Apart(a, t, b),
           Together(m, c, a), Together(m, c, t), Together(m, c, b),
           Keeps(m, n, c, a), Keeps(m, n, c, t), Keeps(m, n, c, b), Fits(n, c, a, t, b)
    PROVE  Represents(n, c, a \o t \o b)
<1>1. Together(n, c, a) /\ Together(n, c, t) /\ Together(n, c, b)
  BY StayTogether DEF Keeps, Apart
<1>2. QED
  BY <1>1, Pieces DEF Apart

\* What there is to know about the ends of a piece.
Ends(s) ==
    /\ ToSet(s) \subseteq Elements
    /\ s = <<>> => First(s) = Null /\ Final(s) = Null /\ ToSet(s) = {}
    /\ s # <<>> => /\ First(s) \in ToSet(s) /\ First(s) \in Elements /\ First(s) # Null
                   /\ Final(s) \in ToSet(s) /\ Final(s) \in Elements /\ Final(s) # Null

LEMMA AreEnds == ASSUME NEW s \in Seq(Elements) PROVE Ends(s)
BY EndsOf, ContainersAssumption DEF Ends, First, Final

\* One piece is three of which two are empty.
LEMMA OnePiece ==
    ASSUME NEW m, NEW c, NEW s, Represents(m, c, s)
    PROVE  /\ s \in Seq(Elements) /\ IsInjective(s) /\ Together(m, c, s)
           /\ Fits(m, c, s, <<>>, <<>>)
<1>1. s \in Seq(Elements)
  BY DEF Represents
<1>2. s \o <<>> \o <<>> = s /\ <<>> \in Seq(Elements)
  BY <1>1
<1>3. QED
  BY <1>1, <1>2, Pieces DEF Represents

\* A piece, and one element more at its end.
LEMMA AddedPiece ==
    ASSUME NEW s \in Seq(Elements), IsInjective(s), NEW e \in Elements \ ToSet(s)
    PROVE  Apart(s, <<e>>, <<>>) /\ s \o <<e>> = s \o <<e>> \o <<>>
<1>1. s \o <<e>> = s \o <<e>> \o <<>>
  OBVIOUS
<1>2. QED
  BY <1>1, OneOrNone DEF Apart

\* Two pieces, and what can be put in between.
LEMMA TwoPieces ==
    ASSUME NEW m, NEW c, NEW a \in Seq(Elements), NEW b \in Seq(Elements), Represents(m, c, a \o b)
    PROVE  /\ Apart(a, <<>>, b) /\ Fits(m, c, a, <<>>, b)
           /\ Together(m, c, a) /\ Together(m, c, b)
           /\ a \o <<>> \o b = a \o b
           /\ \A e \in Elements : e \notin ToSet(a) \cup ToSet(b) => Apart(a, <<e>>, b)
<1>1. a \o <<>> \o b = a \o b /\ <<>> \in Seq(Elements)
  OBVIOUS
<1>2. /\ Apart(a, <<>>, b) /\ Fits(m, c, a, <<>>, b)
      /\ Together(m, c, a) /\ Together(m, c, b)
  <2>1. Represents(m, c, a \o <<>> \o b)
    BY <1>1
  <2>2. QED
    BY <1>1, <2>1, Pieces
<1>3. ASSUME NEW e \in Elements, e \notin ToSet(a) \cup ToSet(b)
      PROVE  Apart(a, <<e>>, b)
  BY <1>2, <1>3, OneOrNone DEF Apart
<1>4. QED
  BY <1>1, <1>2, <1>3

\* An operation makes memory n of m: s of container c and t of d.
MakesTwo(m, n, c, s, d, t, S) ==
    n \in Memories /\ Represents(n, c, s) /\ Represents(n, d, t) /\ Differ(m, n, S, {c, d})

LEMMA EmptyIs ==
    ASSUME NEW m, NEW c
    PROVE  Represents(m, c, <<>>) <=> m.head[c] = Null
BY DEF Represents, First, Together, Linked, Backed, Neighbours, IsInjective

\* Pieces of two containers of one kind, which are put together.
LEMMA PiecesOfTwo ==
    ASSUME NEW m, NEW c, NEW d, NEW a \in Seq(Elements), NEW b \in Seq(Elements), NEW t,
           Represents(m, c, a \o b), Represents(m, d, t),
           c \in Deques <=> d \in Deques, ToSet(t) \cap (ToSet(a) \cup ToSet(b)) = {}
    PROVE  /\ Apart(a, t, b) /\ Fits(m, c, a, <<>>, b) /\ Fits(m, d, t, <<>>, <<>>)
           /\ Together(m, c, a) /\ Together(m, c, t) /\ Together(m, c, b)
           /\ t \in Seq(Elements) /\ Ends(a) /\ Ends(t) /\ Ends(b)
<1>1. /\ t \in Seq(Elements) /\ IsInjective(t) /\ Together(m, d, t)
      /\ Fits(m, d, t, <<>>, <<>>)
  BY OnePiece
<1>2. /\ Apart(a, <<>>, b) /\ Fits(m, c, a, <<>>, b) /\ Together(m, c, a) /\ Together(m, c, b)
  BY TwoPieces
<1>3. Together(m, c, t)
  BY <1>1 DEF Together
<1>4. Apart(a, t, b)
  BY <1>1, <1>2 DEF Apart
<1>5. QED
  BY <1>1, <1>2, <1>3, <1>4, AreEnds
------------------------------------------------------------------------------
(* Deque *)

LEMMA DPushFrontMakes ==
    ASSUME NEW m \in Memories, NEW d \in Deques, NEW s, Represents(m, d, s),
           NEW e \in Elements \ ToSet(s), m.next[e] = Null, m.prev[e] = Null,
           NEW n, n = DPushFront(m, d, e)
    PROVE  Makes(m, n, d, <<e>> \o s, ToSet(s) \cup {e})
<1>0. s \in Seq(Elements) /\ IsInjective(s) /\ Together(m, d, s) /\ m.head[d] = First(s)
  BY DEF Represents
<1>1. /\ <<e>> \o s \in Seq(Elements) /\ <<e>> \o s # <<>> /\ IsInjective(<<e>> \o s)
      /\ First(<<e>> \o s) = e
      /\ Final(<<e>> \o s) = IF s = <<>> THEN e ELSE Final(s)
  BY <1>0, OneOrNone, BothOnce
<1>2. CASE s = <<>>
  <2>1. /\ n \in Memories /\ n.prev = m.prev
        /\ n.next = [m.next EXCEPT ![e] = Null]
        /\ n.head = [m.head EXCEPT ![d] = e] /\ n.tail = [m.tail EXCEPT ![d] = e]
    BY <1>0, <1>2, Kinds DEF DPushFront, IsEmpty, Memories, Links, First
  <2>2. Together(n, d, <<e>> \o s)
    BY <1>0, <1>2, OneTogether, OneOrNone, TogetherJoined
  <2>3. Represents(n, d, <<e>> \o s)
    BY <1>1, <1>2, <2>1, <2>2, Kinds DEF Represents, Memories
  <2>4. QED
    BY <2>1, <2>3 DEF Makes, Differ, Memories
<1>3. CASE s # <<>>
  <2>0. First(s) \in Elements \ {e} /\ First(s) \in ToSet(s) /\ Final(s) \in ToSet(s)
    BY <1>0, <1>3, EndsOf
  <2>1. /\ n \in Memories /\ n.prev = [m.prev EXCEPT ![First(s)] = e]
        /\ n.next = [m.next EXCEPT ![e] = First(s)]
        /\ n.head = [m.head EXCEPT ![d] = e] /\ n.tail = m.tail
    BY <1>0, <1>3, <2>0, EndsOf, Kinds DEF DPushFront, IsEmpty, Memories, Links
  <2>2. Together(n, d, <<e>> \o s)
    <3>1. \A x \in ToSet(s) : x \in Elements
      BY <1>0, EndsOf
    <3>2. Together(n, d, s)
      BY <1>0, <2>1, <3>1, StayTogether DEF Memories
    <3>3. n.next[e] = First(s) /\ n.prev[First(s)] = e
      BY <2>0, <2>1 DEF Memories
    <3>4. QED
      BY <1>0, <3>2, <3>3, OneTogether, OneOrNone, TogetherJoined
  <2>3. Represents(n, d, <<e>> \o s)
    BY <1>1, <1>3, <2>0, <2>1, <2>2, Kinds DEF Represents, Memories
  <2>4. QED
    BY <2>0, <2>1, <2>3 DEF Makes, Differ, Memories
<1>4. QED
  BY <1>2, <1>3
LEMMA DPushBackMakes ==
    ASSUME NEW m \in Memories, NEW d \in Deques, NEW s, Represents(m, d, s),
           NEW e \in Elements \ ToSet(s), m.next[e] = Null, m.prev[e] = Null,
           NEW n, n = DPushBack(m, d, e)
    PROVE  Makes(m, n, d, s \o <<e>>, ToSet(s) \cup {e})
<1>0. /\ Apart(s, <<e>>, <<>>) /\ Fits(m, d, s, <<>>, <<>>)
      /\ Together(m, d, s) /\ Together(m, d, <<e>>) /\ Together(m, d, <<>>)
      /\ s \o <<e>> = s \o <<e>> \o <<>>
  BY OnePiece, AddedPiece, OneTogether
<1>1. Ends(s) /\ Ends(<<e>>) /\ First(<<e>>) = e /\ Final(<<e>>) = e /\ First(<<>>) = Null
  BY <1>0, AreEnds, OneOrNone DEF Apart
<1>2. CASE s = <<>>
  <2>1. /\ n \in Memories /\ n.next = m.next
        /\ n.prev = [m.prev EXCEPT ![e] = Null]
        /\ n.head = [m.head EXCEPT ![d] = e] /\ n.tail = [m.tail EXCEPT ![d] = e]
    BY <1>0, <1>1, <1>2, Kinds DEF DPushBack, IsEmpty, Memories, Links, Fits
  <2>2. Fits(n, d, s, <<e>>, <<>>) /\ Keeps(m, n, d, s) /\ Keeps(m, n, d, <<e>>) /\ Keeps(m, n, d, <<>>)
    BY <1>1, <1>2, <2>1, Kinds, OneOrNone DEF Fits, Keeps, Memories
  <2>3. Represents(n, d, s \o <<e>>)
    BY <1>0, <2>2, Assembled
  <2>4. QED
    BY <2>1, <2>3 DEF Makes, Differ, Memories
<1>3. CASE s # <<>>
  <2>1. /\ n \in Memories /\ n.prev = [m.prev EXCEPT ![e] = Final(s)]
        /\ n.next = [m.next EXCEPT ![Final(s)] = e]
        /\ n.tail = [m.tail EXCEPT ![d] = e] /\ n.head = m.head
    BY <1>0, <1>1, <1>3, Kinds DEF DPushBack, IsEmpty, Memories, Links, Fits, Ends
  <2>2. Fits(n, d, s, <<e>>, <<>>) /\ Keeps(m, n, d, s) /\ Keeps(m, n, d, <<e>>) /\ Keeps(m, n, d, <<>>)
    BY <1>0, <1>1, <1>3, <2>1, Kinds, OneOrNone DEF Fits, Keeps, Memories, Ends
  <2>3. Represents(n, d, s \o <<e>>)
    BY <1>0, <2>2, Assembled
  <2>4. QED
    BY <1>1, <1>3, <2>1, <2>3 DEF Makes, Differ, Memories, Ends
<1>4. QED
  BY <1>2, <1>3
LEMMA DInsertMakes ==
    ASSUME NEW m \in Memories, NEW d \in Deques,
           NEW a \in Seq(Elements), NEW b \in Seq(Elements), b # <<>>, Represents(m, d, a \o b),
           NEW e \in Elements, e \notin ToSet(a) \cup ToSet(b),
           NEW n, n = DInsert(m, d, First(b), e)
    PROVE  Makes(m, n, d, a \o <<e>> \o b, ToSet(a) \cup ToSet(b) \cup {e})
<1>0. /\ Apart(a, <<e>>, b) /\ Fits(m, d, a, <<>>, b)
      /\ Together(m, d, a) /\ Together(m, d, <<e>>) /\ Together(m, d, b)
      /\ ToSet(a) \cap ToSet(b) = {}
  BY TwoPieces, OneTogether, ZenonT(60) DEF Apart
<1>1. /\ Ends(a) /\ Ends(b) /\ First(<<e>>) = e /\ Final(<<e>>) = e /\ <<e>> # <<>>
      /\ ToSet(<<e>>) = {e}
  BY <1>0, AreEnds, OneOrNone DEF Apart
<1>2. m.prev[First(b)] = Final(a)
  BY <1>0, Kinds DEF Fits
<1>3. First(b) \in Elements \ {e}
  BY <1>1 DEF Ends
<1>4. n.tail = m.tail
  BY DEF DInsert
<1>5. n.prev = [m.prev EXCEPT ![e] = Final(a), ![First(b)] = e]
  BY <1>2 DEF DInsert, Memories
<1>6. CASE a = <<>>
  <2>1. /\ n \in Memories
        /\ n.next = [m.next EXCEPT ![e] = First(b)] /\ n.head = [m.head EXCEPT ![d] = e]
    BY <1>1, <1>2, <1>3, <1>6, Kinds DEF DInsert, Memories, Links, Ends
  <2>2. Fits(n, d, a, <<e>>, b) /\ Keeps(m, n, d, a) /\ Keeps(m, n, d, <<e>>) /\ Keeps(m, n, d, b)
    BY <1>0, <1>1, <1>3, <1>4, <1>5, <1>6, <2>1, Kinds DEF Fits, Keeps, Memories, Ends
  <2>3. Represents(n, d, a \o <<e>> \o b)
    BY <1>0, <2>2, Assembled
  <2>4. QED
    BY <1>1, <1>3, <1>4, <1>5, <2>1, <2>3 DEF Makes, Differ, Memories, Ends
<1>7. CASE a # <<>>
  <2>1. /\ n \in Memories
        /\ n.next = [m.next EXCEPT ![e] = First(b), ![Final(a)] = e] /\ n.head = m.head
    BY <1>1, <1>2, <1>3, <1>7, Kinds DEF DInsert, Memories, Links, Ends
  <2>2. Fits(n, d, a, <<e>>, b) /\ Keeps(m, n, d, a) /\ Keeps(m, n, d, <<e>>) /\ Keeps(m, n, d, b)
    BY <1>0, <1>1, <1>3, <1>4, <1>5, <1>7, <2>1, Kinds DEF Fits, Keeps, Memories, Ends
  <2>3. Represents(n, d, a \o <<e>> \o b)
    BY <1>0, <2>2, Assembled
  <2>4. QED
    BY <1>1, <1>3, <1>4, <1>5, <1>7, <2>1, <2>3 DEF Makes, Differ, Memories, Ends
<1>8. QED
  BY <1>6, <1>7

LEMMA DPopFrontMakes ==
    ASSUME NEW m \in Memories, NEW d \in Deques, NEW e \in Elements, NEW s \in Seq(Elements),
           Represents(m, d, <<e>> \o s), NEW n, n = DPopFront(m, d)
    PROVE  /\ Makes(m, n, d, s, ToSet(s) \cup {e})
           /\ n.next[e] = Null /\ n.prev[e] = Null
<1>0. /\ Apart(<<e>>, <<>>, s) /\ Fits(m, d, <<e>>, <<>>, s) /\ Together(m, d, s)
      /\ e \notin ToSet(s)
  BY TwoPieces, OneOrNone, ZenonT(60) DEF Apart
<1>1. Ends(s) /\ First(<<e>>) = e /\ Final(<<e>>) = e /\ <<e>> # <<>>
  BY <1>0, AreEnds, OneOrNone DEF Apart
<1>2. /\ m.head[d] = e /\ m.next[e] = First(s) /\ m.prev[e] = Null
      /\ s # <<>> => m.next[Final(s)] = Null /\ m.tail[d] = Final(s)
  BY <1>0, <1>1, Kinds DEF Fits
<1>3. CASE s = <<>>
  <2>1. /\ n \in Memories /\ n.next = m.next /\ n.prev = m.prev
        /\ n.head = [m.head EXCEPT ![d] = Null] /\ n.tail = [m.tail EXCEPT ![d] = Null]
    BY <1>1, <1>2, <1>3, Kinds DEF DPopFront, Memories, Links, Ends
  <2>2. Represents(n, d, s)
    BY <1>0, <1>1, <1>3, <2>1, OneTogether, OneOrNone, Kinds DEF Represents, Memories, Ends
  <2>3. QED
    BY <1>1, <1>2, <1>3, <2>1, <2>2 DEF Makes, Differ, Memories, Ends
<1>4. CASE s # <<>>
  <2>1. /\ n \in Memories /\ n.next = [m.next EXCEPT ![e] = Null]
        /\ n.prev = [m.prev EXCEPT ![First(s)] = Null]
        /\ n.head = [m.head EXCEPT ![d] = First(s)] /\ n.tail = m.tail
    BY <1>1, <1>2, <1>4, Kinds DEF DPopFront, Memories, Links, Ends
  <2>2. Together(n, d, s)
    <3>1. /\ \A x \in ToSet(s) \ {Final(s)} : n.next[x] = m.next[x]
          /\ \A x \in ToSet(s) \ {First(s)} : n.prev[x] = m.prev[x]
      BY <1>0, <1>1, <2>1 DEF Memories, Ends
    <3>2. QED
      BY <1>0, <3>1, StayTogether DEF Apart
  <2>3. Represents(n, d, s)
    BY <1>0, <1>1, <1>2, <1>4, <2>1, <2>2, Kinds DEF Represents, Memories, Ends, Apart
  <2>4. QED
    BY <1>0, <1>1, <1>2, <1>4, <2>1, <2>3 DEF Makes, Differ, Memories, Ends
<1>5. QED
  BY <1>3, <1>4

LEMMA DPopBackMakes ==
    ASSUME NEW m \in Memories, NEW d \in Deques, NEW e \in Elements, NEW s \in Seq(Elements),
           Represents(m, d, s \o <<e>>), NEW n, n = DPopBack(m, d)
    PROVE  /\ Makes(m, n, d, s, ToSet(s) \cup {e})
           /\ n.next[e] = Null /\ n.prev[e] = Null
<1>0. /\ Apart(s, <<>>, <<e>>) /\ Fits(m, d, s, <<>>, <<e>>) /\ Together(m, d, s)
      /\ e \notin ToSet(s)
  <2>1. <<e>> \in Seq(Elements)
    BY OneOrNone
  <2>2. Apart(s, <<>>, <<e>>) /\ Fits(m, d, s, <<>>, <<e>>) /\ Together(m, d, s)
    BY <2>1, TwoPieces
  <2>3. QED
    BY <2>2, OneOrNone DEF Apart
<1>1. Ends(s) /\ First(<<e>>) = e /\ Final(<<e>>) = e /\ <<e>> # <<>>
  BY <1>0, AreEnds, OneOrNone DEF Apart
<1>2. /\ m.tail[d] = e /\ m.prev[e] = Final(s) /\ m.next[e] = Null
      /\ s # <<>> => m.prev[First(s)] = Null /\ m.head[d] = First(s)
  BY <1>0, <1>1, Kinds DEF Fits
<1>3. CASE s = <<>>
  <2>1. /\ n \in Memories /\ n.next = m.next /\ n.prev = m.prev
        /\ n.head = [m.head EXCEPT ![d] = Null] /\ n.tail = [m.tail EXCEPT ![d] = Null]
    BY <1>1, <1>2, <1>3, Kinds DEF DPopBack, Memories, Links, Ends
  <2>2. Represents(n, d, s)
    BY <1>0, <1>1, <1>3, <2>1, OneTogether, OneOrNone, Kinds DEF Represents, Memories, Ends
  <2>3. QED
    BY <1>1, <1>2, <1>3, <2>1, <2>2 DEF Makes, Differ, Memories, Ends
<1>4. CASE s # <<>>
  <2>1. /\ n \in Memories /\ n.prev = [m.prev EXCEPT ![e] = Null]
        /\ n.next = [m.next EXCEPT ![Final(s)] = Null]
        /\ n.tail = [m.tail EXCEPT ![d] = Final(s)] /\ n.head = m.head
    BY <1>1, <1>2, <1>4, Kinds DEF DPopBack, Memories, Links, Ends
  <2>2. Together(n, d, s)
    <3>1. /\ \A x \in ToSet(s) \ {Final(s)} : n.next[x] = m.next[x]
          /\ \A x \in ToSet(s) \ {First(s)} : n.prev[x] = m.prev[x]
      BY <1>0, <1>1, <2>1 DEF Memories, Ends
    <3>2. QED
      BY <1>0, <3>1, StayTogether DEF Apart
  <2>3. Represents(n, d, s)
    BY <1>0, <1>1, <1>2, <1>4, <2>1, <2>2, Kinds DEF Represents, Memories, Ends, Apart
  <2>4. QED
    BY <1>0, <1>1, <1>2, <1>4, <2>1, <2>3 DEF Makes, Differ, Memories, Ends
<1>5. QED
  BY <1>3, <1>4
LEMMA DEraseMakes ==
    ASSUME NEW m \in Memories, NEW d \in Deques, NEW e \in Elements,
           NEW a \in Seq(Elements), NEW b \in Seq(Elements), Represents(m, d, a \o <<e>> \o b),
           NEW n, n = DErase(m, d, e)
    PROVE  /\ Makes(m, n, d, a \o b, ToSet(a) \cup ToSet(b) \cup {e})
           /\ n.next[e] = Null /\ n.prev[e] = Null
<1>0. /\ Apart(a, <<e>>, b) /\ Fits(m, d, a, <<e>>, b) /\ Together(m, d, a) /\ Together(m, d, b)
      /\ Together(m, d, <<>>)
  BY OneOrNone, Pieces, OneTogether
<1>1. /\ Ends(a) /\ Ends(b) /\ First(<<e>>) = e /\ Final(<<e>>) = e /\ <<e>> # <<>>
      /\ e \notin ToSet(a) /\ e \notin ToSet(b) /\ ToSet(a) \cap ToSet(b) = {} /\ e # Null
  BY <1>0, AreEnds, OneOrNone, ContainersAssumption DEF Apart
<1>2. /\ m.prev[e] = Final(a) /\ m.next[e] = First(b)
      /\ m.head[d] = IF a = <<>> THEN e ELSE First(a)
      /\ m.tail[d] = IF b = <<>> THEN e ELSE Final(b)
  BY <1>0, <1>1, Kinds DEF Fits
<1>3. m.head[d] = e <=> a = <<>>
  BY <1>1, <1>2 DEF Ends
<1>4. m.tail[d] = e <=> b = <<>>
  BY <1>1, <1>2 DEF Ends
<1>5. Apart(a, <<>>, b) /\ a \o b = a \o <<>> \o b
  BY <1>0, OneOrNone DEF Apart
<1>6. ASSUME n \in Memories, Fits(n, d, a, <<>>, b), Keeps(m, n, d, a), Keeps(m, n, d, b)
      PROVE  Represents(n, d, a \o b)
  <2>1. Keeps(m, n, d, <<>>)
    BY OneOrNone DEF Keeps
  <2>2. QED
    BY <1>0, <1>5, <1>6, <2>1, Assembled
<1>7. CASE a = <<>> /\ b = <<>>
  <2>1. /\ n \in Memories /\ n.next = [m.next EXCEPT ![e] = Null] /\ n.prev = [m.prev EXCEPT ![e] = Null]
        /\ n.head = [m.head EXCEPT ![d] = Null] /\ n.tail = [m.tail EXCEPT ![d] = Null]
    BY <1>1, <1>2, <1>3, <1>4, <1>7, Kinds DEF DErase, Emptied, Memories, Links, Ends
  <2>2. Fits(n, d, a, <<>>, b) /\ Keeps(m, n, d, a) /\ Keeps(m, n, d, b)
    BY <1>1, <1>7, <2>1, OneOrNone, Kinds DEF Fits, Keeps, Memories, Ends
  <2>3. QED
    BY <1>1, <1>6, <2>1, <2>2 DEF Makes, Differ, Memories, Ends
<1>8. CASE a = <<>> /\ b # <<>>
  <2>1. /\ n \in Memories /\ n.next = [m.next EXCEPT ![e] = Null]
        /\ n.prev = [m.prev EXCEPT ![First(b)] = Null, ![e] = Null]
        /\ n.head = [m.head EXCEPT ![d] = First(b)] /\ n.tail = m.tail
    BY <1>1, <1>2, <1>3, <1>4, <1>8, Kinds DEF DErase, Memories, Links, Ends
  <2>2. Fits(n, d, a, <<>>, b) /\ Keeps(m, n, d, a) /\ Keeps(m, n, d, b)
    BY <1>0, <1>1, <1>2, <1>8, <2>1, OneOrNone, Kinds DEF Fits, Keeps, Memories, Ends
  <2>3. QED
    BY <1>1, <1>6, <1>8, <2>1, <2>2 DEF Makes, Differ, Memories, Ends
<1>9. CASE a # <<>> /\ b = <<>>
  <2>1. /\ n \in Memories /\ n.next = [m.next EXCEPT ![Final(a)] = Null, ![e] = Null]
        /\ n.prev = [m.prev EXCEPT ![e] = Null]
        /\ n.tail = [m.tail EXCEPT ![d] = Final(a)] /\ n.head = m.head
    BY <1>1, <1>2, <1>3, <1>4, <1>9, Kinds DEF DErase, Memories, Links, Ends
  <2>2. Fits(n, d, a, <<>>, b) /\ Keeps(m, n, d, a) /\ Keeps(m, n, d, b)
    BY <1>0, <1>1, <1>2, <1>9, <2>1, OneOrNone, Kinds DEF Fits, Keeps, Memories, Ends
  <2>3. QED
    BY <1>1, <1>6, <1>9, <2>1, <2>2 DEF Makes, Differ, Memories, Ends
<1>10. CASE a # <<>> /\ b # <<>>
  <2>1. /\ n \in Memories /\ n.next = [m.next EXCEPT ![Final(a)] = First(b), ![e] = Null]
        /\ n.prev = [m.prev EXCEPT ![First(b)] = Final(a), ![e] = Null]
        /\ n.tail = m.tail /\ n.head = m.head
    BY <1>1, <1>2, <1>3, <1>4, <1>10, Kinds, ZenonT(60) DEF DErase, Memories, Links, Ends
  <2>2. Fits(n, d, a, <<>>, b) /\ Keeps(m, n, d, a) /\ Keeps(m, n, d, b)
    BY <1>0, <1>1, <1>2, <1>10, <2>1, OneOrNone, Kinds DEF Fits, Keeps, Memories, Ends
  <2>3. QED
    BY <1>1, <1>6, <1>10, <2>1, <2>2 DEF Makes, Differ, Memories, Ends
<1>11. QED
  BY <1>7, <1>8, <1>9, <1>10

\* What has no links is in no Deque: nothing happens to it.
LEMMA DEraseElsewhere ==
    ASSUME NEW m, NEW d \in Deques, NEW s, Represents(m, d, s),
           NEW e \in Elements \ ToSet(s), m.next[e] = Null, m.prev[e] = Null
    PROVE  DErase(m, d, e) = m
<1>1. s \in Seq(Elements) /\ m.head[d] = First(s)
  BY DEF Represents
<1>2. e # m.head[d]
  BY <1>1, AreEnds, ContainersAssumption DEF Ends
<1>3. QED
  BY <1>2 DEF DErase
LEMMA DInsertAllMakes ==
    ASSUME NEW m \in Memories, NEW c \in Deques, NEW d \in Deques, c # d,
           NEW a \in Seq(Elements), NEW b \in Seq(Elements), b # <<>>, NEW t,
           Represents(m, c, a \o b), Represents(m, d, t),
           ToSet(t) \cap (ToSet(a) \cup ToSet(b)) = {},
           NEW n, n = DInsertAll(m, c, First(b), d)
    PROVE  MakesTwo(m, n, c, a \o t \o b, d, <<>>, ToSet(a) \cup ToSet(b) \cup ToSet(t))
<1>0. /\ Apart(a, t, b) /\ Fits(m, c, a, <<>>, b) /\ Fits(m, d, t, <<>>, <<>>)
      /\ Together(m, c, a) /\ Together(m, c, t) /\ Together(m, c, b)
      /\ ToSet(a) \cap ToSet(b) = {} /\ ToSet(a) \cap ToSet(t) = {} /\ ToSet(b) \cap ToSet(t) = {}
  BY PiecesOfTwo DEF Apart
<1>1. Ends(a) /\ Ends(b) /\ Ends(t) /\ First(<<>>) = Null
  BY PiecesOfTwo DEF First
<1>2. /\ m.prev[First(b)] = Final(a)
      /\ m.head[d] = First(t) /\ (t # <<>> => m.tail[d] = Final(t))
  BY <1>0, <1>1, Kinds DEF Fits, Ends
<1>3. ASSUME n \in Memories, Fits(n, c, a, t, b), n.head[d] = Null,
             Keeps(m, n, c, a), Keeps(m, n, c, t), Keeps(m, n, c, b)
      PROVE  Represents(n, c, a \o t \o b) /\ Represents(n, d, <<>>)
  BY <1>0, <1>3, Assembled, EmptyIs
<1>4. CASE t = <<>>
  <2>1. n = m
    BY <1>1, <1>2, <1>4 DEF DInsertAll, IsEmpty, Ends
  <2>2. a \o t \o b = a \o b
    BY <1>4
  <2>3. QED
    BY <1>4, <2>1, <2>2 DEF MakesTwo, Differ
<1>5. CASE t # <<>> /\ a = <<>>
  <2>1. /\ n \in Memories /\ n.next = [m.next EXCEPT ![Final(t)] = First(b)]
        /\ n.prev = [m.prev EXCEPT ![First(t)] = Final(a), ![First(b)] = Final(t)]
        /\ n.head = [m.head EXCEPT ![c] = First(t), ![d] = Null]
        /\ n.tail = [m.tail EXCEPT ![d] = Null]
    <3>1. n = Emptied([[m EXCEPT !.head[c] = First(t)]
                         EXCEPT !.prev[First(t)] = Null, !.next[Final(t)] = First(b),
                                !.prev[First(b)] = Final(t)], d)
      BY <1>1, <1>2, <1>5 DEF DInsertAll, IsEmpty, Ends
    <3>2. First(t) \in Elements /\ Final(t) \in Elements /\ First(b) \in Elements /\ Final(a) = Null
      BY <1>1, <1>5 DEF Ends
    <3>3. n.next = [m.next EXCEPT ![Final(t)] = First(b)]
      BY <3>1 DEF Emptied, Memories
    <3>4. n.prev = [m.prev EXCEPT ![First(t)] = Final(a), ![First(b)] = Final(t)]
      BY <3>1, <3>2 DEF Emptied, Memories
    <3>5. /\ n.head = [m.head EXCEPT ![c] = First(t), ![d] = Null]
          /\ n.tail = [m.tail EXCEPT ![d] = Null]
      BY <3>1 DEF Emptied, Memories
    <3>6. n \in [next : {n.next}, prev : {n.prev}, head : {n.head}, tail : {n.tail}]
      BY <3>1 DEF Emptied, Memories
    <3>7. /\ n.next \in [Elements -> Links] /\ n.prev \in [Elements -> Links]
          /\ n.head \in [Containers -> Links] /\ n.tail \in [Containers -> Links]
      BY <3>2, <3>3, <3>4, <3>5, Kinds DEF Memories, Links
    <3>8. QED
      BY <3>3, <3>4, <3>5, <3>6, <3>7 DEF Memories
  <2>2. /\ Fits(n, c, a, t, b) /\ Keeps(m, n, c, a) /\ Keeps(m, n, c, t) /\ Keeps(m, n, c, b)
        /\ n.head[d] = Null
    BY <1>0, <1>1, <1>5, <2>1, Kinds DEF Fits, Keeps, Memories, Ends
  <2>3. QED
    BY <1>1, <1>3, <1>5, <2>1, <2>2 DEF MakesTwo, Differ, Memories, Ends
<1>6. CASE t # <<>> /\ a # <<>>
  <2>1. /\ n \in Memories
        /\ n.next = [m.next EXCEPT ![Final(a)] = First(t), ![Final(t)] = First(b)]
        /\ n.prev = [m.prev EXCEPT ![First(t)] = Final(a), ![First(b)] = Final(t)]
        /\ n.head = [m.head EXCEPT ![d] = Null] /\ n.tail = [m.tail EXCEPT ![d] = Null]
    <3>1. n = Emptied([[m EXCEPT !.next[Final(a)] = First(t)]
                         EXCEPT !.prev[First(t)] = Final(a), !.next[Final(t)] = First(b),
                                !.prev[First(b)] = Final(t)], d)
      BY <1>1, <1>2, <1>6 DEF DInsertAll, IsEmpty, Ends
    <3>2. /\ First(t) \in Elements /\ Final(t) \in Elements /\ First(b) \in Elements
          /\ Final(a) \in Elements
      BY <1>1, <1>6 DEF Ends
    <3>3. n.next = [m.next EXCEPT ![Final(a)] = First(t), ![Final(t)] = First(b)]
      BY <3>1 DEF Emptied, Memories
    <3>4. n.prev = [m.prev EXCEPT ![First(t)] = Final(a), ![First(b)] = Final(t)]
      BY <3>1, <3>2 DEF Emptied, Memories
    <3>5. /\ n.head = [m.head EXCEPT ![d] = Null]
          /\ n.tail = [m.tail EXCEPT ![d] = Null]
      BY <3>1 DEF Emptied, Memories
    <3>6. n \in [next : {n.next}, prev : {n.prev}, head : {n.head}, tail : {n.tail}]
      BY <3>1 DEF Emptied, Memories
    <3>7. /\ n.next \in [Elements -> Links] /\ n.prev \in [Elements -> Links]
          /\ n.head \in [Containers -> Links] /\ n.tail \in [Containers -> Links]
      BY <3>2, <3>3, <3>4, <3>5, Kinds DEF Memories, Links
    <3>8. QED
      BY <3>3, <3>4, <3>5, <3>6, <3>7 DEF Memories
  <2>2. /\ Fits(n, c, a, t, b) /\ Keeps(m, n, c, a) /\ Keeps(m, n, c, t) /\ Keeps(m, n, c, b)
        /\ n.head[d] = Null
    BY <1>0, <1>1, <1>6, <2>1, Kinds DEF Fits, Keeps, Memories, Ends
  <2>3. QED
    BY <1>1, <1>3, <1>6, <2>1, <2>2 DEF MakesTwo, Differ, Memories, Ends
<1>7. QED
  BY <1>4, <1>5, <1>6

LEMMA DPushFrontAllMakes ==
    ASSUME NEW m \in Memories, NEW c \in Deques, NEW d \in Deques, c # d, NEW s, NEW t,
           Represents(m, c, s), Represents(m, d, t), ToSet(t) \cap ToSet(s) = {},
           NEW n, n = DPushFrontAll(m, c, d)
    PROVE  MakesTwo(m, n, c, t \o s, d, <<>>, ToSet(s) \cup ToSet(t))
<1>0. /\ Apart(<<>>, t, s) /\ Fits(m, c, <<>>, <<>>, s) /\ Fits(m, d, t, <<>>, <<>>)
      /\ Together(m, c, <<>>) /\ Together(m, c, t) /\ Together(m, c, s)
      /\ Ends(s) /\ Ends(t) /\ ToSet(<<>>) = {} /\ <<>> \o t \o s = t \o s
      /\ s \in Seq(Elements) /\ t \in Seq(Elements)
  <2>1. /\ s \in Seq(Elements) /\ <<>> \in Seq(Elements) /\ <<>> \o s = s /\ ToSet(<<>>) = {}
        /\ t \in Seq(Elements)
    BY DEF Represents, ToSet
  <2>2. Represents(m, c, <<>> \o s) /\ ToSet(t) \cap (ToSet(<<>>) \cup ToSet(s)) = {}
    BY <2>1
  <2>3. <<>> \o t \o s = t \o s
    BY <2>1
  <2>4. QED
    BY <2>1, <2>2, <2>3, PiecesOfTwo
<1>1. First(<<>>) = Null /\ ToSet(s) \cap ToSet(t) = {}
  BY DEF First
<1>2. /\ m.head[c] = First(s) /\ (s # <<>> => m.tail[c] = Final(s) /\ m.next[Final(s)] = Null)
      /\ m.head[d] = First(t) /\ (t # <<>> => m.tail[d] = Final(t) /\ m.next[Final(t)] = Null)
      /\ s # <<>> => m.prev[First(s)] = Null
      /\ t # <<>> => m.prev[First(t)] = Null
  <2>1. Final(<<>>) = Null
    BY DEF Final
  <2>2. QED
    BY <1>0, <1>1, <2>1, Kinds DEF Fits, Ends
<1>3. ASSUME n \in Memories, Fits(n, c, <<>>, t, s), n.head[d] = Null,
             Keeps(m, n, c, t), Keeps(m, n, c, s)
      PROVE  Represents(n, c, t \o s) /\ Represents(n, d, <<>>)
  <2>1. Keeps(m, n, c, <<>>)
    BY <1>0 DEF Keeps
  <2>2. QED
    BY <1>0, <1>3, <2>1, Assembled, EmptyIs
<1>4. CASE t = <<>>
  <2>1. n = m
    BY <1>0, <1>2, <1>4 DEF DPushFrontAll, IsEmpty, Ends
  <2>2. t \o s = s
    BY <1>0, <1>4
  <2>3. QED
    BY <1>4, <2>1, <2>2 DEF MakesTwo, Differ
<1>5. CASE t # <<>> /\ s = <<>>
  <2>1. /\ n \in Memories /\ n.next = m.next /\ n.prev = m.prev
        /\ n.head = [m.head EXCEPT ![c] = First(t), ![d] = Null]
        /\ n.tail = [m.tail EXCEPT ![c] = Final(t), ![d] = m.tail[c]]
    BY <1>0, <1>2, <1>5, Kinds DEF DPushFrontAll, Swap, IsEmpty, Memories, Links, Ends
  <2>2. /\ Fits(n, c, <<>>, t, s) /\ Keeps(m, n, c, t) /\ Keeps(m, n, c, s)
        /\ n.head[d] = Null
    <3>1. Final(<<>>) = Null
      BY DEF Final
    <3>2. QED
      BY <1>0, <1>1, <1>2, <1>5, <2>1, <3>1, Kinds DEF Fits, Keeps, Memories, Ends
  <2>3. QED
    BY <1>0, <1>3, <1>5, <2>1, <2>2 DEF MakesTwo, Differ, Memories, Ends
<1>6. CASE t # <<>> /\ s # <<>>
  <2>1. /\ n \in Memories /\ n.next = [m.next EXCEPT ![Final(t)] = First(s)]
        /\ n.prev = [m.prev EXCEPT ![First(s)] = Final(t)]
        /\ n.head = [m.head EXCEPT ![c] = First(t), ![d] = Null]
        /\ n.tail = [m.tail EXCEPT ![d] = Null]
    BY <1>0, <1>2, <1>6, Kinds, ZenonT(60) DEF DPushFrontAll, Emptied, IsEmpty, Memories, Links, Ends
  <2>2. /\ Fits(n, c, <<>>, t, s) /\ Keeps(m, n, c, t) /\ Keeps(m, n, c, s)
        /\ n.head[d] = Null
    <3>1. Final(<<>>) = Null
      BY DEF Final
    <3>2. QED
      BY <1>0, <1>1, <1>2, <1>6, <2>1, <3>1, Kinds DEF Fits, Keeps, Memories, Ends
  <2>3. QED
    BY <1>0, <1>3, <1>6, <2>1, <2>2 DEF MakesTwo, Differ, Memories, Ends
<1>7. QED
  BY <1>4, <1>5, <1>6
LEMMA DPushBackAllMakes ==
    ASSUME NEW m \in Memories, NEW c \in Deques, NEW d \in Deques, c # d, NEW s, NEW t,
           Represents(m, c, s), Represents(m, d, t), ToSet(t) \cap ToSet(s) = {},
           NEW n, n = DPushBackAll(m, c, d)
    PROVE  MakesTwo(m, n, c, s \o t, d, <<>>, ToSet(s) \cup ToSet(t))
<1>0. /\ Apart(s, t, <<>>) /\ Fits(m, c, s, <<>>, <<>>) /\ Fits(m, d, t, <<>>, <<>>)
      /\ Together(m, c, <<>>) /\ Together(m, c, t) /\ Together(m, c, s)
      /\ Ends(s) /\ Ends(t) /\ ToSet(<<>>) = {} /\ s \o t \o <<>> = s \o t
      /\ s \in Seq(Elements) /\ t \in Seq(Elements)
  <2>1. /\ s \in Seq(Elements) /\ <<>> \in Seq(Elements) /\ s \o <<>> = s /\ ToSet(<<>>) = {}
        /\ t \in Seq(Elements)
    BY DEF Represents, ToSet
  <2>2. Represents(m, c, s \o <<>>) /\ ToSet(t) \cap (ToSet(s) \cup ToSet(<<>>)) = {}
    BY <2>1
  <2>3. s \o t \o <<>> = s \o t
    BY <2>1
  <2>4. QED
    BY <2>1, <2>2, <2>3, PiecesOfTwo
<1>1. First(<<>>) = Null /\ Final(<<>>) = Null /\ ToSet(s) \cap ToSet(t) = {}
  BY DEF First, Final
<1>2. /\ m.head[c] = First(s) /\ (s # <<>> => m.tail[c] = Final(s) /\ m.next[Final(s)] = Null)
      /\ m.head[d] = First(t) /\ (t # <<>> => m.tail[d] = Final(t) /\ m.next[Final(t)] = Null)
      /\ s # <<>> => m.prev[First(s)] = Null
      /\ t # <<>> => m.prev[First(t)] = Null
  BY <1>0, <1>1, Kinds DEF Fits, Ends
<1>3. ASSUME n \in Memories, Fits(n, c, s, t, <<>>), n.head[d] = Null,
             Keeps(m, n, c, t), Keeps(m, n, c, s)
      PROVE  Represents(n, c, s \o t) /\ Represents(n, d, <<>>)
  <2>1. Keeps(m, n, c, <<>>)
    BY <1>0 DEF Keeps
  <2>2. QED
    BY <1>0, <1>3, <2>1, Assembled, EmptyIs
<1>4. CASE t = <<>>
  <2>1. n = m
    BY <1>0, <1>2, <1>4 DEF DPushBackAll, IsEmpty, Ends
  <2>2. s \o t = s
    BY <1>0, <1>4
  <2>3. QED
    BY <1>4, <2>1, <2>2 DEF MakesTwo, Differ
<1>5. CASE t # <<>> /\ s = <<>>
  <2>1. /\ n \in Memories /\ n.next = m.next /\ n.prev = m.prev
        /\ n.head = [m.head EXCEPT ![c] = First(t), ![d] = Null]
        /\ n.tail = [m.tail EXCEPT ![c] = Final(t), ![d] = m.tail[c]]
    BY <1>0, <1>2, <1>5, Kinds DEF DPushBackAll, Swap, IsEmpty, Memories, Links, Ends
  <2>2. /\ Fits(n, c, s, t, <<>>) /\ Keeps(m, n, c, t) /\ Keeps(m, n, c, s)
        /\ n.head[d] = Null
    BY <1>0, <1>1, <1>2, <1>5, <2>1, Kinds DEF Fits, Keeps, Memories, Ends
  <2>3. QED
    BY <1>0, <1>3, <1>5, <2>1, <2>2 DEF MakesTwo, Differ, Memories, Ends
<1>6. CASE t # <<>> /\ s # <<>>
  <2>1. /\ n \in Memories /\ n.next = [m.next EXCEPT ![Final(s)] = First(t)]
        /\ n.prev = [m.prev EXCEPT ![First(t)] = Final(s)]
        /\ n.head = [m.head EXCEPT ![d] = Null]
        /\ n.tail = [m.tail EXCEPT ![c] = Final(t), ![d] = Null]
    BY <1>0, <1>2, <1>6, Kinds DEF DPushBackAll, Emptied, IsEmpty, Memories, Links, Ends
  <2>2. /\ Fits(n, c, s, t, <<>>) /\ Keeps(m, n, c, t) /\ Keeps(m, n, c, s)
        /\ n.head[d] = Null
    BY <1>0, <1>1, <1>2, <1>6, <2>1, Kinds DEF Fits, Keeps, Memories, Ends
  <2>3. QED
    BY <1>0, <1>3, <1>6, <2>1, <2>2 DEF MakesTwo, Differ, Memories, Ends
<1>7. QED
  BY <1>4, <1>5, <1>6

\* split(): all up to pos goes into an empty Deque.
LEMMA DSplitMakes ==
    ASSUME NEW m \in Memories, NEW c \in Deques, NEW d \in Deques, c # d,
           NEW a \in Seq(Elements), NEW e \in Elements, NEW b \in Seq(Elements),
           Represents(m, c, a \o <<e>> \o b), m.head[d] = Null,
           NEW n, n = DSplit(m, c, e, d)
    PROVE  MakesTwo(m, n, c, b, d, a \o <<e>>, ToSet(a) \cup ToSet(b) \cup {e})
<1>0. /\ Apart(a, <<e>>, b) /\ Fits(m, c, a, <<e>>, b) /\ Together(m, c, a) /\ Together(m, c, b)
      /\ Together(m, d, <<e>>)
  BY OneOrNone, Pieces, OneTogether
<1>1. /\ Ends(a) /\ Ends(b) /\ First(<<e>>) = e /\ Final(<<e>>) = e /\ <<e>> # <<>>
      /\ e \notin ToSet(a) /\ e \notin ToSet(b) /\ ToSet(a) \cap ToSet(b) = {} /\ e # Null
      /\ First(<<>>) = Null /\ ToSet(<<e>>) = {e}
  BY <1>0, AreEnds, OneOrNone, ContainersAssumption DEF Apart
<1>2. /\ m.prev[e] = Final(a) /\ m.next[e] = First(b)
      /\ m.head[c] = IF a = <<>> THEN e ELSE First(a)
      /\ b # <<>> => m.tail[c] = Final(b) /\ m.prev[First(b)] = e /\ m.next[Final(b)] = Null
      /\ a # <<>> => m.next[Final(a)] = e /\ m.prev[First(a)] = Null
  BY <1>0, <1>1, Kinds DEF Fits
<1> DEFINE first == IF a = <<>> THEN e ELSE First(a)
<1>3. first \in Elements
  BY <1>1 DEF Ends
<1>4. /\ n \in Memories /\ n.next = [m.next EXCEPT ![e] = Null]
      /\ n.head = [m.head EXCEPT ![d] = first, ![c] = First(b)]
      /\ n.tail = [m.tail EXCEPT ![d] = e]
      /\ n.prev = IF b = <<>> THEN m.prev ELSE [m.prev EXCEPT ![First(b)] = Null]
  <2>1. CASE b = <<>>
    BY <1>1, <1>2, <1>3, <2>1, Kinds DEF DSplit, Memories, Links, Ends
  <2>2. CASE b # <<>>
    BY <1>1, <1>2, <1>3, <2>2, Kinds DEF DSplit, Memories, Links, Ends
  <2>3. QED
    BY <2>1, <2>2
<1>5. Represents(n, c, b)
  <2>1. Together(n, c, b)
    <3>1. /\ \A x \in ToSet(b) \ {Final(b)} : n.next[x] = m.next[x]
          /\ \A x \in ToSet(b) \ {First(b)} : n.prev[x] = m.prev[x]
      BY <1>1, <1>4 DEF Memories, Ends
    <3>2. QED
      BY <1>0, <3>1, StayTogether DEF Apart
  <2>2. QED
    BY <1>0, <1>1, <1>2, <1>4, <2>1, Kinds DEF Represents, Memories, Ends, Apart
<1>6. Represents(n, d, a \o <<e>>)
  <2>1. Apart(a, <<e>>, <<>>) /\ a \o <<e>> = a \o <<e>> \o <<>>
    BY <1>0, <1>1, AddedPiece DEF Apart
  <2>2. Together(m, d, a) /\ Together(m, d, <<>>)
    BY <1>0, OneTogether DEF Together
  <2>3. Fits(n, d, a, <<e>>, <<>>)
    BY <1>1, <1>2, <1>4, Kinds DEF Fits, Memories, Ends
  <2>4. Keeps(m, n, d, a) /\ Keeps(m, n, d, <<e>>) /\ Keeps(m, n, d, <<>>)
    BY <1>1, <1>4, OneOrNone DEF Keeps, Memories, Ends
  <2>5. QED
    BY <1>0, <2>1, <2>2, <2>3, <2>4, Assembled
<1>7. Differ(m, n, ToSet(a) \cup ToSet(b) \cup {e}, {c, d})
  BY <1>1, <1>4 DEF Differ, Memories, Ends
<1>8. QED
  BY <1>4, <1>5, <1>6, <1>7 DEF MakesTwo
------------------------------------------------------------------------------
(* Queue and Stack: there are no links back. *)

OneWay == Queues \cup Stacks

LEMMA Ways ==
    /\ OneWay \subseteq Containers
    /\ \A c \in OneWay : c \notin Deques /\ (c \in Lists <=> c \in Queues)
BY Kinds, ContainersAssumption DEF OneWay, Lists

\* The iterators find the element in front of another one.
LEMMA PreviousIs ==
    ASSUME NEW m, NEW c \in Containers, NEW a \in Seq(Elements), NEW b \in Seq(Elements),
           b # <<>>, Represents(m, c, a \o b)
    PROVE  Previous(m, c, First(b)) = Final(a)
<1>0. /\ Apart(a, <<>>, b) /\ Fits(m, c, a, <<>>, b) /\ Together(m, c, a) /\ Together(m, c, b)
      /\ Ends(a) /\ Ends(b) /\ ToSet(a \o b) = ToSet(a) \cup ToSet(b)
  BY TwoPieces, AreEnds, Joined
<1>1. Chain(m, c) = a \o b
  BY ChainIs
<1>2. ASSUME NEW s \in Seq(Elements), IsInjective(s), Together(m, c, s),
             NEW x \in ToSet(s) \ {Final(s)}
      PROVE  m.next[x] \in ToSet(s) \ {First(s)}
  <2>1. PICK k \in Nat : k = Len(s) /\ DOMAIN s = 1 .. k /\ (s = <<>> <=> k = 0)
    BY Indices
  <2>2. PICK i \in 1 .. k : x = s[i]
    BY <2>1 DEF ToSet
  <2>3. i # k
    BY <1>2, <2>1, <2>2 DEF Final
  <2>4. i \in 1 .. k - 1
    BY <2>1, <2>3
  <2>5. PICK p \in Neighbours(s) : p = <<s[i], s[i + 1]>>
    BY <2>1, <2>4 DEF Neighbours
  <2>6. p[1] = x /\ m.next[p[1]] = p[2]
    BY <1>2, <2>2, <2>5 DEF Together, Linked
  <2>7. QED
    BY <1>2, <2>6, NeighboursWithin
<1>3. ASSUME NEW x \in ToSet(a) \cup ToSet(b), m.next[x] = First(b)
      PROVE  a # <<>> /\ x = Final(a)
  <2>1. CASE x \in ToSet(b)
    <3>1. x # Final(b)
      BY <1>0, <1>3 DEF Fits, Ends
    <3>2. m.next[x] # First(b)
      BY <1>0, <1>2, <2>1, <3>1 DEF Apart
    <3>3. QED
      BY <1>3, <3>2
  <2>2. CASE x \in ToSet(a)
    <3>1. First(b) \notin ToSet(a)
      BY <1>0 DEF Apart, Ends
    <3>2. x = Final(a)
      BY <1>0, <1>2, <1>3, <2>2, <3>1 DEF Apart
    <3>3. QED
      BY <1>0, <2>2, <3>2 DEF Ends
  <2>3. QED
    BY <2>1, <2>2
<1>4. a # <<>> => Final(a) \in ToSet(a) \cup ToSet(b) /\ m.next[Final(a)] = First(b)
  BY <1>0 DEF Fits, Ends
<1>5. a = <<>> => Final(a) = Null
  BY DEF Final
<1>6. QED
  BY <1>0, <1>1, <1>3, <1>4, <1>5 DEF Previous

LEMMA NoneAround ==
    ASSUME NEW s \in Seq(Elements), NEW e \in Elements
    PROVE  /\ <<>> \o s = s /\ s \o <<>> = s /\ <<>> \in Seq(Elements) /\ <<e>> \in Seq(Elements)
           /\ <<>> \o <<e>> \o s = <<e>> \o s /\ s \o <<e>> \o <<>> = s \o <<e>>
           /\ ToSet(<<>>) = {} /\ Final(<<>>) = Null /\ First(<<>>) = Null
<1>1. /\ <<>> \o s = s /\ s \o <<>> = s /\ <<>> \in Seq(Elements) /\ <<e>> \in Seq(Elements)
      /\ <<>> \o <<e>> \o s = <<e>> \o s /\ s \o <<e>> \o <<>> = s \o <<e>>
  OBVIOUS
<1>2. QED
  BY <1>1 DEF First, Final, ToSet

\* One element more: in front, at the end, in between.
LEMMA OneMore ==
    ASSUME NEW m \in Memories, NEW n \in Memories, NEW c \in OneWay,
           NEW a \in Seq(Elements), NEW b \in Seq(Elements), Represents(m, c, a \o b),
           NEW e \in Elements, e \notin ToSet(a) \cup ToSet(b),
           \A x \in Elements \ {e, Final(a)} : n.next[x] = m.next[x],
           n.prev = m.prev, n.next[e] = First(b), a # <<>> => n.next[Final(a)] = e,
           \A d \in Containers \ {c} : n.head[d] = m.head[d] /\ n.tail[d] = m.tail[d],
           n.head[c] = IF a = <<>> THEN e ELSE First(a),
           c \in Queues => n.tail[c] = IF b = <<>> THEN e ELSE Final(b)
    PROVE  Makes(m, n, c, a \o <<e>> \o b, ToSet(a) \cup ToSet(b) \cup {e})
<1>0. /\ Apart(a, <<e>>, b) /\ Fits(m, c, a, <<>>, b)
      /\ Together(m, c, a) /\ Together(m, c, <<e>>) /\ Together(m, c, b)
      /\ ToSet(a) \cap ToSet(b) = {}
  BY TwoPieces, OneTogether, ZenonT(60) DEF Apart
<1>1. /\ Ends(a) /\ Ends(b) /\ First(<<e>>) = e /\ Final(<<e>>) = e /\ <<e>> # <<>>
      /\ ToSet(<<e>>) = {e}
  BY <1>0, AreEnds, OneOrNone DEF Apart
<1>2. Fits(n, c, a, <<e>>, b)
  BY <1>0, <1>1, Ways DEF Fits, Ends
<1>3. Keeps(m, n, c, a) /\ Keeps(m, n, c, <<e>>) /\ Keeps(m, n, c, b)
  <2>1. \A x \in (ToSet(a) \ {Final(a)}) \cup ToSet(b) : x \in Elements \ {e, Final(a)}
    BY <1>0, <1>1, ContainersAssumption DEF Ends
  <2>2. QED
    BY <1>1, <2>1, Ways DEF Keeps
<1>4. Represents(n, c, a \o <<e>> \o b)
  BY <1>0, <1>2, <1>3, Assembled
<1>5. \A x \in Elements : x \notin ToSet(a) \cup ToSet(b) \cup {e} => x # Final(a)
  BY <1>1, ContainersAssumption DEF Ends
<1>6. QED
  BY <1>4, <1>5 DEF Makes, Differ

\* One element less.
LEMMA OneLess ==
    ASSUME NEW m \in Memories, NEW n \in Memories, NEW c \in OneWay,
           NEW a \in Seq(Elements), NEW e \in Elements, NEW b \in Seq(Elements),
           Represents(m, c, a \o <<e>> \o b),
           \A x \in Elements \ {e, Final(a)} : n.next[x] = m.next[x],
           n.prev = m.prev, a # <<>> => n.next[Final(a)] = First(b),
           \A d \in Containers \ {c} : n.head[d] = m.head[d] /\ n.tail[d] = m.tail[d],
           n.head[c] = IF a = <<>> THEN First(b) ELSE First(a),
           c \in Queues => n.tail[c] = IF b = <<>> THEN Final(a) ELSE Final(b)
    PROVE  Makes(m, n, c, a \o b, ToSet(a) \cup ToSet(b) \cup {e})
<1>0. /\ Apart(a, <<e>>, b) /\ Fits(m, c, a, <<e>>, b)
      /\ Together(m, c, a) /\ Together(m, c, <<>>) /\ Together(m, c, b)
  BY OneOrNone, Pieces, OneTogether
<1>1. /\ Ends(a) /\ Ends(b) /\ First(<<e>>) = e /\ Final(<<e>>) = e /\ <<e>> # <<>>
      /\ e \notin ToSet(a) /\ e \notin ToSet(b) /\ ToSet(a) \cap ToSet(b) = {}
  BY <1>0, AreEnds, OneOrNone DEF Apart
<1>2. Apart(a, <<>>, b) /\ a \o b = a \o <<>> \o b
  BY <1>0, OneOrNone DEF Apart
<1>3. Fits(n, c, a, <<>>, b)
  BY <1>0, <1>1, Ways DEF Fits, Ends
<1>4. Keeps(m, n, c, a) /\ Keeps(m, n, c, <<>>) /\ Keeps(m, n, c, b)
  <2>1. \A x \in (ToSet(a) \ {Final(a)}) \cup ToSet(b) : x \in Elements \ {e, Final(a)}
    BY <1>0, <1>1, ContainersAssumption DEF Ends
  <2>2. QED
    BY <2>1, Ways, OneOrNone DEF Keeps
<1>5. Represents(n, c, a \o b)
  BY <1>0, <1>2, <1>3, <1>4, Assembled
<1>6. \A x \in Elements : x \notin ToSet(a) \cup ToSet(b) \cup {e} => x # Final(a)
  BY <1>1, ContainersAssumption DEF Ends
<1>7. QED
  BY <1>5, <1>6 DEF Makes, Differ
LEMMA QPushFrontMakes ==
    ASSUME NEW m \in Memories, NEW q \in Queues, NEW s, Represents(m, q, s),
           NEW e \in Elements \ ToSet(s), NEW n, n = QPushFront(m, q, e)
    PROVE  Makes(m, n, q, <<e>> \o s, ToSet(s) \cup {e})
<1>0. /\ s \in Seq(Elements) /\ Ends(s) /\ Fits(m, q, s, <<>>, <<>>)
  BY OnePiece, AreEnds
<1>1. /\ <<>> \o s = s /\ <<>> \o <<e>> \o s = <<e>> \o s /\ <<>> \in Seq(Elements)
      /\ ToSet(<<>>) = {} /\ Final(<<>>) = Null /\ First(<<>>) = Null
  BY <1>0, NoneAround
<1>2. /\ m.head[q] = First(s) /\ (s # <<>> => m.tail[q] = Final(s)) /\ q \in Containers
  BY <1>0, <1>1, Kinds DEF Fits, Ends
<1>3. /\ n \in Memories /\ n.prev = m.prev /\ n.next = [m.next EXCEPT ![e] = First(s)]
      /\ n.head = [m.head EXCEPT ![q] = e]
      /\ n.tail = IF s = <<>> THEN [m.tail EXCEPT ![q] = e] ELSE m.tail
  <2>1. CASE s = <<>>
    BY <1>0, <1>2, <2>1 DEF QPushFront, IsEmpty, Memories, Links, Ends
  <2>2. CASE s # <<>>
    BY <1>0, <1>2, <2>2 DEF QPushFront, IsEmpty, Memories, Links, Ends
  <2>3. QED
    BY <2>1, <2>2
<1>4. Makes(m, n, q, <<>> \o <<e>> \o s, ToSet(<<>>) \cup ToSet(s) \cup {e})
  <2>1. /\ n.next[e] = First(s) /\ n.head[q] = e
        /\ n.tail[q] = IF s = <<>> THEN e ELSE Final(s)
        /\ \A x \in Elements \ {e, Final(<<>>)} : n.next[x] = m.next[x]
        /\ \A d \in Containers \ {q} : n.head[d] = m.head[d] /\ n.tail[d] = m.tail[d]
    BY <1>2, <1>3 DEF Memories
  <2>2. q \in OneWay /\ e \notin ToSet(<<>>) \cup ToSet(s) /\ Represents(m, q, <<>> \o s)
    BY <1>1 DEF OneWay
  <2>3. QED
    BY <1>0, <1>1, <1>3, <2>1, <2>2, OneMore
<1>5. QED
  BY <1>1, <1>4

LEMMA QPushBackMakes ==
    ASSUME NEW m \in Memories, NEW q \in Queues, NEW s, Represents(m, q, s),
           NEW e \in Elements \ ToSet(s), NEW n, n = QPushBack(m, q, e)
    PROVE  Makes(m, n, q, s \o <<e>>, ToSet(s) \cup {e})
<1>0. /\ s \in Seq(Elements) /\ Ends(s) /\ Fits(m, q, s, <<>>, <<>>)
  BY OnePiece, AreEnds
<1>1. /\ s \o <<>> = s /\ s \o <<e>> \o <<>> = s \o <<e>> /\ <<>> \in Seq(Elements)
      /\ ToSet(<<>>) = {} /\ Final(<<>>) = Null /\ First(<<>>) = Null
  BY <1>0, NoneAround
<1>2. /\ m.head[q] = First(s) /\ (s # <<>> => m.tail[q] = Final(s)) /\ q \in Containers
      /\ e # Final(s)
  BY <1>0, <1>1, Kinds, ContainersAssumption DEF Fits, Ends
<1>3. /\ n \in Memories /\ n.prev = m.prev
      /\ n.next = IF s = <<>> THEN [m.next EXCEPT ![e] = Null]
                  ELSE [m.next EXCEPT ![e] = Null, ![Final(s)] = e]
      /\ n.tail = [m.tail EXCEPT ![q] = e]
      /\ n.head = IF s = <<>> THEN [m.head EXCEPT ![q] = e] ELSE m.head
  <2>1. CASE s = <<>>
    BY <1>0, <1>2, <2>1 DEF QPushBack, IsEmpty, Memories, Links, Ends
  <2>2. CASE s # <<>>
    BY <1>0, <1>2, <2>2 DEF QPushBack, IsEmpty, Memories, Links, Ends
  <2>3. QED
    BY <2>1, <2>2
<1>4. Makes(m, n, q, s \o <<e>> \o <<>>, ToSet(s) \cup ToSet(<<>>) \cup {e})
  <2>1. /\ n.next[e] = First(<<>>) /\ n.head[q] = IF s = <<>> THEN e ELSE First(s)
        /\ s # <<>> => n.next[Final(s)] = e
        /\ n.tail[q] = e
        /\ \A x \in Elements \ {e, Final(s)} : n.next[x] = m.next[x]
        /\ \A d \in Containers \ {q} : n.head[d] = m.head[d] /\ n.tail[d] = m.tail[d]
    BY <1>0, <1>1, <1>2, <1>3 DEF Memories, Ends
  <2>2. q \in OneWay /\ e \notin ToSet(s) \cup ToSet(<<>>) /\ Represents(m, q, s \o <<>>)
    BY <1>1 DEF OneWay
  <2>3. QED
    BY <1>0, <1>1, <1>3, <2>1, <2>2, OneMore
<1>5. QED
  BY <1>1, <1>4

LEMMA IteratorInsertMakes ==
    ASSUME NEW m \in Memories, NEW c \in OneWay,
           NEW a \in Seq(Elements), NEW b \in Seq(Elements), b # <<>>, Represents(m, c, a \o b),
           NEW e \in Elements, e \notin ToSet(a) \cup ToSet(b),
           NEW n, n = IteratorInsert(m, c, First(b), e)
    PROVE  Makes(m, n, c, a \o <<e>> \o b, ToSet(a) \cup ToSet(b) \cup {e})
<1>0. Fits(m, c, a, <<>>, b) /\ Ends(a) /\ Ends(b)
  BY TwoPieces, AreEnds
<1>1. c \in Containers /\ Previous(m, c, First(b)) = Final(a)
  BY Ways, PreviousIs
<1>2. /\ First(b) \in Elements /\ (c \in Queues => m.tail[c] = Final(b)) /\ e # Final(a)
      /\ a # <<>> => m.head[c] = First(a)
  BY <1>0, Ways, ContainersAssumption DEF Fits, Ends
<1>3. /\ n \in Memories /\ n.prev = m.prev /\ n.tail = m.tail
      /\ n.next = IF a = <<>> THEN [m.next EXCEPT ![e] = First(b)]
                  ELSE [m.next EXCEPT ![e] = First(b), ![Final(a)] = e]
      /\ n.head = IF a = <<>> THEN [m.head EXCEPT ![c] = e] ELSE m.head
  <2>1. CASE a = <<>>
    BY <1>0, <1>1, <1>2, <2>1 DEF IteratorInsert, Memories, Links, Ends
  <2>2. CASE a # <<>>
    BY <1>0, <1>1, <1>2, <2>2 DEF IteratorInsert, Memories, Links, Ends
  <2>3. QED
    BY <2>1, <2>2
<1>4. /\ n.next[e] = First(b) /\ n.head[c] = IF a = <<>> THEN e ELSE First(a)
      /\ a # <<>> => n.next[Final(a)] = e
      /\ c \in Queues => n.tail[c] = Final(b)
      /\ \A x \in Elements \ {e, Final(a)} : n.next[x] = m.next[x]
      /\ \A d \in Containers \ {c} : n.head[d] = m.head[d] /\ n.tail[d] = m.tail[d]
  BY <1>0, <1>1, <1>2, <1>3 DEF Memories, Ends
<1>5. QED
  BY <1>3, <1>4, OneMore

LEMMA SPushMakes ==
    ASSUME NEW m \in Memories, NEW t \in Stacks, NEW s, Represents(m, t, s),
           NEW e \in Elements \ ToSet(s), NEW n, n = SPush(m, t, e)
    PROVE  Makes(m, n, t, <<e>> \o s, ToSet(s) \cup {e})
<1>0. /\ s \in Seq(Elements) /\ Ends(s) /\ m.head[t] = First(s)
  BY AreEnds DEF Represents
<1>1. /\ <<>> \o s = s /\ <<>> \o <<e>> \o s = <<e>> \o s /\ <<>> \in Seq(Elements)
      /\ ToSet(<<>>) = {} /\ Final(<<>>) = Null /\ t \in Containers /\ t \notin Queues
  BY <1>0, NoneAround, Kinds, ContainersAssumption
<1>2. First(s) \in Links
  BY <1>0 DEF Ends, Links
<1>3. /\ n \in Memories /\ n.prev = m.prev /\ n.next = [m.next EXCEPT ![e] = First(s)]
      /\ n.head = [m.head EXCEPT ![t] = e] /\ n.tail = m.tail
  BY <1>0, <1>1, <1>2 DEF SPush, Memories, Links
<1>4. Makes(m, n, t, <<>> \o <<e>> \o s, ToSet(<<>>) \cup ToSet(s) \cup {e})
  <2>1. /\ n.next[e] = First(s) /\ n.head[t] = e
        /\ \A x \in Elements \ {e, Final(<<>>)} : n.next[x] = m.next[x]
        /\ \A d \in Containers \ {t} : n.head[d] = m.head[d] /\ n.tail[d] = m.tail[d]
    BY <1>1, <1>3 DEF Memories
  <2>2. t \in OneWay /\ e \notin ToSet(<<>>) \cup ToSet(s) /\ Represents(m, t, <<>> \o s)
    BY <1>1 DEF OneWay
  <2>3. QED
    BY <1>0, <1>1, <1>3, <2>1, <2>2, OneMore
<1>5. QED
  BY <1>1, <1>4
\* pop(): of a Queue and of a Stack.
LEMMA PopMakes ==
    ASSUME NEW m \in Memories, NEW c \in OneWay, NEW e \in Elements, NEW s \in Seq(Elements),
           Represents(m, c, <<e>> \o s),
           NEW n, \/ c \in Queues /\ n = QPop(m, c)
                  \/ c \in Stacks /\ n = SPop(m, c)
    PROVE  Makes(m, n, c, s, ToSet(s) \cup {e}) /\ n.next[e] = Null
<1>1. /\ <<>> \o s = s /\ <<>> \o <<e>> \o s = <<e>> \o s /\ <<>> \in Seq(Elements)
      /\ ToSet(<<>>) = {} /\ Final(<<>>) = Null /\ <<e>> \in Seq(Elements)
  BY NoneAround
<1>2. Represents(m, c, <<>> \o <<e>> \o s)
  BY <1>1
<1>3. /\ Fits(m, c, <<>>, <<e>>, s) /\ Ends(s)
      /\ <<e>> # <<>> /\ First(<<e>>) = e /\ Final(<<e>>) = e
  BY <1>1, <1>2, Pieces, AreEnds, OneOrNone
<1>4. /\ m.head[c] = e /\ m.next[e] = First(s) /\ c \in Containers
      /\ s # <<>> /\ c \in Queues => m.tail[c] = Final(s)
  BY <1>3, Ways DEF Fits
<1>5. /\ n \in Memories /\ n.prev = m.prev /\ n.next = [m.next EXCEPT ![e] = Null]
      /\ n.head = [m.head EXCEPT ![c] = First(s)]
      /\ n.tail = IF s = <<>> /\ c \in Queues THEN [m.tail EXCEPT ![c] = Null] ELSE m.tail
  <2>1. First(s) \in Links /\ Null \in Links /\ (First(s) = Null <=> s = <<>>)
    BY <1>3, ContainersAssumption DEF Ends, Links
  <2>2. CASE c \in Queues /\ s = <<>> /\ n = QPop(m, c)
    BY <1>4, <2>1, <2>2 DEF QPop, Memories
  <2>3. CASE c \in Queues /\ s # <<>> /\ n = QPop(m, c)
    BY <1>4, <2>1, <2>3 DEF QPop, Memories
  <2>4. CASE c \in Stacks /\ n = SPop(m, c)
    BY <1>4, <2>1, <2>4, ContainersAssumption DEF SPop, Memories
  <2>5. QED
    BY <2>2, <2>3, <2>4
<1>6. Makes(m, n, c, <<>> \o s, ToSet(<<>>) \cup ToSet(s) \cup {e})
  <2>1. /\ n.head[c] = First(s)
        /\ \A x \in Elements \ {e, Final(<<>>)} : n.next[x] = m.next[x]
        /\ \A d \in Containers \ {c} : n.head[d] = m.head[d] /\ n.tail[d] = m.tail[d]
        /\ c \in Queues => n.tail[c] = IF s = <<>> THEN Final(<<>>) ELSE Final(s)
    BY <1>1, <1>4, <1>5 DEF Memories
  <2>2. QED
    BY <1>1, <1>2, <1>5, <2>1, OneLess
<1>7. QED
  BY <1>1, <1>5, <1>6 DEF Memories
\* An element in its container: what the operations that erase it read.
LEMMA WhereItIs ==
    ASSUME NEW m \in Memories, NEW c \in OneWay, NEW e \in Elements,
           NEW a \in Seq(Elements), NEW b \in Seq(Elements), Represents(m, c, a \o <<e>> \o b)
    PROVE  /\ Ends(a) /\ Ends(b) /\ c \in Containers
           /\ Previous(m, c, e) = Final(a) /\ e \in ToSet(Chain(m, c))
           /\ m.next[e] = First(b) /\ (m.next[e] = Null <=> b = <<>>)
           /\ m.head[c] = IF a = <<>> THEN e ELSE First(a)
           /\ m.head[c] = e <=> a = <<>>
           /\ c \in Queues => /\ m.tail[c] = IF b = <<>> THEN e ELSE Final(b)
                              /\ m.tail[c] = e <=> b = <<>>
           /\ e # Final(a) /\ (Final(a) = Null <=> a = <<>>)
           /\ Final(a) \in Links /\ First(b) \in Links /\ Null \in Links
<1>0. Apart(a, <<e>>, b) /\ Fits(m, c, a, <<e>>, b)
  BY OneOrNone, Pieces
<1>1. /\ Ends(a) /\ Ends(b) /\ First(<<e>>) = e /\ Final(<<e>>) = e /\ <<e>> # <<>>
      /\ e \notin ToSet(a) /\ e \notin ToSet(b) /\ <<e>> \in Seq(Elements) /\ ToSet(<<e>>) = {e}
  BY <1>0, AreEnds, OneOrNone DEF Apart
<1>2. Previous(m, c, e) = Final(a) /\ e \in ToSet(Chain(m, c))
  <2>1. /\ a \o <<e>> \o b = a \o (<<e>> \o b) /\ <<e>> \o b \in Seq(Elements) /\ <<e>> \o b # <<>>
        /\ First(<<e>> \o b) = e
    <3>1. First(<<e>> \o b) = e
      BY <1>1, EndsOfJoined
    <3>2. /\ a \o <<e>> \o b = a \o (<<e>> \o b) /\ <<e>> \o b \in Seq(Elements)
          /\ <<e>> \o b # <<>>
      OBVIOUS
    <3>3. QED
      BY <3>1, <3>2
  <2>2. PICK r \in Seq(Elements) : r = <<e>> \o b
    BY <2>1
  <2>3. r # <<>> /\ First(r) = e /\ Represents(m, c, a \o r)
    BY <2>1, <2>2
  <2>4. Previous(m, c, First(r)) = Final(a) /\ Chain(m, c) = a \o r
    BY <2>3, PreviousIs, ChainIs, Ways
  <2>5. e \in ToSet(r) /\ ToSet(a \o r) = ToSet(a) \cup ToSet(r)
    BY <2>3, EndsOf, Joined
  <2>6. QED
    BY <2>3, <2>4, <2>5
<1>3. /\ m.next[e] = First(b)
      /\ m.head[c] = IF a = <<>> THEN e ELSE First(a)
      /\ c \in Queues => m.tail[c] = IF b = <<>> THEN e ELSE Final(b)
  BY <1>0, <1>1, Ways DEF Fits
<1>4. QED
  BY <1>1, <1>2, <1>3, Ways, ContainersAssumption DEF Ends, Links

\* erase(): the element goes, and has no link any more.
LEMMA EraseMakes ==
    ASSUME NEW m \in Memories, NEW c \in OneWay, NEW e \in Elements,
           NEW a \in Seq(Elements), NEW b \in Seq(Elements), Represents(m, c, a \o <<e>> \o b),
           NEW n, \/ c \in Queues /\ n = QErase(m, c, e)
                  \/ c \in Stacks /\ n = SErase(m, c, e)
    PROVE  Makes(m, n, c, a \o b, ToSet(a) \cup ToSet(b) \cup {e}) /\ n.next[e] = Null
<1>0. /\ Ends(a) /\ Ends(b) /\ c \in Containers
      /\ Previous(m, c, e) = Final(a) /\ e \in ToSet(Chain(m, c))
      /\ m.next[e] = First(b)
      /\ m.head[c] = IF a = <<>> THEN e ELSE First(a)
      /\ m.head[c] = e <=> a = <<>>
      /\ c \in Queues => /\ m.tail[c] = IF b = <<>> THEN e ELSE Final(b)
                         /\ m.tail[c] = e <=> b = <<>>
      /\ e # Final(a) /\ Final(a) \in Links /\ First(b) \in Links /\ Null \in Links
  BY WhereItIs
<1>1. CASE a = <<>>
  <2>1. \/ c \in Queues /\ n = QPop(m, c)
        \/ c \in Stacks /\ n = SPop(m, c)
    BY <1>0, <1>1 DEF QErase, SErase
  <2>2. a \o <<e>> \o b = <<e>> \o b /\ a \o b = b /\ ToSet(a) = {}
    BY <1>1, NoneAround
  <2>3. Makes(m, n, c, b, ToSet(b) \cup {e}) /\ n.next[e] = Null
    BY <2>1, <2>2, PopMakes, ZenonT(60)
  <2>4. ToSet(a) \cup ToSet(b) \cup {e} = ToSet(b) \cup {e}
    BY <2>2
  <2>5. QED
    BY <2>2, <2>3, <2>4
<1>2. CASE a # <<>>
  <2>1. /\ n \in Memories /\ n.prev = m.prev /\ n.head = m.head
        /\ n.next = [m.next EXCEPT ![Final(a)] = First(b), ![e] = Null]
        /\ n.tail = IF b = <<>> /\ c \in Queues THEN [m.tail EXCEPT ![c] = Final(a)] ELSE m.tail
    <3>1. CASE c \in Queues /\ n = QErase(m, c, e) /\ b = <<>>
      BY <1>0, <1>2, <3>1, ZenonT(60) DEF QErase, Memories
    <3>2. CASE c \in Queues /\ n = QErase(m, c, e) /\ b # <<>>
      BY <1>0, <1>2, <3>2 DEF QErase, Memories
    <3>3. CASE c \in Stacks /\ n = SErase(m, c, e)
      BY <1>0, <1>2, <3>3, ContainersAssumption DEF SErase, Memories
    <3>4. QED
      BY <3>1, <3>2, <3>3
  <2>2. /\ n.next[Final(a)] = First(b) /\ n.head[c] = First(a)
        /\ c \in Queues => n.tail[c] = IF b = <<>> THEN Final(a) ELSE Final(b)
        /\ \A x \in Elements \ {e, Final(a)} : n.next[x] = m.next[x]
        /\ \A d \in Containers \ {c} : n.head[d] = m.head[d] /\ n.tail[d] = m.tail[d]
        /\ n.next[e] = Null
    BY <1>0, <1>2, <2>1 DEF Memories, Ends
  <2>3. QED
    BY <1>2, <2>1, <2>2, OneLess
<1>3. QED
  BY <1>1, <1>2

\* The same, by the names of what happens and of what comes of it.
Erased(m, n, c, e) ==
    (c \in Queues /\ n = QErase(m, c, e)) \/ (c \in Stacks /\ n = SErase(m, c, e))
IsOut(m, n, c, a, e, b) ==
    Makes(m, n, c, a \o b, ToSet(a) \cup ToSet(b) \cup {e}) /\ n.next[e] = Null

LEMMA ErasedIsOut ==
    ASSUME NEW m \in Memories, NEW c \in OneWay, NEW e \in Elements,
           NEW a \in Seq(Elements), NEW b \in Seq(Elements), Represents(m, c, a \o <<e>> \o b),
           NEW n, Erased(m, n, c, e)
    PROVE  IsOut(m, n, c, a, e, b)
<1>1. \/ c \in Queues /\ n = QErase(m, c, e)
      \/ c \in Stacks /\ n = SErase(m, c, e)
  BY DEF Erased
<1>2. Makes(m, n, c, a \o b, ToSet(a) \cup ToSet(b) \cup {e}) /\ n.next[e] = Null
  BY <1>1, EraseMakes, ZenonT(60)
<1>3. QED
  BY <1>2 DEF IsOut

\* The erase() of the iterators.
LEMMA IteratorEraseMakes ==
    ASSUME NEW m \in Memories, NEW c \in OneWay, NEW e \in Elements,
           NEW a \in Seq(Elements), NEW b \in Seq(Elements), Represents(m, c, a \o <<e>> \o b),
           NEW n, \/ c \in Queues /\ n = QIteratorErase(m, c, e)
                  \/ c \in Stacks /\ n = SIteratorErase(m, c, e)
    PROVE  Makes(m, n, c, a \o b, ToSet(a) \cup ToSet(b) \cup {e})
<1>0. /\ Ends(a) /\ Ends(b) /\ c \in Containers
      /\ Previous(m, c, e) = Final(a) /\ (Final(a) = Null <=> a = <<>>)
      /\ m.next[e] = First(b) /\ (m.next[e] = Null <=> b = <<>>)
      /\ m.head[c] = IF a = <<>> THEN e ELSE First(a)
      /\ c \in Queues => m.tail[c] = IF b = <<>> THEN e ELSE Final(b)
      /\ e # Final(a) /\ Final(a) \in Links /\ First(b) \in Links /\ Null \in Links
  BY WhereItIs
<1>1. /\ n \in Memories /\ n.prev = m.prev
      /\ n.head = IF a = <<>> THEN [m.head EXCEPT ![c] = First(b)] ELSE m.head
      /\ n.next = IF a = <<>> THEN m.next ELSE [m.next EXCEPT ![Final(a)] = First(b)]
      /\ n.tail = IF b = <<>> /\ c \in Queues THEN [m.tail EXCEPT ![c] = Final(a)] ELSE m.tail
  <2>1. CASE c \in Queues /\ n = QIteratorErase(m, c, e) /\ a = <<>>
    BY <1>0, <2>1, ZenonT(60) DEF QIteratorErase, Memories
  <2>2. CASE c \in Queues /\ n = QIteratorErase(m, c, e) /\ a # <<>>
    BY <1>0, <2>2, ZenonT(60) DEF QIteratorErase, Memories
  <2>3. CASE c \in Stacks /\ n = SIteratorErase(m, c, e)
    BY <1>0, <2>3, ContainersAssumption DEF SIteratorErase, Memories
  <2>4. QED
    BY <2>1, <2>2, <2>3
<1>2. /\ a # <<>> => n.next[Final(a)] = First(b)
      /\ n.head[c] = IF a = <<>> THEN First(b) ELSE First(a)
      /\ c \in Queues => n.tail[c] = IF b = <<>> THEN Final(a) ELSE Final(b)
      /\ \A x \in Elements \ {e, Final(a)} : n.next[x] = m.next[x]
      /\ \A d \in Containers \ {c} : n.head[d] = m.head[d] /\ n.tail[d] = m.tail[d]
  BY <1>0, <1>1 DEF Memories, Ends
<1>3. QED
  BY <1>1, <1>2, OneLess

\* erase() of an element that is elsewhere.
LEMMA EraseElsewhere ==
    ASSUME NEW m, NEW c \in OneWay, NEW s, Represents(m, c, s), s # <<>>,
           NEW e \in Elements \ ToSet(s)
    PROVE  /\ c \in Queues => QErase(m, c, e) = m
           /\ c \in Stacks => SErase(m, c, e) = m
<1>1. s \in Seq(Elements) /\ m.head[c] = First(s) /\ Chain(m, c) = s
  BY ChainIs, Ways DEF Represents
<1>2. e # m.head[c]
  BY <1>1, AreEnds, ContainersAssumption DEF Ends
<1>3. QED
  BY <1>1, <1>2 DEF QErase, SErase
\* One container goes behind another one, which is emptied: splice() of Queue and of Stack.
LEMMA Spliced ==
    ASSUME NEW m \in Memories, NEW n \in Memories, NEW c \in OneWay, NEW d \in OneWay, c # d,
           NEW a, NEW b, ToSet(a) \cap ToSet(b) = {},
           \/ Represents(m, c, a) /\ Represents(m, d, b)
           \/ Represents(m, c, b) /\ Represents(m, d, a),
           \A x \in Elements \ {Final(a)} : n.next[x] = m.next[x], n.prev = m.prev,
           a # <<>> => n.next[Final(a)] = First(b),
           \A x \in Containers \ {c, d} : n.head[x] = m.head[x] /\ n.tail[x] = m.tail[x],
           n.head[c] = IF a = <<>> THEN First(b) ELSE First(a), n.head[d] = Null,
           c \in Queues => n.tail[c] = IF b = <<>> THEN Final(a) ELSE Final(b)
    PROVE  MakesTwo(m, n, c, a \o b, d, <<>>, ToSet(a) \cup ToSet(b))
<1>0. /\ a \in Seq(Elements) /\ b \in Seq(Elements)
      /\ IsInjective(a) /\ IsInjective(b) /\ Ends(a) /\ Ends(b)
      /\ b # <<>> => m.next[Final(b)] = Null
  BY AreEnds DEF Represents
<1>1. Together(m, c, a) /\ Together(m, c, b) /\ Together(m, c, <<>>)
  BY Ways, SMTT(60) DEF Represents, Together, Linked, Backed, Neighbours
<1>2. Apart(a, <<>>, b) /\ a \o <<>> \o b = a \o b /\ ToSet(<<>>) = {}
  <2>1. a \o <<>> \o b = a \o b /\ <<>> \in Seq(Elements)
    BY <1>0
  <2>2. ToSet(<<>>) = {} /\ IsInjective(<<>>)
    BY DEF ToSet, IsInjective
  <2>3. QED
    BY <1>0, <2>1, <2>2 DEF Apart
<1>3. Fits(n, c, a, <<>>, b)
  BY <1>0, Ways DEF Fits, Ends
<1>4. Keeps(m, n, c, a) /\ Keeps(m, n, c, b) /\ Keeps(m, n, c, <<>>)
  <2>1. \A x \in (ToSet(a) \ {Final(a)}) \cup ToSet(b) : x \in Elements \ {Final(a)}
    BY <1>0, ContainersAssumption DEF Ends
  <2>2. QED
    BY <1>2, <2>1, Ways DEF Keeps
<1>5. Represents(n, c, a \o b) /\ Represents(n, d, <<>>)
  BY <1>1, <1>2, <1>3, <1>4, Assembled, EmptyIs
<1>6. \A x \in Elements : x \notin ToSet(a) \cup ToSet(b) => x # Final(a)
  BY <1>0, ContainersAssumption DEF Ends
<1>7. QED
  BY <1>0, <1>5, <1>6 DEF MakesTwo, Differ
LEMMA EmptiedMakes ==
    ASSUME NEW m \in Memories, NEW c \in Containers, NEW n, n = Emptied(m, c)
    PROVE  Makes(m, n, c, <<>>, {})
<1>1. /\ n \in Memories /\ n.next = m.next /\ n.prev = m.prev /\ n.head[c] = Null
      /\ \A x \in Containers \ {c} : n.head[x] = m.head[x] /\ n.tail[x] = m.tail[x]
  BY DEF Emptied, Memories, Links
<1>2. QED
  BY <1>1, EmptyIs DEF Makes, Differ

LEMMA QSpliceMakes ==
    ASSUME NEW m \in Memories, NEW q \in Queues, NEW r \in Queues, q # r, NEW s, NEW t,
           Represents(m, q, s), Represents(m, r, t), ToSet(s) \cap ToSet(t) = {},
           NEW n, n = QSplice(m, q, r)
    PROVE  MakesTwo(m, n, q, s \o t, r, <<>>, ToSet(s) \cup ToSet(t))
<1>0. /\ Ends(s) /\ Ends(t) /\ s \in Seq(Elements) /\ t \in Seq(Elements)
      /\ m.head[q] = First(s) /\ m.head[r] = First(t) /\ q \in OneWay /\ r \in OneWay
      /\ q \in Containers /\ r \in Containers
      /\ s # <<>> => m.tail[q] = Final(s)
      /\ t # <<>> => m.tail[r] = Final(t)
  BY AreEnds, Kinds DEF Represents, OneWay
<1>1. CASE t = <<>>
  <2>1. n = Emptied(m, r) /\ m.head[r] = Null /\ s \o t = s
    BY <1>0, <1>1 DEF QSplice, IsEmpty, Ends
  <2>2. n \in Memories /\ Represents(n, r, <<>>) /\ Differ(m, n, {}, {r})
    BY <1>0, <2>1, EmptiedMakes DEF Makes
  <2>3. Differ(m, n, ToSet(s) \cup ToSet(t), {q, r})
    BY <2>2 DEF Differ
  <2>4. Represents(n, q, s)
    BY <1>0, <2>2, OthersStay
  <2>5. QED
    BY <2>1, <2>2, <2>3, <2>4 DEF MakesTwo
<1>2. CASE t # <<>>
  <2>1. m.head[q] # m.head[r] /\ ~ IsEmpty(m, r) /\ (IsEmpty(m, q) <=> s = <<>>)
    BY <1>0, <1>2 DEF IsEmpty, Ends
  <2>2. First(t) \in Elements /\ Final(t) \in Elements /\ (s # <<>> => Final(s) \in Elements)
    BY <1>0, <1>2 DEF Ends
  <2>3. /\ n \in Memories /\ n.prev = m.prev
        /\ n.next = IF s = <<>> THEN m.next ELSE [m.next EXCEPT ![Final(s)] = First(t)]
        /\ n.head = IF s = <<>> THEN [m.head EXCEPT ![q] = First(t), ![r] = Null]
                    ELSE [m.head EXCEPT ![r] = Null]
        /\ n.tail = [m.tail EXCEPT ![q] = Final(t), ![r] = Null]
    <3>1. CASE s = <<>>
      BY <1>0, <1>2, <2>1, <2>2, <3>1 DEF QSplice, Emptied, Memories, Links
    <3>2. CASE s # <<>>
      BY <1>0, <1>2, <2>1, <2>2, <3>2 DEF QSplice, Emptied, Memories, Links
    <3>3. QED
      BY <3>1, <3>2
  <2>4. /\ \A x \in Elements \ {Final(s)} : n.next[x] = m.next[x]
        /\ s # <<>> => n.next[Final(s)] = First(t)
        /\ \A x \in Containers \ {q, r} : n.head[x] = m.head[x] /\ n.tail[x] = m.tail[x]
        /\ n.head[q] = IF s = <<>> THEN First(t) ELSE First(s)
        /\ n.head[r] = Null /\ n.tail[q] = Final(t)
    BY <1>0, <2>2, <2>3 DEF Memories
  <2>5. QED
    BY <1>0, <1>2, <2>3, <2>4, Spliced
<1>3. QED
  BY <1>1, <1>2

\* A Stack takes the elements of another one, or of a Queue, on top of its own.
LEMMA OnTopMakes ==
    ASSUME NEW m \in Memories, NEW c \in Stacks, NEW d \in OneWay, c # d, NEW s, NEW t,
           Represents(m, c, s), Represents(m, d, t), ToSet(s) \cap ToSet(t) = {},
           NEW n, \/ d \in Stacks /\ n = SSplice(m, c, d)
                  \/ d \in Queues /\ n = SSpliceQueue(m, c, d)
    PROVE  MakesTwo(m, n, c, t \o s, d, <<>>, ToSet(s) \cup ToSet(t))
<1>0. /\ Ends(s) /\ Ends(t) /\ s \in Seq(Elements) /\ t \in Seq(Elements)
      /\ m.head[c] = First(s) /\ m.head[d] = First(t) /\ c \in OneWay /\ c \notin Queues
      /\ c \in Containers /\ d \in Containers
      /\ d \in Queues /\ t # <<>> => m.tail[d] = Final(t)
      /\ t # <<>> => m.next[Final(t)] = Null
  BY AreEnds, Kinds, Ways, ContainersAssumption DEF Represents, OneWay
<1>1. CASE t = <<>>
  <2>1. n = m /\ t \o s = s
    BY <1>0, <1>1 DEF SSplice, SSpliceQueue, IsEmpty, Ends
  <2>2. QED
    BY <1>1, <2>1 DEF MakesTwo, Differ
<1>2. CASE t # <<>>
  <2>1. ~ IsEmpty(m, d) /\ (IsEmpty(m, c) <=> s = <<>>)
    BY <1>0, <1>2 DEF IsEmpty, Ends
  <2>2. /\ First(t) \in Elements /\ Final(t) \in Elements /\ First(s) \in Links /\ Null \in Links
        /\ s = <<>> => First(s) = Null
    BY <1>0, <1>2 DEF Ends, Links
  <2>3. Last(Chain(m, d)) = Final(t)
    BY <1>0, <1>2, ChainIs DEF Last, Final
  <2>4. /\ n \in Memories /\ n.prev = m.prev
        /\ n.next = [m.next EXCEPT ![Final(t)] = First(s)]
        /\ n.head = [m.head EXCEPT ![c] = First(t), ![d] = Null]
        /\ n.tail = IF d \in Queues THEN [m.tail EXCEPT ![d] = Null] ELSE m.tail
    <3>1. CASE d \in Stacks /\ n = SSplice(m, c, d) /\ s = <<>>
      <4>1. m.next = [m.next EXCEPT ![Final(t)] = Null]
        BY <1>0, <1>2, <2>2 DEF Memories
      <4>2. d \notin Queues
        BY <3>1, ContainersAssumption
      <4>3. QED
        BY <1>0, <1>2, <2>1, <2>2, <2>3, <3>1, <4>1, <4>2 DEF SSplice, Memories, Links
    <3>2. CASE d \in Stacks /\ n = SSplice(m, c, d) /\ s # <<>>
      <4>1. d \notin Queues
        BY <3>2, ContainersAssumption
      <4>2. QED
        BY <1>0, <1>2, <2>1, <2>2, <2>3, <3>2, <4>1 DEF SSplice, Memories, Links
    <3>3. CASE d \in Queues /\ n = SSpliceQueue(m, c, d)
      BY <1>0, <1>2, <2>1, <2>2, <3>3 DEF SSpliceQueue, Emptied, Memories, Links
    <3>4. QED
      BY <3>1, <3>2, <3>3
  <2>5. /\ \A x \in Elements \ {Final(t)} : n.next[x] = m.next[x]
        /\ n.next[Final(t)] = First(s)
        /\ \A x \in Containers \ {c, d} : n.head[x] = m.head[x] /\ n.tail[x] = m.tail[x]
        /\ n.head[c] = First(t) /\ n.head[d] = Null
    BY <1>0, <2>2, <2>4 DEF Memories
  <2>6. MakesTwo(m, n, c, t \o s, d, <<>>, ToSet(t) \cup ToSet(s))
    BY <1>0, <1>2, <2>4, <2>5, Spliced
  <2>7. QED
    BY <2>6
<1>3. QED
  BY <1>1, <1>2
------------------------------------------------------------------------------
(* The containers of all kinds. *)

LEMMA MovedMakes ==
    ASSUME NEW m \in Memories, NEW c \in Containers, NEW d \in Containers, c # d,
           NEW t, Represents(m, d, t), {c, d} \subseteq Deques \/ {c, d} \subseteq Queues
                                                              \/ {c, d} \subseteq Stacks,
           NEW n, n = Moved(m, c, d)
    PROVE  MakesTwo(m, n, c, t, d, <<>>, ToSet(t))
<1>1. /\ n \in Memories /\ n.next = m.next /\ n.prev = m.prev
      /\ n.head[c] = m.head[d] /\ n.tail[c] = m.tail[d] /\ n.head[d] = Null
      /\ \A x \in Containers \ {c, d} : n.head[x] = m.head[x] /\ n.tail[x] = m.tail[x]
  BY DEF Moved, Emptied, Memories, Links
<1>2. (c \in Deques <=> d \in Deques) /\ (c \in Lists <=> d \in Lists)
  BY Kinds
<1>3. Represents(n, c, t)
  BY <1>1, <1>2 DEF Represents, Together
<1>4. QED
  BY <1>1, <1>3, EmptyIs DEF MakesTwo, Differ
------------------------------------------------------------------------------
(* erase_if(), one element after the other. *)

\* The place of an element of a sequence without repetition.
LEMMA PlaceOf ==
    ASSUME NEW s \in Seq(Elements), IsInjective(s), NEW i \in 1 .. Len(s)
    PROVE  Abstract!Place(s, s[i]) = i
<1>1. DOMAIN s = 1 .. Len(s)
  BY Indices
<1>2. \A j \in 1 .. Len(s) : s[j] = s[i] => j = i
  BY <1>1 DEF IsInjective
<1>3. QED
  BY <1>2 DEF Abstract!Place

\* What is at a place and behind it.
LEMMA RestOf ==
    ASSUME NEW s \in Seq(Elements), NEW i \in 1 .. Len(s)
    PROVE  /\ SubSeq(s, i, Len(s)) \in Seq(Elements) /\ SubSeq(s, i + 1, Len(s)) \in Seq(Elements)
           /\ SubSeq(s, i, Len(s)) = <<s[i]>> \o SubSeq(s, i + 1, Len(s))
<1>1. PICK n \in Nat : n = Len(s) /\ DOMAIN s = 1 .. n
  BY Indices
<1>2. SubSeq(s, i, n) \in Seq(Elements) /\ SubSeq(s, i + 1, n) \in Seq(Elements)
  BY <1>1
<1>3. /\ Len(SubSeq(s, i, n)) = n - i + 1 /\ Len(SubSeq(s, i + 1, n)) = n - i
      /\ \A j \in 1 .. n - i + 1 : SubSeq(s, i, n)[j] = s[i + j - 1]
      /\ \A j \in 1 .. n - i : SubSeq(s, i + 1, n)[j] = s[i + j]
  BY <1>1
<1>4. PICK b \in Seq(Elements) : b = SubSeq(s, i + 1, n)
  BY <1>2
<1>5. PICK u \in Seq(Elements) : u = <<s[i]>> \o b
  <2>1. <<s[i]>> \in Seq(Elements)
    BY Indices
  <2>2. <<s[i]>> \o b \in Seq(Elements)
    BY <2>1
  <2>3. QED
    BY <2>2
<1>6. /\ Len(u) = n - i + 1 /\ u[1] = s[i]
      /\ \A j \in 2 .. n - i + 1 : u[j] = b[j - 1]
  BY <1>1, <1>3, <1>4, <1>5
<1>7. \A j \in 1 .. n - i + 1 : u[j] = s[i + j - 1]
  <2>1. \A j \in 2 .. n - i + 1 : b[j - 1] = s[i + (j - 1)]
    BY <1>1, <1>3, <1>4
  <2>2. \A j \in 2 .. n - i + 1 : u[j] = s[i + j - 1]
    BY <1>1, <1>6, <2>1
  <2>3. QED
    BY <1>1, <1>6, <2>2
<1>8. PICK v \in Seq(Elements) : v = SubSeq(s, i, n)
  BY <1>2
<1>9. Len(v) = Len(u) /\ \A j \in 1 .. Len(v) : v[j] = u[j]
  BY <1>1, <1>3, <1>6, <1>7, <1>8
<1>10. v = u
  BY <1>9
<1>11. QED
  BY <1>1, <1>2, <1>4, <1>5, <1>8, <1>10
\* One of erase_if()'s steps.
LEMMA EraseFoundMakes ==
    ASSUME NEW m \in Memories, NEW c \in Containers, NEW e \in Elements,
           NEW a \in Seq(Elements), NEW b \in Seq(Elements), Represents(m, c, a \o <<e>> \o b),
           NEW n, n = EraseFound(m, c, e)
    PROVE  /\ Makes(m, n, c, a \o b, ToSet(a) \cup ToSet(b) \cup {e})
           /\ c \in Deques => n.next[e] = Null /\ n.prev[e] = Null
<1>1. CASE c \in Deques
  <2>1. n = DErase(m, c, e)
    BY <1>1, ContainersAssumption DEF EraseFound
  <2>2. QED
    BY <1>1, <2>1, DEraseMakes, SMTT(60)
<1>2. CASE c \in Queues
  <2>1. n = QIteratorErase(m, c, e) /\ c \notin Deques
    BY <1>2, ContainersAssumption DEF EraseFound
  <2>2. QED
    BY <1>2, <2>1, IteratorEraseMakes DEF OneWay
<1>3. CASE c \in Stacks
  <2>1. n = SIteratorErase(m, c, e) /\ c \notin Deques
    BY <1>3, ContainersAssumption DEF EraseFound
  <2>2. QED
    BY <1>3, <2>1, IteratorEraseMakes DEF OneWay
<1>4. QED
  BY <1>1, <1>2, <1>3 DEF Containers

\* A sequence of steps, each from what the one before made.
LEMMA EraseIfSteps ==
    ASSUME NEW c, NEW es, NEW s \in Seq(Elements), Chain(mem, c) = s
    PROVE  \E f : /\ f[0] = mem /\ EraseIf(c, es) = f[Len(s)]
                  /\ \A i \in 1 .. Len(s) :
                        f[i] = IF s[i] \in es THEN EraseFound(f[i - 1], c, s[i]) ELSE f[i - 1]
<1> DEFINE Walks(f, k) == f = [i \in 0 .. k |->
                                 IF i = 0 THEN mem
                                 ELSE IF s[i] \in es THEN EraseFound(f[i - 1], c, s[i])
                                 ELSE f[i - 1]]
           after == CHOOSE f : Walks(f, Len(s))
<1>1. PICK T \in SUBSET Nat : T = {k \in Nat : ~ \E f : Walks(f, k)}
  OBVIOUS
<1>2. T = {}
  <2> SUFFICES ASSUME T # {} PROVE FALSE
    OBVIOUS
  <2>1. PICK k \in T : \A j \in T : k <= j
    BY LeastOf
  <2>2. CASE k = 0
    <3>1. PICK f : f = [i \in 0 .. k |-> mem]
      OBVIOUS
    <3>2. Walks(f, k)
      BY <2>2, <3>1
    <3>3. QED
      BY <1>1, <3>2
  <2>3. CASE k # 0
    <3>1. k - 1 \in Nat /\ k - 1 \notin T
      BY <2>1, <2>3
    <3>2. PICK g : Walks(g, k - 1)
      BY <1>1, <3>1
    <3>3. PICK f : f = [i \in 0 .. k |-> IF i # k THEN g[i]
                                        ELSE IF s[k] \in es THEN EraseFound(g[k - 1], c, s[k])
                                        ELSE g[k - 1]]
      OBVIOUS
    <3>4. \A i \in 0 .. k : i # k => i \in 0 .. k - 1 /\ f[i] = g[i]
      BY <3>3
    <3>5. \A i \in 0 .. k - 1 : g[i] = IF i = 0 THEN mem
                                       ELSE IF s[i] \in es THEN EraseFound(g[i - 1], c, s[i])
                                       ELSE g[i - 1]
      BY <3>2
    <3>6. \A i \in 0 .. k : i # 0 => i - 1 \in 0 .. k /\ i - 1 # k
      OBVIOUS
    <3>7. \A i \in 0 .. k : f[i] = IF i = 0 THEN mem
                                   ELSE IF s[i] \in es THEN EraseFound(f[i - 1], c, s[i])
                                   ELSE f[i - 1]
      <4> SUFFICES ASSUME NEW i \in 0 .. k
                   PROVE  f[i] = IF i = 0 THEN mem
                                 ELSE IF s[i] \in es THEN EraseFound(f[i - 1], c, s[i])
                                 ELSE f[i - 1]
        OBVIOUS
      <4>1. i # 0 => f[i - 1] = g[i - 1]
        BY <3>4, <3>6
      <4>2. CASE i = k
        BY <2>3, <3>3, <4>1, <4>2
      <4>3. CASE i # k
        BY <3>4, <3>5, <4>1, <4>3
      <4>4. QED
        BY <4>2, <4>3
    <3>8. Walks(f, k)
      BY <3>3, <3>7
    <3>9. QED
      BY <1>1, <3>8
  <2>4. QED
    BY <2>2, <2>3
<1>3. Len(s) \in Nat
  OBVIOUS
<1>4. Walks(after, Len(s))
  BY <1>1, <1>2, <1>3
<1>5. EraseIf(c, es) = after[Len(s)]
  BY DEF EraseIf
<1>6. \A i \in 0 .. Len(s) :
        after[i] = IF i = 0 THEN mem
                   ELSE IF s[i] \in es THEN EraseFound(after[i - 1], c, s[i]) ELSE after[i - 1]
  BY <1>4
<1> HIDE DEF after
<1>7. \A i \in 1 .. Len(s) : i \in 0 .. Len(s) /\ i # 0
  BY <1>3
<1>8. after[0] = mem
  BY <1>3, <1>6
<1>9. QED
  BY <1>5, <1>6, <1>7, <1>8
LEMMA InARow ==
    ASSUME NEW s \in Seq(Elements), NEW t \in Seq(Elements), NEW u \in Seq(Elements)
    PROVE  s \o (t \o u) = s \o t \o u
OBVIOUS

LEMMA OneBehind ==
    ASSUME NEW t \in Seq(Elements), NEW e \in Elements, NEW u, u = t \o <<e>>
    PROVE  /\ u \in Seq(Elements) /\ ToSet(u) = ToSet(t) \cup {e}
           /\ DOMAIN u = 1 .. Len(t) + 1 /\ u[Len(t) + 1] = e
           /\ \A x \in 1 .. Len(t) : u[x] = t[x]
<1>1. <<e>> \in Seq(Elements) /\ Len(<<e>>) = 1 /\ <<e>>[1] = e
  OBVIOUS
<1>2. /\ u \in Seq(Elements) /\ Len(u) = Len(t) + Len(<<e>>)
      /\ \A x \in 1 .. Len(t) : u[x] = t[x]
      /\ \A x \in 1 .. Len(<<e>>) : u[Len(t) + x] = <<e>>[x]
      /\ ToSet(u) = ToSet(t) \cup ToSet(<<e>>)
  <2>1. PICK one \in Seq(Elements) : one = <<e>>
    BY <1>1
  <2>2. /\ t \o one \in Seq(Elements) /\ Len(t \o one) = Len(t) + Len(one)
        /\ \A x \in 1 .. Len(t) : (t \o one)[x] = t[x]
        /\ \A x \in 1 .. Len(one) : (t \o one)[Len(t) + x] = one[x]
        /\ ToSet(t \o one) = ToSet(t) \cup ToSet(one)
    BY Joined
  <2>3. QED
    BY <2>1, <2>2
<1>3. u[Len(t) + 1] = e
  BY <1>1, <1>2
<1>4. ToSet(<<e>>) = {e}
  BY OneOrNone
<1>5. DOMAIN u = 1 .. Len(t) + 1
  BY <1>1, <1>2, Indices
<1>6. QED
  BY <1>2, <1>3, <1>4, <1>5

\* After i steps memory n has, in front of what is left of s, the elements t that stay.
SoFar(n, c, es, s, i, t) ==
    /\ t \in Seq(Elements)
    /\ Makes(mem, n, c, t \o SubSeq(s, i + 1, Len(s)), ToSet(s))
    /\ ToSet(t) = {s[j] : j \in 1 .. i} \ es
    /\ \A x, y \in DOMAIN t : x < y => Abstract!Place(s, t[x]) < Abstract!Place(s, t[y])
    /\ c \in Deques => \A j \in 1 .. i : s[j] \in es => n.next[s[j]] = Null /\ n.prev[s[j]] = Null

LEMMA OneStepFarther ==
    ASSUME NEW m, NEW c \in Containers, NEW es, NEW s \in Seq(Elements), IsInjective(s),
           NEW i \in 1 .. Len(s), NEW t, SoFar(m, c, es, s, i - 1, t),
           NEW n, n = IF s[i] \in es THEN EraseFound(m, c, s[i]) ELSE m
    PROVE  \E u : SoFar(n, c, es, s, i, u)
<1>1. PICK k \in Nat : k = Len(s) /\ DOMAIN s = 1 .. k
  BY Indices
<1>2. PICK b \in Seq(Elements) : /\ b = SubSeq(s, i + 1, Len(s))
                                 /\ SubSeq(s, i, Len(s)) = <<s[i]>> \o b
  BY RestOf
<1>3. i - 1 + 1 = i /\ s[i] \in Elements /\ <<s[i]>> \in Seq(Elements) /\ i \in DOMAIN s
  <2>1. s[i] \in Elements /\ i - 1 + 1 = i /\ i \in DOMAIN s
    BY <1>1
  <2>2. QED
    BY <2>1
<1>4. /\ t \in Seq(Elements) /\ m \in Memories /\ Differ(mem, m, ToSet(s), {c})
      /\ Represents(m, c, t \o (<<s[i]>> \o b))
      /\ ToSet(t) = {s[j] : j \in 1 .. i - 1} \ es
      /\ \A x, y \in DOMAIN t : x < y => Abstract!Place(s, t[x]) < Abstract!Place(s, t[y])
      /\ c \in Deques =>
            \A j \in 1 .. i - 1 : s[j] \in es => m.next[s[j]] = Null /\ m.prev[s[j]] = Null
  BY <1>2, <1>3 DEF SoFar, Makes
<1>5. PICK e \in Elements : e = s[i] /\ <<e>> \in Seq(Elements)
  BY <1>3
<1>6. Represents(m, c, t \o <<e>> \o b)
  <2>1. t \o (<<e>> \o b) = t \o <<e>> \o b
    BY <1>4, <1>5, InARow
  <2>2. QED
    BY <1>4, <1>5, <2>1
<1>7. 1 .. i = (1 .. i - 1) \cup {i}
  BY <1>1
<1>8. CASE s[i] \in es
  <2>1. /\ Makes(m, n, c, t \o b, ToSet(t) \cup ToSet(b) \cup {s[i]})
        /\ c \in Deques => n.next[s[i]] = Null /\ n.prev[s[i]] = Null
    <3>1. n = EraseFound(m, c, e)
      BY <1>5, <1>8
    <3>2. /\ Makes(m, n, c, t \o b, ToSet(t) \cup ToSet(b) \cup {e})
          /\ c \in Deques => n.next[e] = Null /\ n.prev[e] = Null
      BY <1>4, <1>6, <3>1, EraseFoundMakes, ZenonT(60)
    <3>3. QED
      BY <1>5, <3>2
  <2>2. ToSet(t) \cup ToSet(b) \cup {s[i]} \subseteq ToSet(s)
    <3>1. ToSet(t) \subseteq ToSet(s)
      <4>1. \A j \in 1 .. i - 1 : j \in DOMAIN s
        BY <1>1
      <4>2. QED
        BY <1>4, <4>1 DEF ToSet
    <3>2. ToSet(b) \subseteq ToSet(s)
      <4>1. Len(b) = k - i /\ \A j \in 1 .. k - i : b[j] = s[i + j]
        BY <1>1, <1>2
      <4>2. \A j \in 1 .. k - i : i + j \in 1 .. k
        BY <1>1
      <4>3. DOMAIN b = 1 .. k - i
        BY <4>1
      <4>4. QED
        BY <1>1, <4>1, <4>2, <4>3 DEF ToSet
    <3>3. QED
      BY <1>3, <3>1, <3>2 DEF ToSet
  <2>3. Makes(mem, n, c, t \o b, ToSet(s))
    BY <1>4, <2>1, <2>2 DEF Makes, Differ
  <2>4. ToSet(t) = {s[j] : j \in 1 .. i} \ es
    BY <1>4, <1>7, <1>8
  <2>5. ASSUME c \in Deques, NEW j \in 1 .. i, s[j] \in es
        PROVE  n.next[s[j]] = Null /\ n.prev[s[j]] = Null
    <3>1. CASE j = i
      BY <2>1, <2>5, <3>1
    <3>2. CASE j # i
      <4>1. j \in 1 .. i - 1 /\ j \in DOMAIN s
        BY <1>1, <3>2
      <4>2. m.next[s[j]] = Null /\ m.prev[s[j]] = Null
        BY <1>4, <2>5, <4>1
      <4>3. s[j] \notin ToSet(t) \cup ToSet(b) \cup {s[i]}
        <5>1. s[j] \notin ToSet(t)
          BY <1>4, <2>5
        <5>2. s[j] # s[i]
          BY <1>3, <3>2, <4>1 DEF IsInjective
        <5>3. Len(b) = k - i /\ \A l \in 1 .. k - i : b[l] = s[i + l] /\ i + l \in DOMAIN s /\ i + l # j
          BY <1>1, <1>2, <4>1
        <5>4. DOMAIN b = 1 .. k - i
          BY <5>3
        <5>5. s[j] \notin ToSet(b)
          BY <4>1, <5>3, <5>4 DEF ToSet, IsInjective
        <5>6. QED
          BY <5>1, <5>2, <5>5
      <4>4. s[j] \in Elements
        BY <4>1
      <4>5. QED
        BY <2>1, <4>2, <4>3, <4>4 DEF Makes, Differ
    <3>3. QED
      BY <3>1, <3>2
  <2>6. SoFar(n, c, es, s, i, t)
    BY <1>2, <1>4, <2>3, <2>4, <2>5 DEF SoFar
  <2>7. QED
    BY <2>6
<1>9. CASE s[i] \notin es
  <2>1. n = m
    BY <1>9
  <2>2. PICK u \in Seq(Elements) : u = t \o <<e>>
    BY <1>4, <1>5, OneBehind
  <2>3. ToSet(u) = {s[j] : j \in 1 .. i} \ es
    <3>1. ToSet(u) = ToSet(t) \cup {s[i]}
      BY <1>4, <1>5, <2>2, OneBehind, ZenonT(60)
    <3>2. QED
      BY <1>4, <1>7, <1>9, <3>1
  <2>4. PICK l \in Nat : /\ l = Len(t) /\ DOMAIN t = 1 .. l /\ DOMAIN u = 1 .. l + 1
                         /\ u[l + 1] = s[i] /\ \A x \in 1 .. l : u[x] = t[x]
    <3>1. PICK l \in Nat : l = Len(t) /\ DOMAIN t = 1 .. l
      BY <1>4, Indices
    <3>2. /\ DOMAIN u = 1 .. Len(t) + 1 /\ u[Len(t) + 1] = e
          /\ \A x \in 1 .. Len(t) : u[x] = t[x]
      BY <1>4, <1>5, <2>2, OneBehind
    <3>3. QED
      BY <1>5, <3>1, <3>2
  <2>5. ASSUME NEW x \in DOMAIN u, NEW y \in DOMAIN u, x < y
        PROVE  Abstract!Place(s, u[x]) < Abstract!Place(s, u[y])
    <3>1. x \in DOMAIN t /\ u[x] = t[x]
      BY <2>4, <2>5
    <3>2. CASE y = l + 1
      <4>1. t[x] \in ToSet(t)
        BY <3>1 DEF ToSet
      <4>2. PICK j \in 1 .. i - 1 : t[x] = s[j]
        BY <1>4, <4>1
      <4>3. j \in 1 .. Len(s) /\ j < i /\ i \in 1 .. Len(s)
        BY <1>1
      <4>4. Abstract!Place(s, s[j]) = j /\ Abstract!Place(s, s[i]) = i
        BY <4>3, PlaceOf
      <4>5. QED
        BY <2>4, <3>1, <3>2, <4>2, <4>3, <4>4
    <3>3. CASE y # l + 1
      <4>1. y \in DOMAIN t /\ u[y] = t[y]
        BY <2>4, <3>3
      <4>2. QED
        BY <1>4, <2>5, <3>1, <4>1
    <3>4. QED
      BY <3>2, <3>3
  <2>6. Makes(mem, n, c, u \o b, ToSet(s))
    BY <1>4, <1>6, <2>1, <2>2 DEF Makes
  <2>7. \A j \in 1 .. i : s[j] \in es => j \in 1 .. i - 1
    BY <1>7, <1>9
  <2>8. SoFar(n, c, es, s, i, u)
    BY <1>2, <1>4, <2>1, <2>2, <2>3, <2>5, <2>6, <2>7 DEF SoFar
  <2>9. QED
    BY <2>8
<1>10. QED
  BY <1>8, <1>9

\* erase_if() leaves the other elements, in their order.
LEMMA EraseIfMakes ==
    ASSUME mem \in Memories, NEW c \in Containers, NEW s, Represents(mem, c, s),
           NEW es, NEW n, n = EraseIf(c, es)
    PROVE  \E t : /\ Makes(mem, n, c, t, ToSet(s)) /\ Abstract!IsWithout(s, es, t)
                  /\ c \in Deques =>
                        \A e \in ToSet(s) \cap es : n.next[e] = Null /\ n.prev[e] = Null
<1>1. s \in Seq(Elements) /\ IsInjective(s) /\ Chain(mem, c) = s
  BY ChainIs DEF Represents
<1>2. PICK k \in Nat : k = Len(s) /\ DOMAIN s = 1 .. k
  BY <1>1, Indices
<1>3. PICK f : /\ f[0] = mem /\ EraseIf(c, es) = f[k]
               /\ \A i \in 1 .. k :
                     f[i] = IF s[i] \in es THEN EraseFound(f[i - 1], c, s[i]) ELSE f[i - 1]
  BY <1>1, <1>2, EraseIfSteps
<1>4. PICK T \in SUBSET Nat : T = {i \in Nat : i <= k /\ ~ \E t : SoFar(f[i], c, es, s, i, t)}
  OBVIOUS
<1>5. T = {}
  <2> SUFFICES ASSUME T # {} PROVE FALSE
    OBVIOUS
  <2>1. PICK i \in T : \A j \in T : i <= j
    BY LeastOf
  <2>2. CASE i = 0
    <3>1. SubSeq(s, 0 + 1, Len(s)) = s /\ <<>> \o s = s /\ <<>> \in Seq(Elements) /\ DOMAIN <<>> = {}
      BY <1>1
    <3>2. ToSet(<<>>) = {} /\ {s[j] : j \in 1 .. 0} = {}
      BY DEF ToSet
    <3>3. Makes(mem, mem, c, <<>> \o SubSeq(s, 0 + 1, Len(s)), ToSet(s))
      BY <3>1 DEF Makes, Differ
    <3>4. \A j \in 1 .. 0 : FALSE
      OBVIOUS
    <3>5. SoFar(mem, c, es, s, 0, <<>>)
      BY <3>1, <3>2, <3>3, <3>4 DEF SoFar
    <3>6. QED
      BY <1>3, <1>4, <2>2, <3>5
  <2>3. CASE i # 0
    <3>1. i \in 1 .. k /\ i - 1 \in Nat /\ i - 1 <= k /\ i - 1 \notin T
      BY <1>4, <2>1, <2>3
    <3>2. PICK t : SoFar(f[i - 1], c, es, s, i - 1, t)
      BY <1>4, <3>1
    <3>3. \E u : SoFar(f[i], c, es, s, i, u)
      BY <1>1, <1>2, <1>3, <3>1, <3>2, OneStepFarther
    <3>4. QED
      BY <1>4, <3>3
  <2>4. QED
    BY <2>2, <2>3
<1>6. PICK t : SoFar(n, c, es, s, k, t)
  BY <1>2, <1>3, <1>4, <1>5
<1>7. t \in Seq(Elements) /\ t \o SubSeq(s, k + 1, Len(s)) = t
  <2>1. t \in Seq(Elements) /\ SubSeq(s, k + 1, Len(s)) = <<>>
    BY <1>1, <1>2, <1>6 DEF SoFar
  <2>2. t \o <<>> = t
    BY <2>1
  <2>3. QED
    BY <2>1, <2>2
<1>8. Makes(mem, n, c, t, ToSet(s)) /\ IsInjective(t)
  BY <1>6, <1>7 DEF SoFar, Makes, Represents
<1>9. {s[j] : j \in 1 .. k} = ToSet(s)
  BY <1>2 DEF ToSet
<1>10. Abstract!IsWithout(s, es, t)
  <2>1. ToSet(t) = ToSet(s) \ es
    BY <1>6, <1>9 DEF SoFar
  <2>2. \A x, y \in DOMAIN t : x < y => Abstract!Place(s, t[x]) < Abstract!Place(s, t[y])
    BY <1>6 DEF SoFar
  <2>3. QED
    BY <1>8, <2>1, <2>2 DEF Abstract!IsWithout, Abstract!ToSet, Abstract!IsInjective, ToSet, IsInjective
<1>11. c \in Deques => \A e \in ToSet(s) \cap es : n.next[e] = Null /\ n.prev[e] = Null
  BY <1>6, <1>9 DEF SoFar
<1>12. QED
  BY <1>8, <1>10, <1>11
------------------------------------------------------------------------------
(* The sequences of the abstract containers, in pieces. *)

LEMMA SplitAt ==
    ASSUME NEW s \in Seq(Elements), NEW i \in 1 .. Len(s)
    PROVE  /\ SubSeq(s, 1, i - 1) \in Seq(Elements) /\ SubSeq(s, i + 1, Len(s)) \in Seq(Elements)
           /\ s = SubSeq(s, 1, i - 1) \o (<<s[i]>> \o SubSeq(s, i + 1, Len(s)))
<1>1. PICK n \in Nat : n = Len(s) /\ DOMAIN s = 1 .. n
  BY Indices
<1>2. PICK a \in Seq(Elements) : a = SubSeq(s, 1, i - 1)
  <2>1. SubSeq(s, 1, i - 1) \in Seq(Elements)
    BY <1>1
  <2>2. QED
    BY <2>1
<1>3. PICK b \in Seq(Elements) : b = SubSeq(s, i, n)
  BY <1>1, RestOf
<1>4. /\ Len(a) = i - 1 /\ \A j \in 1 .. i - 1 : a[j] = s[j]
      /\ Len(b) = n - i + 1 /\ \A j \in 1 .. n - i + 1 : b[j] = s[i + j - 1]
  BY <1>1, <1>2, <1>3
<1>5. PICK u \in Seq(Elements) : u = a \o b
  BY Joined
<1>6. /\ Len(u) = Len(a) + Len(b)
      /\ \A j \in 1 .. Len(a) : u[j] = a[j]
      /\ \A j \in 1 .. Len(b) : u[Len(a) + j] = b[j]
  <2>1. /\ Len(a \o b) = Len(a) + Len(b)
        /\ \A j \in 1 .. Len(a) : (a \o b)[j] = a[j]
        /\ \A j \in 1 .. Len(b) : (a \o b)[Len(a) + j] = b[j]
    BY ConcatProperties
  <2>2. QED
    BY ONLY <1>5, <2>1, Zenon, ZenonT(60)
<1>7. Len(u) = n
  BY <1>1, <1>4, <1>6
<1>8. ASSUME NEW j \in 1 .. n PROVE u[j] = s[j]
  <2>1. CASE j <= i - 1
    BY <1>1, <1>4, <1>6, <2>1
  <2>2. CASE j > i - 1
    <3>1. PICK l \in 1 .. n - i + 1 : j = i - 1 + l
      <4>1. j - (i - 1) \in 1 .. n - i + 1 /\ j = i - 1 + (j - (i - 1))
        BY <1>1, <2>2
      <4>2. QED
        BY <4>1
    <3>2. u[i - 1 + l] = b[l] /\ b[l] = s[i + l - 1] /\ i + l - 1 = j
      BY <1>1, <1>4, <1>6, <3>1
    <3>3. QED
      BY <3>1, <3>2
  <2>3. QED
    BY <1>1, <2>1, <2>2
<1>9. u = s
  BY <1>1, <1>7, <1>8
<1>10. b = <<s[i]>> \o SubSeq(s, i + 1, n)
  BY <1>1, <1>3, RestOf
<1>11. SubSeq(s, i + 1, n) \in Seq(Elements)
  BY <1>1, RestOf
<1>12. QED
  BY <1>1, <1>2, <1>5, <1>9, <1>10, <1>11

\* An element of a sequence, what is in front of it and what is behind it.
LEMMA Around ==
    ASSUME NEW s \in Seq(Elements), IsInjective(s), NEW e \in ToSet(s)
    PROVE  \E a, b \in Seq(Elements) :
              /\ e \in Elements /\ <<e>> \o b \in Seq(Elements)
              /\ s = a \o <<e>> \o b /\ s = a \o (<<e>> \o b)
              /\ Abstract!Before(s, e) = a /\ Abstract!From(s, e) = <<e>> \o b
              /\ First(<<e>> \o b) = e /\ <<e>> \o b # <<>>
              /\ ToSet(s) = ToSet(a) \cup ToSet(b) \cup {e}
              /\ ToSet(s) = ToSet(a) \cup ToSet(<<e>> \o b)
<1>1. PICK i \in 1 .. Len(s) : e = s[i]
  BY Indices DEF ToSet
<1>2. e \in Elements /\ Abstract!Place(s, e) = i
  BY <1>1, PlaceOf, Indices
<1>3. PICK a \in Seq(Elements), b \in Seq(Elements) :
         /\ a = SubSeq(s, 1, i - 1) /\ b = SubSeq(s, i + 1, Len(s)) /\ s = a \o (<<e>> \o b)
  BY <1>1, SplitAt, ZenonT(60)
<1>4. PICK o \in Seq(Elements) : o = <<e>>
  BY <1>2, OneOrNone
<1>5. PICK r \in Seq(Elements) : r = o \o b
  BY Joined
<1>6. o # <<>> /\ First(o) = e /\ ToSet(o) = {e}
  BY <1>2, <1>4, OneOrNone
<1>7. r # <<>> /\ First(r) = e /\ ToSet(r) = {e} \cup ToSet(b)
  BY <1>5, <1>6, Joined, EndsOfJoined
<1>8. ToSet(a \o r) = ToSet(a) \cup ToSet(r) /\ a \o r = a \o o \o b
  <2>1. ToSet(a \o r) = ToSet(a) \cup ToSet(r)
    BY Joined
  <2>2. a \o (o \o b) = a \o o \o b
    BY InARow, SMTT(60)
  <2>3. QED
    BY <1>5, <2>1, <2>2
<1>9. Abstract!Before(s, e) = a /\ Abstract!From(s, e) = r
  <2>1. SubSeq(s, i, Len(s)) = <<s[i]>> \o SubSeq(s, i + 1, Len(s))
    BY RestOf
  <2>2. SubSeq(s, i, Len(s)) = r
    BY <1>1, <1>3, <1>4, <1>5, <2>1
  <2>3. QED
    BY <1>2, <1>3, <2>2 DEF Abstract!Before, Abstract!From
<1>10. QED
  BY <1>2, <1>3, <1>4, <1>5, <1>7, <1>8, <1>9, ZenonT(120)

\* The first element and the others, the last one and the others.
LEMMA Without1 ==
    ASSUME NEW e \in Elements, NEW t \in Seq(Elements)
    PROVE  Tail(<<e>> \o t) = t /\ Front(t \o <<e>>) = t /\ Append(t, e) = t \o <<e>>
<1>1. PICK o \in Seq(Elements) : o = <<e>> /\ Len(o) = 1 /\ o[1] = e
  <2>1. <<e>> \in Seq(Elements) /\ Len(<<e>>) = 1 /\ <<e>>[1] = e
    OBVIOUS
  <2>2. QED
    BY <2>1
<1>2. Append(t, e) = t \o <<e>>
  OBVIOUS
<1>3. Tail(<<e>> \o t) = t
  OBVIOUS
<1>4. Front(t \o <<e>>) = t
  <2>1. PICK u \in Seq(Elements) : u = t \o <<e>>
    BY <1>1, Joined
  <2>2. PICK n \in Nat : n = Len(t) /\ DOMAIN u = 1 .. n + 1
    BY <2>1, OneBehind, Indices
  <2>3. Len(u) = n + 1 /\ \A j \in 1 .. n : u[j] = t[j]
    BY <2>1, <2>2, OneBehind, Indices
  <2>4. PICK v \in Seq(Elements) : v = SubSeq(u, 1, n)
    <3>1. SubSeq(u, 1, n) \in Seq(Elements)
      BY <2>3
    <3>2. QED
      BY <3>1
  <2>5. Len(v) = n /\ \A j \in 1 .. n : v[j] = u[j]
    BY <2>2, <2>3, <2>4
  <2>6. v = t
    BY <2>2, <2>3, <2>5, SMTT(60)
  <2>7. QED
    BY <2>1, <2>3, <2>4, <2>6 DEF Front
<1>5. QED
  BY <1>2, <1>3, <1>4

LEMMA FirstAndRest ==
    ASSUME NEW s \in Seq(Elements), s # <<>>
    PROVE  \E e \in Elements, t \in Seq(Elements) :
              /\ s = <<e>> \o t /\ Tail(s) = t /\ ToSet(s) = ToSet(t) \cup {e}
<1>1. PICK e \in Elements, t \in Seq(Elements) : s = <<e>> \o t
  <2>1. 1 \in 1 .. Len(s) /\ s[1] \in Elements /\ Tail(s) \in Seq(Elements)
    OBVIOUS
  <2>2. s = <<s[1]>> \o Tail(s)
    OBVIOUS
  <2>3. QED
    BY <2>1, <2>2
<1>2. PICK o \in Seq(Elements) : o = <<e>> /\ ToSet(o) = {e}
  BY OneOrNone
<1>3. ToSet(o \o t) = ToSet(o) \cup ToSet(t)
  BY Joined
<1>4. Tail(s) = t
  BY <1>1, Without1
<1>5. QED
  BY <1>1, <1>2, <1>3, <1>4

LEMMA LastAndRest ==
    ASSUME NEW s \in Seq(Elements), s # <<>>
    PROVE  \E e \in Elements, t \in Seq(Elements) :
              /\ s = t \o <<e>> /\ Front(s) = t /\ ToSet(s) = ToSet(t) \cup {e}
<1>1. PICK n \in Nat : n = Len(s) /\ n # 0 /\ DOMAIN s = 1 .. n
  BY Indices
<1>2. PICK e \in Elements, t \in Seq(Elements), b \in Seq(Elements) :
         s = t \o (<<e>> \o b) /\ b = SubSeq(s, n + 1, n)
  <2>1. n \in 1 .. n /\ n = Len(s) /\ n \in 1 .. Len(s)
    BY <1>1
  <2>2. s[n] \in Elements
    BY <1>1, <2>1
  <2>3. /\ SubSeq(s, 1, n - 1) \in Seq(Elements) /\ SubSeq(s, n + 1, n) \in Seq(Elements)
        /\ s = SubSeq(s, 1, n - 1) \o (<<s[n]>> \o SubSeq(s, n + 1, n))
    BY ONLY s \in Seq(Elements), <2>1, SplitAt, Zenon
  <2>4. QED
    BY ONLY <2>2, <2>3, Zenon
<1>3. b = <<>>
  BY <1>1, <1>2
<1>4. s = t \o <<e>>
  BY <1>2, <1>3
<1>5. ToSet(s) = ToSet(t) \cup {e}
  BY <1>4, OneBehind
<1>6. QED
  BY <1>4, <1>5, Without1
------------------------------------------------------------------------------
(* All the containers together. *)

Held(m) == [c \in Containers |-> Chain(m, c)]

\* The inductive invariant, of a memory: each container is the sequence that an iteration
\* meets, and no element is in two of them.
Sound(m) ==
    /\ m \in Memories
    /\ \A c \in Containers : Represents(m, c, Chain(m, c))
    /\ \A c, d \in Containers : c # d => ToSet(Chain(m, c)) \cap ToSet(Chain(m, d)) = {}

\* Nothing of S is in the containers other than those of C.
Elsewhere(m, C, S) == \A d \in Containers \ C : S \cap ToSet(Chain(m, d)) = {}

LEMMA OneChanges ==
    ASSUME NEW m, Sound(m), NEW c \in Containers, NEW n, NEW t, NEW S, Makes(m, n, c, t, S),
           ToSet(t) \subseteq S, Elsewhere(m, {c}, S)
    PROVE  Sound(n) /\ Held(n) = [Held(m) EXCEPT ![c] = t] /\ Chain(n, c) = t
<1>0. \A d \in Containers \ {c} : S \cap ToSet(Chain(m, d)) = {}
  BY DEF Elsewhere
<1>1. Chain(n, c) = t /\ Represents(n, c, t)
  BY ChainIs DEF Makes
<1>2. ASSUME NEW d \in Containers \ {c}
      PROVE  Chain(n, d) = Chain(m, d) /\ Represents(n, d, Chain(m, d))
  <2>1. Represents(n, d, Chain(m, d))
    BY <1>0, OthersStay DEF Makes, Sound
  <2>2. QED
    BY <2>1, ChainIs
<1>3. QED
  <2>1. n \in Memories /\ \A x \in Containers : Represents(n, x, Chain(n, x))
    BY <1>1, <1>2 DEF Makes
  <2>2. ASSUME NEW x \in Containers, NEW y \in Containers, x # y
        PROVE  ToSet(Chain(n, x)) \cap ToSet(Chain(n, y)) = {}
    <3>1. CASE x = c
      BY <1>0, <1>1, <1>2, <2>2, <3>1
    <3>2. CASE y = c
      BY <1>0, <1>1, <1>2, <2>2, <3>2
    <3>3. CASE x # c /\ y # c
      BY <1>2, <2>2, <3>3 DEF Sound
    <3>4. QED
      BY <3>1, <3>2, <3>3
  <2>3. Held(n) = [Held(m) EXCEPT ![c] = t]
    BY <1>1, <1>2 DEF Held
  <2>4. QED
    BY <1>1, <2>1, <2>2, <2>3 DEF Sound

LEMMA TwoChange ==
    ASSUME NEW m, Sound(m), NEW c \in Containers, NEW d \in Containers, c # d, NEW n,
           NEW s, NEW t, NEW S, MakesTwo(m, n, c, s, d, t, S),
           ToSet(s) \subseteq S, ToSet(t) \subseteq S, ToSet(s) \cap ToSet(t) = {},
           Elsewhere(m, {c, d}, S)
    PROVE  Sound(n) /\ Held(n) = [Held(m) EXCEPT ![c] = s, ![d] = t]
<1>0. \A x \in Containers \ {c, d} : S \cap ToSet(Chain(m, x)) = {}
  BY DEF Elsewhere
<1>1. Chain(n, c) = s /\ Represents(n, c, s) /\ Chain(n, d) = t /\ Represents(n, d, t)
  BY ChainIs DEF MakesTwo
<1>2. ASSUME NEW x \in Containers \ {c, d}
      PROVE  Chain(n, x) = Chain(m, x) /\ Represents(n, x, Chain(m, x))
  <2>1. Represents(n, x, Chain(m, x))
    BY <1>0, OthersStay DEF MakesTwo, Sound
  <2>2. QED
    BY <2>1, ChainIs
<1>3. n \in Memories /\ \A x \in Containers : Represents(n, x, Chain(n, x))
  BY <1>1, <1>2 DEF MakesTwo
<1>4. ASSUME NEW x \in Containers, NEW y \in Containers, x # y
      PROVE  ToSet(Chain(n, x)) \cap ToSet(Chain(n, y)) = {}
  <2>1. CASE x \in {c, d} /\ y \in {c, d}
    BY <1>1, <1>4, <2>1
  <2>2. CASE x \in {c, d} /\ y \notin {c, d}
    BY <1>0, <1>1, <1>2, <2>2
  <2>3. CASE x \notin {c, d} /\ y \in {c, d}
    BY <1>0, <1>1, <1>2, <2>3
  <2>4. CASE x \notin {c, d} /\ y \notin {c, d}
    BY <1>2, <1>4, <2>4 DEF Sound
  <2>5. QED
    BY <2>1, <2>2, <2>3, <2>4
<1>5. Held(n) = [Held(m) EXCEPT ![c] = s, ![d] = t]
  BY <1>1, <1>2 DEF Held
<1>6. QED
  BY <1>3, <1>4, <1>5 DEF Sound

\* The abstract operation on one container, on two, and erase_if().
LEMMA SingleStep ==
    ASSUME NEW c \in Containers, op' # <<"none">>, op'[2] = c,
           op'[1] \notin Abstract!Transferring, op'[1] # "erase if",
           op'[1] \in Abstract!Adding => op'[3] \in Elements \ Inside,
           Held(mem') = [Held(mem) EXCEPT ![c] = Abstract!Single(op', Chain(mem, c))]
    PROVE  Abstract!Next
<1>1. op'[1] \in Abstract!Adding => op'[3] \in Abstract!Free
  <2>1. \A x \in Containers : [y \in Containers |-> Chain(mem, y)][x] = Chain(mem, x)
    OBVIOUS
  <2>2. Abstract!Free = Elements \ UNION {ToSet([y \in Containers |-> Chain(mem, y)][x]) : x \in Containers}
    BY DEF Abstract!Free, ToSet, Abstract!ToSet
  <2>3. Abstract!Free = Elements \ Inside
    <3>1. {ToSet([y \in Containers |-> Chain(mem, y)][x]) : x \in Containers}
            = {ToSet(Chain(mem, x)) : x \in Containers}
      BY <2>1
    <3>2. Inside = UNION {ToSet(Chain(mem, x)) : x \in Containers}
      BY DEF Inside, Members
    <3>3. QED
      BY <2>2, <3>1, <3>2
  <2>4. QED
    BY <2>3
<1>2. [x \in Containers |-> Chain(mem', x)] =
        [[x \in Containers |-> Chain(mem, x)] EXCEPT ![c] =
            Abstract!Single(op', [x \in Containers |-> Chain(mem, x)][c])]
  BY DEF Held
<1>3. QED
  BY <1>1, <1>2 DEF Abstract!Next, Abstract!Takes

\* Elements go from one container to another: then they have u and v.
Transferred(c, d, u, v) ==
    /\ op'[1] \in {"splice front", "splice back", "splice", "move", "split"}
    /\ op'[2] = c /\ op'[3] = d
    /\ Abstract!Double(op', Chain(mem, c), Chain(mem, d)) = <<u, v>>

LEMMA DoubleStep ==
    ASSUME NEW c \in Containers, NEW d \in Containers, c # d,
           NEW s, NEW t, Transferred(c, d, s, t),
           Held(mem') = [Held(mem) EXCEPT ![c] = s, ![d] = t]
    PROVE  Abstract!Next
<1>0. /\ op'[2] = c /\ op'[3] = d /\ op' # <<"none">> /\ op'[1] \in Abstract!Transferring
      /\ Abstract!Double(op', Chain(mem, c), Chain(mem, d)) = <<s, t>>
  <2>1. <<"none">>[1] = "none"
    OBVIOUS
  <2>2. QED
    BY <2>1 DEF Transferred, Abstract!Transferring
<1>1. [x \in Containers |-> Chain(mem', x)] =
        [[x \in Containers |-> Chain(mem, x)] EXCEPT ![c] = s, ![d] = t]
  BY DEF Held
<1>2. /\ Abstract!Double(op', [x \in Containers |-> Chain(mem, x)][c],
                         [x \in Containers |-> Chain(mem, x)][d]) = <<s, t>>
      /\ <<s, t>>[1] = s /\ <<s, t>>[2] = t
  BY <1>0
<1>3. Abstract!Become(c, d, <<s, t>>)
  BY <1>1, <1>2 DEF Abstract!Become
<1>4. PICK w : w = op'
  OBVIOUS
<1>5. /\ w[1] \in Abstract!Transferring
      /\ Abstract!Become(w[2], w[3], Abstract!Double(w, [x \in Containers |-> Chain(mem, x)][w[2]],
                                                    [x \in Containers |-> Chain(mem, x)][w[3]]))
  BY <1>0, <1>2, <1>3, <1>4
<1>6. Abstract!Takes(w)
  <2>1. w[1] # "erase if"
    BY <1>5 DEF Abstract!Transferring
  <2>2. QED
    BY <1>5, <2>1 DEF Abstract!Takes
<1>7. QED
  BY <1>0, <1>4, <1>6 DEF Abstract!Next

LEMMA EraseIfStep ==
    ASSUME NEW c \in Containers, op' # <<"none">>, op'[1] = "erase if", op'[2] = c,
           NEW t, Abstract!IsWithout(Chain(mem, c), op'[3], t),
           Held(mem') = [Held(mem) EXCEPT ![c] = t]
    PROVE  Abstract!Next
<1>1. [x \in Containers |-> Chain(mem', x)] =
        [[x \in Containers |-> Chain(mem, x)] EXCEPT ![c] = t]
  BY DEF Held
<1>2. [x \in Containers |-> Chain(mem', x)][c] = t
  BY <1>1
<1>3. QED
  BY <1>1, <1>2 DEF Abstract!Next, Abstract!Takes, Abstract!Transferring

\* What is to be shown of a step: the invariant, the abstract step, and that what is taken
\* out has no links.
Done == Sound(mem') /\ Abstract!Next /\ LeavesUnlinked

LEMMA WhatIsHeld ==
    ASSUME NEW m, Sound(m), NEW c \in Containers
    PROVE  /\ m \in Memories /\ Represents(m, c, Chain(m, c))
           /\ Chain(m, c) \in Seq(Elements) /\ IsInjective(Chain(m, c))
           /\ m.head[c] = First(Chain(m, c)) /\ ToSet(Chain(m, c)) \subseteq Elements
           /\ IsEmpty(m, c) <=> Chain(m, c) = <<>>
BY EndsOf DEF Sound, Represents, IsEmpty

\* An element comes into a container, which then has t.
Added(c, e, t) ==
    /\ op'[1] \in {"push front", "push back", "insert"} /\ op'[2] = c /\ op'[3] = e
    /\ t = Abstract!Single(op', Chain(mem, c))

LEMMA AddDone ==
    ASSUME Sound(mem), NEW c \in Containers, NEW e \in Elements \ Inside, NEW t,
           Makes(mem, mem', c, t, ToSet(Chain(mem, c)) \cup {e}),
           ToSet(t) \subseteq ToSet(Chain(mem, c)) \cup {e}
    PROVE  Added(c, e, t) => Done
<1>1. Elsewhere(mem, {c}, ToSet(Chain(mem, c)) \cup {e})
  <2>1. \A d \in Containers : e \notin ToSet(Chain(mem, d))
    BY DEF Inside, Members
  <2>2. \A d \in Containers \ {c} : ToSet(Chain(mem, c)) \cap ToSet(Chain(mem, d)) = {}
    BY DEF Sound
  <2>3. QED
    BY <2>1, <2>2 DEF Elsewhere
<1>2. Sound(mem') /\ Held(mem') = [Held(mem) EXCEPT ![c] = t]
  <2>1. PICK S : S = ToSet(Chain(mem, c)) \cup {e}
    OBVIOUS
  <2>2. PICK n : n = mem'
    OBVIOUS
  <2>3. Makes(mem, n, c, t, S) /\ ToSet(t) \subseteq S
    BY <2>1, <2>2
  <2>4. Sound(n) /\ Held(n) = [Held(mem) EXCEPT ![c] = t]
    BY <1>1, <2>1, <2>3, OneChanges
  <2>5. QED
    BY <2>2, <2>4
<1>3. ASSUME Added(c, e, t) PROVE Done
  <2>1. op' # <<"none">> /\ op'[1] # "erase if" /\ op'[1] \notin Abstract!Transferring
    <3>1. <<"none">>[1] = "none"
      OBVIOUS
    <3>2. QED
      BY <1>3, <3>1 DEF Abstract!Transferring, Added
  <2>2. Abstract!Next
    BY <1>2, <1>3, <2>1, SingleStep DEF Added
  <2>3. LeavesUnlinked
    BY <1>3 DEF LeavesUnlinked, Added
  <2>4. QED
    BY <1>2, <2>2, <2>3 DEF Done
<1>4. QED
  BY <1>3

\* Elements are taken out of a container: t is left, what goes has no links.
Taken(c, t) ==
    /\ op'[2] = c
    /\ \/ /\ op'[1] \in {"pop front", "pop back", "erase", "clear"}
          /\ t = Abstract!Single(op', Chain(mem, c))
       \/ op'[1] = "erase if" /\ Abstract!IsWithout(Chain(mem, c), op'[3], t)
    /\ op'[1] # "clear" => \A e \in ToSet(Chain(mem, c)) \ ToSet(t) :
          /\ mem'.next[e] = Null \/ (op'[1] = "erase if" /\ c \notin Deques)
          /\ c \in Deques => mem'.prev[e] = Null

LEMMA LessDone ==
    ASSUME Sound(mem), NEW c \in Containers, NEW t,
           Makes(mem, mem', c, t, ToSet(Chain(mem, c))), ToSet(t) \subseteq ToSet(Chain(mem, c))
    PROVE  Taken(c, t) => Done
<1>1. Elsewhere(mem, {c}, ToSet(Chain(mem, c)))
  BY DEF Sound, Elsewhere
<1>2. Sound(mem') /\ Held(mem') = [Held(mem) EXCEPT ![c] = t] /\ Chain(mem', c) = t
  <2>1. PICK S : S = ToSet(Chain(mem, c))
    OBVIOUS
  <2>2. PICK n : n = mem'
    OBVIOUS
  <2>3. Makes(mem, n, c, t, S) /\ ToSet(t) \subseteq S
    BY <2>1, <2>2
  <2>4. Sound(n) /\ Held(n) = [Held(mem) EXCEPT ![c] = t] /\ Chain(n, c) = t
    BY <1>1, <2>1, <2>3, OneChanges
  <2>5. QED
    BY <2>2, <2>4
<1>3. ASSUME Taken(c, t) PROVE Done
  <2>1. op' # <<"none">>
    <3>1. <<"none">>[1] = "none"
      OBVIOUS
    <3>2. QED
      BY <1>3, <3>1 DEF Taken
  <2>2. Abstract!Next
    <3>1. CASE op'[1] = "erase if"
      <4>1. Abstract!IsWithout(Chain(mem, c), op'[3], t) /\ op'[2] = c
        BY <1>3, <3>1 DEF Taken
      <4>2. QED
        BY <1>2, <2>1, <3>1, <4>1, EraseIfStep
    <3>2. CASE op'[1] # "erase if"
      <4>1. /\ op'[1] \notin Abstract!Transferring /\ op'[1] \notin Abstract!Adding
            /\ t = Abstract!Single(op', Chain(mem, c)) /\ op'[2] = c
        BY <1>3, <3>2 DEF Taken, Abstract!Transferring, Abstract!Adding
      <4>2. QED
        BY <1>2, <2>1, <3>2, <4>1, SingleStep
    <3>3. QED
      BY <3>1, <3>2
  <2>3. LeavesUnlinked
    BY <1>2, <1>3 DEF LeavesUnlinked, Members, Taken
  <2>4. QED
    BY <1>2, <2>2, <2>3 DEF Done
<1>4. QED
  BY <1>3

LEMMA TransferDone ==
    ASSUME Sound(mem), NEW c \in Containers, NEW d \in Containers, c # d, NEW u, NEW v,
           MakesTwo(mem, mem', c, u, d, v, ToSet(Chain(mem, c)) \cup ToSet(Chain(mem, d))),
           ToSet(u) \subseteq ToSet(Chain(mem, c)) \cup ToSet(Chain(mem, d)),
           ToSet(v) \subseteq ToSet(Chain(mem, c)) \cup ToSet(Chain(mem, d)),
           ToSet(u) \cap ToSet(v) = {}
    PROVE  Transferred(c, d, u, v) => Done
<1>1. Elsewhere(mem, {c, d}, ToSet(Chain(mem, c)) \cup ToSet(Chain(mem, d)))
  BY DEF Sound, Elsewhere
<1>2. Sound(mem') /\ Held(mem') = [Held(mem) EXCEPT ![c] = u, ![d] = v]
  <2>1. PICK S : S = ToSet(Chain(mem, c)) \cup ToSet(Chain(mem, d))
    OBVIOUS
  <2>2. PICK n : n = mem'
    OBVIOUS
  <2>3. MakesTwo(mem, n, c, u, d, v, S) /\ ToSet(u) \subseteq S /\ ToSet(v) \subseteq S
    BY <2>1, <2>2
  <2>4. Sound(n) /\ Held(n) = [Held(mem) EXCEPT ![c] = u, ![d] = v]
    BY <1>1, <2>1, <2>3, TwoChange
  <2>5. QED
    BY <2>2, <2>4
<1>3. ASSUME Transferred(c, d, u, v) PROVE Done
  <2>1. Abstract!Next
    BY <1>2, <1>3, DoubleStep
  <2>2. LeavesUnlinked
    BY <1>3 DEF LeavesUnlinked, Transferred
  <2>3. QED
    BY <1>2, <2>1, <2>2 DEF Done
<1>4. QED
  BY <1>3

\* Memories that differ in less.
LEMMA DifferLess ==
    ASSUME NEW m, NEW n, NEW c, NEW s, NEW S, NEW T, S \subseteq T, Makes(m, n, c, s, S)
    PROVE  Makes(m, n, c, s, T)
BY DEF Makes, Differ

LEMMA DifferLessOfTwo ==
    ASSUME NEW m, NEW n, NEW c, NEW s, NEW d, NEW t, NEW S, NEW T, S \subseteq T,
           MakesTwo(m, n, c, s, d, t, S)
    PROVE  MakesTwo(m, n, c, s, d, t, T)
BY DEF MakesTwo, Differ

\* The abstract operations, by their names.
LEMMA SingleIs ==
    ASSUME NEW w, NEW s
    PROVE  /\ w[1] = "push front" => Abstract!Single(w, s) = <<w[3]>> \o s
           /\ w[1] = "push back" => Abstract!Single(w, s) = Append(s, w[3])
           /\ w[1] = "insert" =>
                 Abstract!Single(w, s) = Abstract!Before(s, w[4]) \o <<w[3]>> \o Abstract!From(s, w[4])
           /\ w[1] = "pop front" => Abstract!Single(w, s) = Tail(s)
           /\ w[1] = "pop back" => Abstract!Single(w, s) = Front(s)
           /\ w[1] = "erase" => Abstract!Single(w, s) = Abstract!Without(s, w[3])
           /\ w[1] = "clear" => Abstract!Single(w, s) = <<>>
<1>1. Abstract!Front(s) = Front(s)
  BY DEF Front, Abstract!Front
<1>2. QED
  BY <1>1 DEF Abstract!Single

LEMMA DoubleIs ==
    ASSUME NEW w, NEW s, NEW t
    PROVE  /\ w[1] = "splice front" => Abstract!Double(w, s, t) = <<t \o s, <<>>>>
           /\ w[1] = "splice back" => Abstract!Double(w, s, t) = <<s \o t, <<>>>>
           /\ w[1] = "splice" =>
                 Abstract!Double(w, s, t) =
                   <<Abstract!Before(s, w[4]) \o t \o Abstract!From(s, w[4]), <<>>>>
           /\ w[1] = "move" => Abstract!Double(w, s, t) = <<t, <<>>>>
           /\ w[1] = "split" =>
                 Abstract!Double(w, s, t) =
                   <<Tail(Abstract!From(s, w[4])), Append(Abstract!Before(s, w[4]), w[4])>>
BY DEF Abstract!Double

\* What an operation adds, what it takes out, and what it moves, by the operation.
Adds(w, c, e, t) ==
    /\ w[1] \in {"push front", "push back", "insert"} /\ w[2] = c /\ w[3] = e
    /\ t = Abstract!Single(w, Chain(mem, c))
    /\ ToSet(t) \subseteq ToSet(Chain(mem, c)) \cup {e}

LEMMA AddsDone ==
    ASSUME Sound(mem), NEW c \in Containers, NEW e \in Elements \ Inside, NEW w, NEW n, NEW t,
           Adds(w, c, e, t), Makes(mem, n, c, t, ToSet(Chain(mem, c)) \cup {e})
    PROVE  Does(w, n) => Done
<1>1. ASSUME Does(w, n) PROVE Done
  <2>1. Added(c, e, t)
    BY <1>1 DEF Does, Adds, Added
  <2>2. Makes(mem, mem', c, t, ToSet(Chain(mem, c)) \cup {e})
    BY <1>1 DEF Does
  <2>3. ToSet(t) \subseteq ToSet(Chain(mem, c)) \cup {e}
    BY DEF Adds
  <2>4. QED
    BY <2>1, <2>2, <2>3, AddDone
<1>2. QED
  BY <1>1

LEMMA AddsFrontOrBack ==
    ASSUME Sound(mem), NEW c \in Containers, NEW e \in Elements
    PROVE  /\ Adds(<<"push front", c, e>>, c, e, <<e>> \o Chain(mem, c))
           /\ Adds(<<"push back", c, e>>, c, e, Chain(mem, c) \o <<e>>)
<1>1. PICK s \in Seq(Elements) : s = Chain(mem, c)
  BY WhatIsHeld
<1>2. PICK o \in Seq(Elements) : o = <<e>> /\ ToSet(o) = {e}
  BY OneOrNone
<1>3. ToSet(o \o s) = ToSet(o) \cup ToSet(s) /\ ToSet(s \o o) = ToSet(s) \cup ToSet(o)
  BY Joined
<1>4. Append(s, e) = s \o o
  BY <1>2, Without1
<1>5. PICK w : w = <<"push front", c, e>>
  OBVIOUS
<1>6. w[1] = "push front" /\ w[2] = c /\ w[3] = e
  BY <1>5
<1>7. Abstract!Single(w, s) = <<e>> \o s
  BY <1>6, SingleIs
<1>8. Adds(w, c, e, <<e>> \o s)
  BY <1>1, <1>2, <1>3, <1>6, <1>7 DEF Adds
<1>9. PICK x : x = <<"push back", c, e>>
  OBVIOUS
<1>10. x[1] = "push back" /\ x[2] = c /\ x[3] = e
  BY <1>9
<1>11. Abstract!Single(x, s) = s \o o
  BY <1>4, <1>10, SingleIs
<1>12. Adds(x, c, e, s \o o)
  BY <1>1, <1>2, <1>3, <1>10, <1>11 DEF Adds
<1>13. QED
  BY <1>1, <1>2, <1>5, <1>8, <1>9, <1>12

LEMMA Both ==
    ASSUME NEW s \in Seq(Elements), NEW t \in Seq(Elements)
    PROVE  s \o t \in Seq(Elements) /\ ToSet(s \o t) = ToSet(s) \cup ToSet(t)
BY Joined

LEMMA FromOn ==
    ASSUME NEW s \in Seq(Elements), IsInjective(s), NEW e \in ToSet(s)
    PROVE  \E a, b \in Seq(Elements) :
              /\ s = a \o b /\ Abstract!Before(s, e) = a /\ Abstract!From(s, e) = b
              /\ First(b) = e /\ b # <<>> /\ ToSet(s) = ToSet(a) \cup ToSet(b)
<1>1. PICK a \in Seq(Elements), r \in Seq(Elements) :
         /\ <<e>> \o r \in Seq(Elements) /\ s = a \o (<<e>> \o r)
         /\ Abstract!Before(s, e) = a /\ Abstract!From(s, e) = <<e>> \o r
         /\ First(<<e>> \o r) = e /\ <<e>> \o r # <<>>
         /\ ToSet(s) = ToSet(a) \cup ToSet(<<e>> \o r)
  <2>1. \E a, b \in Seq(Elements) :
           /\ e \in Elements /\ <<e>> \o b \in Seq(Elements)
           /\ s = a \o <<e>> \o b /\ s = a \o (<<e>> \o b)
           /\ Abstract!Before(s, e) = a /\ Abstract!From(s, e) = <<e>> \o b
           /\ First(<<e>> \o b) = e /\ <<e>> \o b # <<>>
           /\ ToSet(s) = ToSet(a) \cup ToSet(b) \cup {e}
           /\ ToSet(s) = ToSet(a) \cup ToSet(<<e>> \o b)
    BY Around
  <2>2. QED
    BY <2>1
<1>2. PICK b \in Seq(Elements) : b = <<e>> \o r
  BY <1>1
<1>3. QED
  BY <1>1, <1>2

LEMMA AddsBetween ==
    ASSUME Sound(mem), NEW c \in Containers, NEW e \in Elements, NEW pos \in ToSet(Chain(mem, c))
    PROVE  \E a, b \in Seq(Elements) :
              /\ Chain(mem, c) = a \o b /\ b # <<>> /\ First(b) = pos
              /\ Adds(<<"insert", c, e, pos>>, c, e, a \o <<e>> \o b)
<1>1. PICK s \in Seq(Elements) : s = Chain(mem, c) /\ IsInjective(s)
  BY WhatIsHeld
<1>2. PICK a \in Seq(Elements), b \in Seq(Elements) :
         /\ s = a \o b /\ Abstract!Before(s, pos) = a /\ Abstract!From(s, pos) = b
         /\ First(b) = pos /\ b # <<>> /\ ToSet(s) = ToSet(a) \cup ToSet(b)
  <2>1. pos \in ToSet(s)
    BY <1>1
  <2>2. PICK p : p = pos /\ p \in ToSet(s) /\ IsInjective(s)
    BY <1>1, <2>1
  <2>3. \E x, y \in Seq(Elements) :
              /\ s = x \o y /\ Abstract!Before(s, p) = x /\ Abstract!From(s, p) = y
              /\ First(y) = p /\ y # <<>> /\ ToSet(s) = ToSet(x) \cup ToSet(y)
    <3>1. /\ s \in Seq(Elements) /\ IsInjective(s) /\ p \in ToSet(s)
      BY <2>2
    <3>2. QED
      BY <3>1, FromOn
  <2>4. QED
    BY <2>2, <2>3
<1>4. PICK o \in Seq(Elements) : o = <<e>> /\ ToSet(o) = {e}
  BY OneOrNone
<1>5. PICK l \in Seq(Elements) : l = a \o o
  BY Both
<1>6. ToSet(l \o b) = ToSet(a) \cup {e} \cup ToSet(b)
  <2>1. ToSet(l) = ToSet(a) \cup ToSet(o)
    BY <1>5, Both
  <2>2. ToSet(l \o b) = ToSet(l) \cup ToSet(b)
    BY Both
  <2>3. QED
    BY <1>4, <2>1, <2>2
<1>7. PICK w : w = <<"insert", c, e, pos>>
  OBVIOUS
<1>8. w[1] = "insert" /\ w[2] = c /\ w[3] = e /\ w[4] = pos
  BY <1>7
<1>9. Abstract!Single(w, s) = a \o <<e>> \o b
  <2>1. Abstract!Single(w, s) = Abstract!Before(s, w[4]) \o <<w[3]>> \o Abstract!From(s, w[4])
    BY <1>8, SingleIs
  <2>2. QED
    BY <1>2, <1>8, <2>1
<1>10. ToSet(a \o <<e>> \o b) \subseteq ToSet(s) \cup {e}
  BY <1>2, <1>4, <1>5, <1>6
<1>11. Adds(w, c, e, a \o <<e>> \o b)
  BY <1>1, <1>8, <1>9, <1>10 DEF Adds
<1>12. QED
  BY <1>1, <1>2, <1>7, <1>11
\* What the containers do with one element more.
LEMMA DequeOneDone ==
    ASSUME Sound(mem), NEW d \in Deques, NEW e \in Elements, DequeOne(d, e)
    PROVE  Done
<1>1. /\ d \in Containers /\ e \in Elements \ Inside /\ e \notin ToSet(Chain(mem, d))
      /\ mem \in Memories /\ Represents(mem, d, Chain(mem, d))
  BY Kinds, WhatIsHeld DEF DequeOne, Inside, Members
<1>2. ASSUME Unlinked(e), Does(<<"push front", d, e>>, DPushFront(mem, d, e)) PROVE Done
  <2>1. PICK n : n = DPushFront(mem, d, e)
    OBVIOUS
  <2>2. Makes(mem, n, d, <<e>> \o Chain(mem, d), ToSet(Chain(mem, d)) \cup {e})
    BY <1>1, <1>2, <2>1, DPushFrontMakes DEF Unlinked
  <2>3. Does(<<"push front", d, e>>, n)
    BY <1>2, <2>1
  <2>4. QED
    BY <1>1, <2>2, <2>3, AddsFrontOrBack, AddsDone
<1>3. ASSUME Unlinked(e), Does(<<"push back", d, e>>, DPushBack(mem, d, e)) PROVE Done
  <2>1. PICK n : n = DPushBack(mem, d, e)
    OBVIOUS
  <2>2. Makes(mem, n, d, Chain(mem, d) \o <<e>>, ToSet(Chain(mem, d)) \cup {e})
    BY <1>1, <1>3, <2>1, DPushBackMakes DEF Unlinked
  <2>3. Does(<<"push back", d, e>>, n)
    BY <1>3, <2>1
  <2>4. QED
    BY <1>1, <2>2, <2>3, AddsFrontOrBack, AddsDone
<1>4. ASSUME NEW pos \in Members(d), Does(<<"insert", d, e, pos>>, DInsert(mem, d, pos, e))
      PROVE  Done
  <2>1. PICK n : n = DInsert(mem, d, pos, e)
    OBVIOUS
  <2>2. PICK a \in Seq(Elements), b \in Seq(Elements) :
           /\ Chain(mem, d) = a \o b /\ b # <<>> /\ First(b) = pos
           /\ Adds(<<"insert", d, e, pos>>, d, e, a \o <<e>> \o b)
    BY <1>1, AddsBetween DEF Members
  <2>3. ToSet(Chain(mem, d)) = ToSet(a) \cup ToSet(b)
    BY <2>2, Both
  <2>4. Makes(mem, n, d, a \o <<e>> \o b, ToSet(Chain(mem, d)) \cup {e})
    BY <1>1, <2>1, <2>2, <2>3, DInsertMakes
  <2>5. Does(<<"insert", d, e, pos>>, n)
    BY <1>4, <2>1
  <2>6. QED
    BY <1>1, <2>2, <2>4, <2>5, AddsDone
<1>5. QED
  BY <1>2, <1>3, <1>4 DEF DequeOne

LEMMA InsertDone ==
    ASSUME Sound(mem), NEW c \in OneWay, NEW e \in Elements \ Inside, NEW pos \in Members(c),
           Does(<<"insert", c, e, pos>>, IteratorInsert(mem, c, pos, e))
    PROVE  Done
<1>1. /\ c \in Containers /\ e \notin ToSet(Chain(mem, c))
      /\ mem \in Memories /\ Represents(mem, c, Chain(mem, c))
  BY Ways, WhatIsHeld DEF Inside, Members
<1>2. PICK n : n = IteratorInsert(mem, c, pos, e)
  OBVIOUS
<1>3. PICK a \in Seq(Elements), b \in Seq(Elements) :
         /\ Chain(mem, c) = a \o b /\ b # <<>> /\ First(b) = pos
         /\ Adds(<<"insert", c, e, pos>>, c, e, a \o <<e>> \o b)
  BY <1>1, AddsBetween DEF Members
<1>4. ToSet(Chain(mem, c)) = ToSet(a) \cup ToSet(b)
  BY <1>3, Both
<1>5. Makes(mem, n, c, a \o <<e>> \o b, ToSet(Chain(mem, c)) \cup {e})
  BY <1>1, <1>2, <1>3, <1>4, IteratorInsertMakes
<1>6. Does(<<"insert", c, e, pos>>, n)
  BY <1>2
<1>7. QED
  BY <1>1, <1>3, <1>5, <1>6, AddsDone

LEMMA QueueOneDone ==
    ASSUME Sound(mem), NEW q \in Queues, NEW e \in Elements, QueueOne(q, e)
    PROVE  Done
<1>1. /\ q \in Containers /\ e \in Elements \ Inside /\ e \notin ToSet(Chain(mem, q))
      /\ mem \in Memories /\ Represents(mem, q, Chain(mem, q)) /\ q \in OneWay
  BY Kinds, WhatIsHeld DEF QueueOne, Inside, Members, OneWay
<1>2. ASSUME Does(<<"push front", q, e>>, QPushFront(mem, q, e)) PROVE Done
  <2>1. PICK n : n = QPushFront(mem, q, e)
    OBVIOUS
  <2>2. Makes(mem, n, q, <<e>> \o Chain(mem, q), ToSet(Chain(mem, q)) \cup {e})
    BY <1>1, <2>1, QPushFrontMakes
  <2>3. Does(<<"push front", q, e>>, n)
    BY <1>2, <2>1
  <2>4. QED
    BY <1>1, <2>2, <2>3, AddsFrontOrBack, AddsDone
<1>3. ASSUME Does(<<"push back", q, e>>, QPushBack(mem, q, e)) PROVE Done
  <2>1. PICK n : n = QPushBack(mem, q, e)
    OBVIOUS
  <2>2. Makes(mem, n, q, Chain(mem, q) \o <<e>>, ToSet(Chain(mem, q)) \cup {e})
    BY <1>1, <2>1, QPushBackMakes
  <2>3. Does(<<"push back", q, e>>, n)
    BY <1>3, <2>1
  <2>4. QED
    BY <1>1, <2>2, <2>3, AddsFrontOrBack, AddsDone
<1>4. ASSUME NEW pos \in Members(q), Does(<<"insert", q, e, pos>>, IteratorInsert(mem, q, pos, e))
      PROVE  Done
  BY <1>1, <1>4, InsertDone
<1>5. QED
  BY <1>2, <1>3, <1>4 DEF QueueOne

LEMMA StackOneDone ==
    ASSUME Sound(mem), NEW s \in Stacks, NEW e \in Elements, StackOne(s, e)
    PROVE  Done
<1>1. /\ s \in Containers /\ e \in Elements \ Inside /\ e \notin ToSet(Chain(mem, s))
      /\ mem \in Memories /\ Represents(mem, s, Chain(mem, s)) /\ s \in OneWay
  BY Kinds, WhatIsHeld DEF StackOne, Inside, Members, OneWay
<1>2. ASSUME Does(<<"push front", s, e>>, SPush(mem, s, e)) PROVE Done
  <2>1. PICK n : n = SPush(mem, s, e)
    OBVIOUS
  <2>2. Makes(mem, n, s, <<e>> \o Chain(mem, s), ToSet(Chain(mem, s)) \cup {e})
    BY <1>1, <2>1, SPushMakes
  <2>3. Does(<<"push front", s, e>>, n)
    BY <1>2, <2>1
  <2>4. QED
    BY <1>1, <2>2, <2>3, AddsFrontOrBack, AddsDone
<1>3. ASSUME NEW pos \in Members(s), Does(<<"insert", s, e, pos>>, IteratorInsert(mem, s, pos, e))
      PROVE  Done
  BY <1>1, <1>3, InsertDone
<1>4. QED
  BY <1>2, <1>3 DEF StackOne
Lessens(w, n, c, t) ==
    /\ w[2] = c
    /\ \/ w[1] \in {"pop front", "pop back", "erase", "clear"} /\ t = Abstract!Single(w, Chain(mem, c))
       \/ w[1] = "erase if" /\ Abstract!IsWithout(Chain(mem, c), w[3], t)
    /\ w[1] # "clear" => \A e \in ToSet(Chain(mem, c)) \ ToSet(t) :
          /\ n.next[e] = Null \/ (w[1] = "erase if" /\ c \notin Deques)
          /\ c \in Deques => n.prev[e] = Null
    /\ ToSet(t) \subseteq ToSet(Chain(mem, c))

LEMMA LessensDone ==
    ASSUME Sound(mem), NEW c \in Containers, NEW w, NEW n, NEW t,
           Lessens(w, n, c, t), Makes(mem, n, c, t, ToSet(Chain(mem, c)))
    PROVE  Does(w, n) => Done
<1>1. ASSUME Does(w, n) PROVE Done
  <2>1. Taken(c, t)
    BY <1>1 DEF Does, Lessens, Taken
  <2>2. Makes(mem, mem', c, t, ToSet(Chain(mem, c)))
    BY <1>1 DEF Does
  <2>3. ToSet(t) \subseteq ToSet(Chain(mem, c))
    BY DEF Lessens
  <2>4. QED
    BY <2>1, <2>2, <2>3, LessDone
<1>2. QED
  BY <1>1

\* One element goes, which then has no links.
OneOut(w, c, e, t) ==
    /\ w[1] \in {"pop front", "pop back", "erase"} /\ w[2] = c
    /\ t = Abstract!Single(w, Chain(mem, c)) /\ ToSet(Chain(mem, c)) = ToSet(t) \cup {e}

LEMMA OneOutDone ==
    ASSUME Sound(mem), NEW c \in Containers, NEW e, NEW w, NEW n, NEW t, OneOut(w, c, e, t),
           Makes(mem, n, c, t, ToSet(t) \cup {e}), n.next[e] = Null,
           c \in Deques => n.prev[e] = Null
    PROVE  Does(w, n) => Done
<1>1. Lessens(w, n, c, t)
  BY DEF Lessens, OneOut
<1>2. Makes(mem, n, c, t, ToSet(Chain(mem, c)))
  BY DEF OneOut
<1>3. QED
  BY <1>1, <1>2, LessensDone

LEMMA OutOfFrontOrBack ==
    ASSUME Sound(mem), NEW c \in Containers, ~IsEmpty(mem, c)
    PROVE  /\ \E e \in Elements, t \in Seq(Elements) :
                 Chain(mem, c) = <<e>> \o t /\ OneOut(<<"pop front", c>>, c, e, t)
           /\ \E e \in Elements, t \in Seq(Elements) :
                 Chain(mem, c) = t \o <<e>> /\ OneOut(<<"pop back", c>>, c, e, t)
<1>1. PICK s \in Seq(Elements) : s = Chain(mem, c) /\ s # <<>>
  BY WhatIsHeld
<1>2. PICK w : w = <<"pop front", c>>
  OBVIOUS
<1>3. w[1] = "pop front" /\ w[2] = c
  BY <1>2
<1>4. PICK e \in Elements, t \in Seq(Elements) :
         s = <<e>> \o t /\ Tail(s) = t /\ ToSet(s) = ToSet(t) \cup {e}
  BY <1>1, FirstAndRest
<1>5. Abstract!Single(w, s) = t
  BY <1>3, <1>4, SingleIs
<1>6. OneOut(w, c, e, t)
  BY <1>1, <1>3, <1>4, <1>5 DEF OneOut
<1>7. PICK x : x = <<"pop back", c>>
  OBVIOUS
<1>8. x[1] = "pop back" /\ x[2] = c
  BY <1>7
<1>9. PICK f \in Elements, u \in Seq(Elements) :
         s = u \o <<f>> /\ Front(s) = u /\ ToSet(s) = ToSet(u) \cup {f}
  BY <1>1, LastAndRest
<1>10. Abstract!Single(x, s) = u
  BY <1>8, <1>9, SingleIs
<1>11. OneOut(x, c, f, u)
  BY <1>1, <1>8, <1>9, <1>10 DEF OneOut
<1>12. QED
  BY <1>1, <1>2, <1>4, <1>6, <1>7, <1>9, <1>11

LEMMA WithoutIs ==
    ASSUME NEW s \in Seq(Elements), IsInjective(s), NEW e \in ToSet(s)
    PROVE  \E a, b \in Seq(Elements) :
              /\ e \in Elements /\ s = a \o <<e>> \o b /\ Abstract!Without(s, e) = a \o b
              /\ ToSet(s) = ToSet(a) \cup ToSet(b) \cup {e}
<1>1. \E a, b \in Seq(Elements) :
         /\ e \in Elements /\ <<e>> \o b \in Seq(Elements)
         /\ s = a \o <<e>> \o b /\ s = a \o (<<e>> \o b)
         /\ Abstract!Before(s, e) = a /\ Abstract!From(s, e) = <<e>> \o b
         /\ First(<<e>> \o b) = e /\ <<e>> \o b # <<>>
         /\ ToSet(s) = ToSet(a) \cup ToSet(b) \cup {e}
         /\ ToSet(s) = ToSet(a) \cup ToSet(<<e>> \o b)
  BY Around
<1>2. PICK a \in Seq(Elements), b \in Seq(Elements) :
         /\ e \in Elements /\ s = a \o <<e>> \o b
         /\ Abstract!Before(s, e) = a /\ Abstract!From(s, e) = <<e>> \o b
         /\ ToSet(s) = ToSet(a) \cup ToSet(b) \cup {e}
  BY <1>1
<1>3. Tail(<<e>> \o b) = b
  BY <1>2, Without1
<1>4. e \in Abstract!ToSet(s)
  BY DEF ToSet, Abstract!ToSet
<1>5. Abstract!Without(s, e) = a \o b
  BY <1>2, <1>3, <1>4 DEF Abstract!Without
<1>6. QED
  BY <1>2, <1>5

LEMMA OutOfBetween ==
    ASSUME Sound(mem), NEW c \in Containers, NEW e \in ToSet(Chain(mem, c))
    PROVE  \E a, b \in Seq(Elements) :
              /\ e \in Elements /\ Chain(mem, c) = a \o <<e>> \o b
              /\ OneOut(<<"erase", c, e>>, c, e, a \o b)
              /\ ToSet(a \o b) = ToSet(a) \cup ToSet(b)
<1>1. PICK s \in Seq(Elements) : s = Chain(mem, c) /\ IsInjective(s) /\ e \in ToSet(s)
  BY WhatIsHeld
<1>2. PICK a \in Seq(Elements), b \in Seq(Elements) :
         /\ e \in Elements /\ s = a \o <<e>> \o b /\ Abstract!Without(s, e) = a \o b
         /\ ToSet(s) = ToSet(a) \cup ToSet(b) \cup {e}
  BY <1>1, WithoutIs
<1>3. ToSet(a \o b) = ToSet(a) \cup ToSet(b)
  BY Both
<1>4. PICK w : w = <<"erase", c, e>>
  OBVIOUS
<1>5. w[1] = "erase" /\ w[2] = c /\ w[3] = e
  BY <1>4
<1>6. Abstract!Single(w, s) = a \o b
  <2>1. Abstract!Single(w, s) = Abstract!Without(s, e)
    BY <1>5, SingleIs
  <2>2. QED
    BY <1>2, <2>1
<1>7. OneOut(w, c, e, a \o b)
  BY <1>1, <1>2, <1>3, <1>5, <1>6 DEF OneOut
<1>8. QED
  BY <1>1, <1>2, <1>3, <1>4, <1>7

LEMMA NothingDone ==
    ASSUME Sound(mem), NEW c \in Containers, NEW e, e \notin ToSet(Chain(mem, c))
    PROVE  Does(<<"erase", c, e>>, mem) => Done
<1>1. PICK s \in Seq(Elements) : s = Chain(mem, c)
  BY WhatIsHeld
<1>2. PICK w : w = <<"erase", c, e>>
  OBVIOUS
<1>3. w[1] = "erase" /\ w[2] = c /\ w[3] = e
  BY <1>2
<1>4. Abstract!Single(w, s) = s
  <2>1. e \notin Abstract!ToSet(s)
    BY <1>1 DEF ToSet, Abstract!ToSet
  <2>2. Abstract!Single(w, s) = Abstract!Without(s, e)
    BY <1>3, SingleIs
  <2>3. QED
    BY <2>1, <2>2 DEF Abstract!Without
<1>5. Lessens(w, mem, c, s)
  BY <1>1, <1>3, <1>4 DEF Lessens
<1>6. Makes(mem, mem, c, s, ToSet(s))
  BY <1>1, WhatIsHeld DEF Makes, Differ
<1>7. QED
  BY <1>1, <1>2, <1>5, <1>6, LessensDone

\* What the containers do with one element less.
LEMMA DequeLessDone ==
    ASSUME Sound(mem), NEW d \in Deques, DequeLess(d), astray' = "no"
    PROVE  Done
<1>1. d \in Containers /\ mem \in Memories /\ Represents(mem, d, Chain(mem, d))
  BY Kinds, WhatIsHeld
<1>2. ASSUME ~IsEmpty(mem, d), Does(<<"pop front", d>>, DPopFront(mem, d)) PROVE Done
  <2>1. PICK n : n = DPopFront(mem, d)
    OBVIOUS
  <2>2. PICK e \in Elements, t \in Seq(Elements) :
           Chain(mem, d) = <<e>> \o t /\ OneOut(<<"pop front", d>>, d, e, t)
    BY <1>1, <1>2, OutOfFrontOrBack
  <2>3. Makes(mem, n, d, t, ToSet(t) \cup {e}) /\ n.next[e] = Null /\ n.prev[e] = Null
    BY <1>1, <2>1, <2>2, DPopFrontMakes
  <2>4. Does(<<"pop front", d>>, n)
    BY <1>2, <2>1
  <2>5. QED
    BY <1>1, <2>2, <2>3, <2>4, OneOutDone
<1>3. ASSUME ~IsEmpty(mem, d), Does(<<"pop back", d>>, DPopBack(mem, d)) PROVE Done
  <2>1. PICK n : n = DPopBack(mem, d)
    OBVIOUS
  <2>2. PICK e \in Elements, t \in Seq(Elements) :
           Chain(mem, d) = t \o <<e>> /\ OneOut(<<"pop back", d>>, d, e, t)
    BY <1>1, <1>3, OutOfFrontOrBack
  <2>3. Makes(mem, n, d, t, ToSet(t) \cup {e}) /\ n.next[e] = Null /\ n.prev[e] = Null
    BY <1>1, <2>1, <2>2, DPopBackMakes
  <2>4. Does(<<"pop back", d>>, n)
    BY <1>3, <2>1
  <2>5. QED
    BY <1>1, <2>2, <2>3, <2>4, OneOutDone
<1>4. ASSUME NEW e \in Elements, e \in Members(d), Does(<<"erase", d, e>>, DErase(mem, d, e))
      PROVE  Done
  <2>1. PICK n : n = DErase(mem, d, e)
    OBVIOUS
  <2>2. PICK a \in Seq(Elements), b \in Seq(Elements) :
           /\ Chain(mem, d) = a \o <<e>> \o b /\ OneOut(<<"erase", d, e>>, d, e, a \o b)
           /\ ToSet(a \o b) = ToSet(a) \cup ToSet(b)
    BY <1>1, <1>4, OutOfBetween, ZenonT(120) DEF Members
  <2>3. Makes(mem, n, d, a \o b, ToSet(a \o b) \cup {e}) /\ n.next[e] = Null /\ n.prev[e] = Null
    <3>1. Represents(mem, d, a \o <<e>> \o b)
      BY <1>1, <2>2
    <3>2. /\ Makes(mem, n, d, a \o b, ToSet(a) \cup ToSet(b) \cup {e})
          /\ n.next[e] = Null /\ n.prev[e] = Null
      <4>1. n = EraseFound(mem, d, e)
        BY <2>1, ContainersAssumption DEF EraseFound
      <4>2. QED
        BY <1>1, <1>4, <3>1, <4>1, EraseFoundMakes
    <3>3. QED
      BY <2>2, <3>2
  <2>4. Does(<<"erase", d, e>>, n)
    BY <1>4, <2>1
  <2>5. QED
    BY <1>1, <2>2, <2>3, <2>4, OneOutDone
<1>5. ASSUME NEW e \in Elements, e \notin Members(d), Unlinked(e),
             Does(<<"erase", d, e>>, DErase(mem, d, e))
      PROVE  Done
  <2>1. DErase(mem, d, e) = mem
    BY <1>1, <1>5, DEraseElsewhere DEF Members, Unlinked
  <2>2. Does(<<"erase", d, e>>, mem)
    BY <1>5, <2>1
  <2>3. QED
    BY <1>1, <1>5, <2>2, NothingDone DEF Members
<1>6. ASSUME PopBack(d) PROVE ~IsEmpty(mem, d) /\ Does(<<"pop back", d>>, DPopBack(mem, d))
  BY <1>6 DEF PopBack, Does
<1>7. ~EraseIfEmptied(d)
  BY DEF EraseIfEmptied
<1>8. QED
  BY <1>2, <1>3, <1>4, <1>5, <1>6, <1>7 DEF DequeLess

LEMMA OneWayLessDone ==
    ASSUME Sound(mem), NEW c \in OneWay, (QueueLess(c) /\ c \in Queues) \/ (StackLess(c) /\ c \in Stacks)
    PROVE  Done
<1>1. c \in Containers /\ mem \in Memories /\ Represents(mem, c, Chain(mem, c)) /\ c \notin Deques
  BY Ways, WhatIsHeld
<1>2. ASSUME NEW n, Does(<<"pop front", c>>, n), ~IsEmpty(mem, c),
             (c \in Queues /\ n = QPop(mem, c)) \/ (c \in Stacks /\ n = SPop(mem, c))
      PROVE  Done
  <2>1. PICK e \in Elements, t \in Seq(Elements) :
           Chain(mem, c) = <<e>> \o t /\ OneOut(<<"pop front", c>>, c, e, t)
    BY <1>1, <1>2, OutOfFrontOrBack
  <2>2. Makes(mem, n, c, t, ToSet(t) \cup {e}) /\ n.next[e] = Null
    BY <1>1, <1>2, <2>1, PopMakes
  <2>3. QED
    BY <1>1, <1>2, <2>1, <2>2, OneOutDone
<1>3. ASSUME NEW n, NEW e \in Elements, Does(<<"erase", c, e>>, n), ~IsEmpty(mem, c),
             (c \in Queues /\ n = QErase(mem, c, e)) \/ (c \in Stacks /\ n = SErase(mem, c, e))
      PROVE  Done
  <2>1. CASE e \in ToSet(Chain(mem, c))
    <3>1. PICK a \in Seq(Elements), b \in Seq(Elements) :
             /\ Chain(mem, c) = a \o <<e>> \o b /\ OneOut(<<"erase", c, e>>, c, e, a \o b)
             /\ ToSet(a \o b) = ToSet(a) \cup ToSet(b)
      BY <1>1, <2>1, OutOfBetween, ZenonT(120)
    <3>2. Makes(mem, n, c, a \o b, ToSet(a \o b) \cup {e}) /\ n.next[e] = Null
      <4>1. Represents(mem, c, a \o <<e>> \o b)
        BY <1>1, <3>1
      <4>2. Erased(mem, n, c, e) /\ e \in Elements
        BY <1>3 DEF Erased
      <4>3. IsOut(mem, n, c, a, e, b)
        BY <1>1, <4>1, <4>2, ErasedIsOut
      <4>4. QED
        BY <3>1, <4>3 DEF IsOut
    <3>3. QED
      BY <1>1, <1>3, <3>1, <3>2, OneOutDone
  <2>2. CASE e \notin ToSet(Chain(mem, c))
    <3>1. Chain(mem, c) # <<>>
      BY <1>1, <1>3, WhatIsHeld
    <3>2. n = mem
      <4>1. PICK s : s = Chain(mem, c) /\ Represents(mem, c, s) /\ s # <<>>
        BY <1>1, <3>1
      <4>2. e \in Elements \ ToSet(s)
        BY <1>3, <2>2, <4>1
      <4>3. /\ c \in Queues => QErase(mem, c, e) = mem
            /\ c \in Stacks => SErase(mem, c, e) = mem
        BY <4>1, <4>2, EraseElsewhere
      <4>4. QED
        BY <1>3, <4>3
    <3>3. QED
      BY <1>1, <1>3, <2>2, <3>2, NothingDone
  <2>3. QED
    BY <2>1, <2>2
<1>4. QED
  BY <1>2, <1>3 DEF QueueLess, StackLess

LEMMA AnyLessDone ==
    ASSUME Sound(mem), NEW c \in Containers, AnyLess(c)
    PROVE  Done
<1>1. /\ mem \in Memories /\ Represents(mem, c, Chain(mem, c))
      /\ ToSet(Chain(mem, c)) \subseteq Elements
  BY WhatIsHeld
<1>2. ASSUME NEW es \in SUBSET Members(c), Does(<<"erase if", c, es>>, EraseIf(c, es)) PROVE Done
  <2>1. PICK n : n = EraseIf(c, es)
    OBVIOUS
  <2>2. PICK t : /\ Makes(mem, n, c, t, ToSet(Chain(mem, c)))
                 /\ Abstract!IsWithout(Chain(mem, c), es, t)
                 /\ c \in Deques => \A e \in ToSet(Chain(mem, c)) \cap es :
                                       n.next[e] = Null /\ n.prev[e] = Null
    BY <1>1, <2>1, EraseIfMakes
  <2>3. ToSet(t) = ToSet(Chain(mem, c)) \ es
    BY <2>2 DEF Abstract!IsWithout, Abstract!ToSet, ToSet
  <2>4. PICK w : w = <<"erase if", c, es>>
    OBVIOUS
  <2>5. w[1] = "erase if" /\ w[2] = c /\ w[3] = es
    BY <2>4
  <2>6. Lessens(w, n, c, t)
    BY <2>2, <2>3, <2>5 DEF Lessens
  <2>7. Does(w, n)
    BY <1>2, <2>1, <2>4
  <2>8. QED
    BY <2>2, <2>6, <2>7, LessensDone
<1>3. ASSUME Does(<<"clear", c>>, Emptied(mem, c)) PROVE Done
  <2>1. PICK n : n = Emptied(mem, c)
    OBVIOUS
  <2>2. PICK t \in Seq(Elements) : t = <<>> /\ ToSet(t) = {}
    <3>1. PICK t \in Seq(Elements) : t = <<>>
      <4>1. <<>> \in Seq(Elements)
        OBVIOUS
      <4>2. QED
        BY <4>1
    <3>2. DOMAIN t = 1 .. 0
      BY <3>1, Indices
    <3>3. ToSet(t) = {}
      BY <3>2 DEF ToSet
    <3>4. QED
      BY <3>1, <3>3
  <2>3. Makes(mem, n, c, t, {})
    BY <1>1, <2>1, <2>2, EmptiedMakes
  <2>4. Makes(mem, n, c, t, ToSet(Chain(mem, c)))
    BY <2>3, DifferLess
  <2>5. PICK w : w = <<"clear", c>>
    OBVIOUS
  <2>6. w[1] = "clear" /\ w[2] = c
    BY <2>5
  <2>7. Abstract!Single(w, Chain(mem, c)) = t
    BY <2>2, <2>6, SingleIs
  <2>8. Lessens(w, n, c, t)
    BY <2>2, <2>6, <2>7 DEF Lessens
  <2>9. Does(w, n)
    BY <1>3, <2>1, <2>5
  <2>10. QED
    BY <2>4, <2>8, <2>9, LessensDone
<1>4. QED
  BY <1>2, <1>3 DEF AnyLess
\* Elements go from d to c, which then have v and u.
Transfers(w, c, d, u, v) ==
    /\ w[1] \in {"splice front", "splice back", "splice", "move", "split"}
    /\ w[2] = c /\ w[3] = d
    /\ Abstract!Double(w, Chain(mem, c), Chain(mem, d)) = <<u, v>>
    /\ ToSet(u) \subseteq ToSet(Chain(mem, c)) \cup ToSet(Chain(mem, d))
    /\ ToSet(v) \subseteq ToSet(Chain(mem, c)) \cup ToSet(Chain(mem, d))
    /\ ToSet(u) \cap ToSet(v) = {}

LEMMA TransfersDone ==
    ASSUME Sound(mem), NEW c \in Containers, NEW d \in Containers, c # d,
           NEW w, NEW n, NEW u, NEW v, Transfers(w, c, d, u, v),
           MakesTwo(mem, n, c, u, d, v, ToSet(Chain(mem, c)) \cup ToSet(Chain(mem, d)))
    PROVE  Does(w, n) => Done
<1>1. ASSUME Does(w, n) PROVE Done
  <2>1. Transferred(c, d, u, v)
    BY <1>1 DEF Does, Transfers, Transferred
  <2>2. MakesTwo(mem, mem', c, u, d, v, ToSet(Chain(mem, c)) \cup ToSet(Chain(mem, d)))
    BY <1>1 DEF Does
  <2>3. /\ ToSet(u) \subseteq ToSet(Chain(mem, c)) \cup ToSet(Chain(mem, d))
        /\ ToSet(v) \subseteq ToSet(Chain(mem, c)) \cup ToSet(Chain(mem, d))
        /\ ToSet(u) \cap ToSet(v) = {}
    BY DEF Transfers
  <2>4. QED
    BY <2>1, <2>2, <2>3, TransferDone
<1>2. QED
  BY <1>1

LEMMA NoneIs == <<>> \in Seq(Elements) /\ ToSet(<<>>) = {}
<1>1. PICK t \in Seq(Elements) : t = <<>>
  <2>1. <<>> \in Seq(Elements)
    OBVIOUS
  <2>2. QED
    BY <2>1
<1>2. DOMAIN t = 1 .. 0
  BY <1>1, Indices
<1>3. ToSet(t) = {}
  BY <1>2 DEF ToSet
<1>4. QED
  BY <1>1, <1>3

LEMMA AllOver ==
    ASSUME Sound(mem), NEW c \in Containers, NEW d \in Containers
    PROVE  /\ Transfers(<<"splice front", c, d>>, c, d, Chain(mem, d) \o Chain(mem, c), <<>>)
           /\ Transfers(<<"splice back", c, d>>, c, d, Chain(mem, c) \o Chain(mem, d), <<>>)
           /\ Transfers(<<"move", c, d>>, c, d, Chain(mem, d), <<>>)
<1>1. PICK s \in Seq(Elements), t \in Seq(Elements) : s = Chain(mem, c) /\ t = Chain(mem, d)
  BY WhatIsHeld
<1>2. ToSet(s \o t) = ToSet(s) \cup ToSet(t) /\ ToSet(t \o s) = ToSet(t) \cup ToSet(s)
  BY Both
<1>3. PICK w : w = <<"splice front", c, d>>
  OBVIOUS
<1>4. w[1] = "splice front" /\ w[2] = c /\ w[3] = d
  BY <1>3
<1>5. Abstract!Double(w, s, t) = <<t \o s, <<>>>>
  BY <1>4 DEF Abstract!Double
<1>6. Transfers(w, c, d, t \o s, <<>>)
  BY <1>1, <1>2, <1>4, <1>5, NoneIs DEF Transfers
<1>7. PICK x : x = <<"splice back", c, d>>
  OBVIOUS
<1>8. x[1] = "splice back" /\ x[2] = c /\ x[3] = d
  BY <1>7
<1>9. Abstract!Double(x, s, t) = <<s \o t, <<>>>>
  BY <1>8 DEF Abstract!Double
<1>10. Transfers(x, c, d, s \o t, <<>>)
  BY <1>1, <1>2, <1>8, <1>9, NoneIs DEF Transfers
<1>11. PICK y : y = <<"move", c, d>>
  OBVIOUS
<1>12. y[1] = "move" /\ y[2] = c /\ y[3] = d
  BY <1>11
<1>13. Abstract!Double(y, s, t) = <<t, <<>>>>
  BY <1>12 DEF Abstract!Double
<1>14. Transfers(y, c, d, t, <<>>)
  BY <1>1, <1>12, <1>13, NoneIs DEF Transfers
<1>15. QED
  BY <1>1, <1>3, <1>6, <1>7, <1>10, <1>11, <1>14

LEMMA AllBetween ==
    ASSUME Sound(mem), NEW c \in Containers, NEW d \in Containers, NEW pos \in ToSet(Chain(mem, c))
    PROVE  \E a, b \in Seq(Elements) :
              /\ Chain(mem, c) = a \o b /\ b # <<>> /\ First(b) = pos
              /\ ToSet(Chain(mem, c)) = ToSet(a) \cup ToSet(b)
              /\ Transfers(<<"splice", c, d, pos>>, c, d, a \o Chain(mem, d) \o b, <<>>)
<1>1. PICK s \in Seq(Elements) : s = Chain(mem, c) /\ IsInjective(s)
  BY WhatIsHeld
<1>2. PICK a \in Seq(Elements), b \in Seq(Elements) :
         /\ s = a \o b /\ Abstract!Before(s, pos) = a /\ Abstract!From(s, pos) = b
         /\ First(b) = pos /\ b # <<>> /\ ToSet(s) = ToSet(a) \cup ToSet(b)
  <2>1. pos \in ToSet(s)
    BY <1>1
  <2>2. PICK p : p = pos /\ p \in ToSet(s) /\ IsInjective(s)
    BY <1>1, <2>1
  <2>3. \E x, y \in Seq(Elements) :
              /\ s = x \o y /\ Abstract!Before(s, p) = x /\ Abstract!From(s, p) = y
              /\ First(y) = p /\ y # <<>> /\ ToSet(s) = ToSet(x) \cup ToSet(y)
    <3>1. /\ s \in Seq(Elements) /\ IsInjective(s) /\ p \in ToSet(s)
      BY <2>2
    <3>2. QED
      BY <3>1, FromOn
  <2>4. QED
    BY <2>2, <2>3
<1>3. PICK t \in Seq(Elements) : t = Chain(mem, d)
  BY WhatIsHeld
<1>4. ToSet(a \o t \o b) = ToSet(a) \cup ToSet(t) \cup ToSet(b)
  <2>1. PICK l \in Seq(Elements) : l = a \o t
    BY Both
  <2>2. ToSet(l) = ToSet(a) \cup ToSet(t)
    BY <2>1, Both
  <2>3. ToSet(l \o b) = ToSet(l) \cup ToSet(b)
    BY Both
  <2>4. QED
    BY <2>1, <2>2, <2>3
<1>5. PICK w : w = <<"splice", c, d, pos>>
  OBVIOUS
<1>6. w[1] = "splice" /\ w[2] = c /\ w[3] = d /\ w[4] = pos
  BY <1>5
<1>7. Abstract!Double(w, s, t) = <<a \o t \o b, <<>>>>
  <2>1. Abstract!Double(w, s, t) =
          <<Abstract!Before(s, w[4]) \o t \o Abstract!From(s, w[4]), <<>>>>
    BY <1>6, DoubleIs
  <2>2. QED
    BY <1>2, <1>6, <2>1
<1>8. Transfers(w, c, d, a \o t \o b, <<>>)
  BY <1>1, <1>2, <1>3, <1>4, <1>6, <1>7, NoneIs DEF Transfers
<1>9. QED
  BY <1>1, <1>2, <1>3, <1>5, <1>8

LEMMA InTwo ==
    ASSUME NEW s \in Seq(Elements), IsInjective(s), NEW e \in ToSet(s)
    PROVE  \E a, b \in Seq(Elements) :
              /\ e \in Elements /\ s = a \o <<e>> \o b
              /\ Tail(Abstract!From(s, e)) = b /\ Append(Abstract!Before(s, e), e) = a \o <<e>>
              /\ ToSet(s) = ToSet(a) \cup ToSet(b) \cup {e}
              /\ ToSet(a \o <<e>>) = ToSet(a) \cup {e} /\ ToSet(b) \cap ToSet(a \o <<e>>) = {}
<1>1. \E a, b \in Seq(Elements) :
         /\ e \in Elements /\ <<e>> \o b \in Seq(Elements)
         /\ s = a \o <<e>> \o b /\ s = a \o (<<e>> \o b)
         /\ Abstract!Before(s, e) = a /\ Abstract!From(s, e) = <<e>> \o b
         /\ First(<<e>> \o b) = e /\ <<e>> \o b # <<>>
         /\ ToSet(s) = ToSet(a) \cup ToSet(b) \cup {e}
         /\ ToSet(s) = ToSet(a) \cup ToSet(<<e>> \o b)
  BY Around
<1>2. PICK a \in Seq(Elements), b \in Seq(Elements) :
         /\ e \in Elements /\ s = a \o <<e>> \o b
         /\ Abstract!Before(s, e) = a /\ Abstract!From(s, e) = <<e>> \o b
         /\ ToSet(s) = ToSet(a) \cup ToSet(b) \cup {e}
  BY <1>1
<1>3. Tail(<<e>> \o b) = b /\ Append(a, e) = a \o <<e>>
  BY <1>2, Without1
<1>4. PICK o \in Seq(Elements) : o = <<e>> /\ ToSet(o) = {e}
  BY <1>2, OneOrNone
<1>5. PICK l \in Seq(Elements) : l = a \o o /\ ToSet(l) = ToSet(a) \cup ToSet(o)
  BY Both
<1>6. ToSet(l) \cap ToSet(b) = {}
  BY <1>2, <1>4, <1>5, JoinedOnce
<1>7. QED
  BY <1>2, <1>3, <1>4, <1>5, <1>6, ZenonT(60)

LEMMA AllUpTo ==
    ASSUME Sound(mem), NEW c \in Containers, NEW d \in Containers, NEW pos \in ToSet(Chain(mem, c))
    PROVE  \E a, b \in Seq(Elements) :
              /\ pos \in Elements /\ Chain(mem, c) = a \o <<pos>> \o b
              /\ ToSet(Chain(mem, c)) = ToSet(a) \cup ToSet(b) \cup {pos}
              /\ Transfers(<<"split", c, d, pos>>, c, d, b, a \o <<pos>>)
<1>1. PICK s \in Seq(Elements) : s = Chain(mem, c) /\ IsInjective(s)
  BY WhatIsHeld
<1>2. PICK a \in Seq(Elements), b \in Seq(Elements) :
         /\ pos \in Elements /\ s = a \o <<pos>> \o b
         /\ Tail(Abstract!From(s, pos)) = b /\ Append(Abstract!Before(s, pos), pos) = a \o <<pos>>
         /\ ToSet(s) = ToSet(a) \cup ToSet(b) \cup {pos}
         /\ ToSet(a \o <<pos>>) = ToSet(a) \cup {pos} /\ ToSet(b) \cap ToSet(a \o <<pos>>) = {}
  <2>1. pos \in ToSet(s)
    BY <1>1
  <2>2. QED
    BY <1>1, <2>1, InTwo
<1>3. PICK w : w = <<"split", c, d, pos>>
  OBVIOUS
<1>4. w[1] = "split" /\ w[2] = c /\ w[3] = d /\ w[4] = pos
  BY <1>3
<1>5. Abstract!Double(w, s, Chain(mem, d)) = <<b, a \o <<pos>>>>
  <2>1. Abstract!Double(w, s, Chain(mem, d)) =
          <<Tail(Abstract!From(s, w[4])), Append(Abstract!Before(s, w[4]), w[4])>>
    BY <1>4 DEF Abstract!Double
  <2>2. QED
    BY <1>2, <1>4, <2>1
<1>6. Transfers(w, c, d, b, a \o <<pos>>)
  BY <1>1, <1>2, <1>4, <1>5 DEF Transfers
<1>7. QED
  BY <1>1, <1>2, <1>3, <1>6

LEMMA DequeSeveralDone ==
    ASSUME Sound(mem), NEW c \in Deques, NEW d \in Deques, DequeSeveral(c, d)
    PROVE  Done
<1>1. /\ c \in Containers /\ d \in Containers /\ c # d /\ mem \in Memories
      /\ Represents(mem, c, Chain(mem, c)) /\ Represents(mem, d, Chain(mem, d))
      /\ ToSet(Chain(mem, d)) \cap ToSet(Chain(mem, c)) = {}
  BY Kinds, WhatIsHeld DEF DequeSeveral, Sound
<1>2. ASSUME Does(<<"splice front", c, d>>, DPushFrontAll(mem, c, d)) PROVE Done
  <2>1. PICK n : n = DPushFrontAll(mem, c, d)
    OBVIOUS
  <2>2. MakesTwo(mem, n, c, Chain(mem, d) \o Chain(mem, c), d, <<>>,
                 ToSet(Chain(mem, c)) \cup ToSet(Chain(mem, d)))
    BY <1>1, <2>1, DPushFrontAllMakes
  <2>3. Does(<<"splice front", c, d>>, n)
    BY <1>2, <2>1
  <2>4. QED
    BY <1>1, <2>2, <2>3, AllOver, TransfersDone
<1>3. ASSUME Does(<<"splice back", c, d>>, DPushBackAll(mem, c, d)) PROVE Done
  <2>1. PICK n : n = DPushBackAll(mem, c, d)
    OBVIOUS
  <2>2. MakesTwo(mem, n, c, Chain(mem, c) \o Chain(mem, d), d, <<>>,
                 ToSet(Chain(mem, c)) \cup ToSet(Chain(mem, d)))
    BY <1>1, <2>1, DPushBackAllMakes
  <2>3. Does(<<"splice back", c, d>>, n)
    BY <1>3, <2>1
  <2>4. QED
    BY <1>1, <2>2, <2>3, AllOver, TransfersDone
<1>4. ASSUME NEW pos \in Members(c), Does(<<"splice", c, d, pos>>, DInsertAll(mem, c, pos, d))
      PROVE  Done
  <2>1. PICK n : n = DInsertAll(mem, c, pos, d)
    OBVIOUS
  <2>2. PICK a \in Seq(Elements), b \in Seq(Elements) :
           /\ Chain(mem, c) = a \o b /\ b # <<>> /\ First(b) = pos
           /\ ToSet(Chain(mem, c)) = ToSet(a) \cup ToSet(b)
           /\ Transfers(<<"splice", c, d, pos>>, c, d, a \o Chain(mem, d) \o b, <<>>)
    BY <1>1, <1>4, AllBetween DEF Members
  <2>3. MakesTwo(mem, n, c, a \o Chain(mem, d) \o b, d, <<>>,
                 ToSet(Chain(mem, c)) \cup ToSet(Chain(mem, d)))
    <3>1. PICK t : t = Chain(mem, d)
      OBVIOUS
    <3>2. /\ Represents(mem, c, a \o b) /\ Represents(mem, d, t)
          /\ ToSet(t) \cap (ToSet(a) \cup ToSet(b)) = {} /\ n = DInsertAll(mem, c, First(b), d)
      BY <1>1, <2>1, <2>2, <3>1
    <3>3. MakesTwo(mem, n, c, a \o t \o b, d, <<>>, ToSet(a) \cup ToSet(b) \cup ToSet(t))
      BY <1>1, <2>2, <3>2, DInsertAllMakes
    <3>4. QED
      BY <2>2, <3>1, <3>3
  <2>4. Does(<<"splice", c, d, pos>>, n)
    BY <1>4, <2>1
  <2>5. QED
    BY <1>1, <2>2, <2>3, <2>4, TransfersDone
<1>5. ASSUME NEW pos \in Members(c), IsEmpty(mem, d),
             Does(<<"split", c, d, pos>>, DSplit(mem, c, pos, d))
      PROVE  Done
  <2>1. PICK n : n = DSplit(mem, c, pos, d)
    OBVIOUS
  <2>2. PICK a \in Seq(Elements), b \in Seq(Elements) :
           /\ pos \in Elements /\ Chain(mem, c) = a \o <<pos>> \o b
           /\ ToSet(Chain(mem, c)) = ToSet(a) \cup ToSet(b) \cup {pos}
           /\ Transfers(<<"split", c, d, pos>>, c, d, b, a \o <<pos>>)
    BY <1>1, <1>5, AllUpTo DEF Members
  <2>3. MakesTwo(mem, n, c, b, d, a \o <<pos>>, ToSet(a) \cup ToSet(b) \cup {pos})
    <3>1. Represents(mem, c, a \o <<pos>> \o b) /\ mem.head[d] = Null /\ pos \in Elements
      BY <1>1, <1>5, <2>2 DEF IsEmpty
    <3>2. QED
      BY <1>1, <2>1, <3>1, DSplitMakes
  <2>4. MakesTwo(mem, n, c, b, d, a \o <<pos>>, ToSet(Chain(mem, c)) \cup ToSet(Chain(mem, d)))
    BY <2>2, <2>3, DifferLessOfTwo
  <2>5. Does(<<"split", c, d, pos>>, n)
    BY <1>5, <2>1
  <2>6. QED
    BY <1>1, <2>2, <2>4, <2>5, TransfersDone
<1>6. QED
  BY <1>2, <1>3, <1>4, <1>5 DEF DequeSeveral

LEMMA SeveralDone ==
    ASSUME Sound(mem), NEW c \in Containers, NEW d \in Containers, Several(c, d)
    PROVE  Done
<1>1. /\ c # d /\ mem \in Memories
      /\ Represents(mem, c, Chain(mem, c)) /\ Represents(mem, d, Chain(mem, d))
      /\ ToSet(Chain(mem, c)) \cap ToSet(Chain(mem, d)) = {}
  BY ContainersAssumption, WhatIsHeld DEF Several, Sound
<1>2. ASSUME c \in Queues, d \in Queues, Does(<<"splice back", c, d>>, QSplice(mem, c, d)) PROVE Done
  <2>1. PICK n : n = QSplice(mem, c, d)
    OBVIOUS
  <2>2. MakesTwo(mem, n, c, Chain(mem, c) \o Chain(mem, d), d, <<>>,
                 ToSet(Chain(mem, c)) \cup ToSet(Chain(mem, d)))
    BY <1>1, <1>2, <2>1, QSpliceMakes
  <2>3. Does(<<"splice back", c, d>>, n)
    BY <1>2, <2>1
  <2>4. QED
    BY <1>1, <2>2, <2>3, AllOver, TransfersDone
<1>3. ASSUME NEW n, c \in Stacks, Does(<<"splice front", c, d>>, n),
             (d \in Stacks /\ n = SSplice(mem, c, d)) \/ (d \in Queues /\ n = SSpliceQueue(mem, c, d))
      PROVE  Done
  <2>1. MakesTwo(mem, n, c, Chain(mem, d) \o Chain(mem, c), d, <<>>,
                 ToSet(Chain(mem, c)) \cup ToSet(Chain(mem, d)))
    BY <1>1, <1>3, OnTopMakes DEF OneWay
  <2>2. QED
    BY <1>1, <1>3, <2>1, AllOver, TransfersDone
<1>4. QED
  BY <1>2, <1>3 DEF Several

LEMMA MoveToDone ==
    ASSUME Sound(mem), NEW c \in Containers, NEW d \in Containers, MoveTo(c, d)
    PROVE  Done
<1>1. PICK n : n = Moved(mem, c, d)
  OBVIOUS
<1>2. MakesTwo(mem, n, c, Chain(mem, d), d, <<>>, ToSet(Chain(mem, d)))
  BY <1>1, WhatIsHeld, MovedMakes DEF MoveTo
<1>3. MakesTwo(mem, n, c, Chain(mem, d), d, <<>>, ToSet(Chain(mem, c)) \cup ToSet(Chain(mem, d)))
  BY <1>2, DifferLessOfTwo
<1>4. Does(<<"move", c, d>>, n) /\ c # d
  BY <1>1 DEF MoveTo
<1>5. QED
  BY <1>3, <1>4, AllOver, TransfersDone
LEMMA QueueLessDone == ASSUME Sound(mem), NEW c \in Queues, QueueLess(c) PROVE Done
BY OneWayLessDone DEF OneWay

LEMMA StackLessDone == ASSUME Sound(mem), NEW c \in Stacks, StackLess(c) PROVE Done
BY OneWayLessDone DEF OneWay
------------------------------------------------------------------------------
(* All the operations. *)

\* Every step of the program keeps the invariant, is a step of the sequences, and leaves
\* what it takes out without links, unless the stale tail of an emptied Deque is used.
LEMMA EveryStepDone == ASSUME Sound(mem), Next, astray' = "no" PROVE Done
<1>1. ASSUME NEW d \in Deques, (\E e \in Elements : DequeOne(d, e)) \/ DequeLess(d) PROVE Done
  BY <1>1, DequeOneDone, DequeLessDone
<1>2. ASSUME NEW q \in Queues, (\E e \in Elements : QueueOne(q, e)) \/ QueueLess(q) PROVE Done
  <2>1. CASE \E e \in Elements : QueueOne(q, e)
    BY <2>1, QueueOneDone
  <2>2. CASE QueueLess(q)
    <3>1. q \in OneWay
      BY DEF OneWay
    <3>2. QED
      BY <2>2, <3>1, QueueLessDone
  <2>3. QED
    BY <1>2, <2>1, <2>2
<1>3. ASSUME NEW s \in Stacks, (\E e \in Elements : StackOne(s, e)) \/ StackLess(s) PROVE Done
  <2>1. CASE \E e \in Elements : StackOne(s, e)
    BY <2>1, StackOneDone
  <2>2. CASE StackLess(s)
    <3>1. s \in OneWay
      BY DEF OneWay
    <3>2. QED
      BY <2>2, <3>1, StackLessDone
  <2>3. QED
    BY <1>3, <2>1, <2>2
<1>4. ASSUME NEW c \in Containers, AnyLess(c) PROVE Done
  BY <1>4, AnyLessDone
<1>5. ASSUME NEW c \in Deques, NEW d \in Deques, DequeSeveral(c, d) PROVE Done
  BY <1>5, DequeSeveralDone
<1>6. ASSUME NEW c \in Containers, NEW d \in Containers, Several(c, d) \/ MoveTo(c, d) PROVE Done
  BY <1>6, SeveralDone, MoveToDone
<1>7. QED
  BY <1>1, <1>2, <1>3, <1>4, <1>5, <1>6 DEF Next, Operation

\* At first all the containers are empty.
LEMMA StartsSound == ASSUME Init PROVE Sound(mem) /\ Abstract!Init
<1>1. \A c \in Containers : mem.head[c] = Null
  BY DEF Init
<1>2. \A c \in Containers : Represents(mem, c, <<>>) /\ Chain(mem, c) = <<>>
  BY <1>1, EmptyIs, ChainIs
<1>3. mem \in Memories
  BY DEF Init, Memories, Links
<1>4. Sound(mem)
  <2>1. \A c \in Containers : Represents(mem, c, Chain(mem, c))
    BY <1>2
  <2>2. \A c, d \in Containers : ToSet(Chain(mem, c)) \cap ToSet(Chain(mem, d)) = {}
    BY <1>2, NoneIs
  <2>3. QED
    BY <1>3, <2>1, <2>2 DEF Sound
<1>5. Abstract!Init
  BY <1>2 DEF Abstract!Init, Init
<1>6. QED
  BY <1>4, <1>5

\* EndsMeet, of a memory.
Met(m) ==
    \A c \in Lists : ~IsEmpty(m, c) =>
        LET s == Chain(m, c)
        IN  /\ m.tail[c] = Last(s)
            /\ c \in Deques => \A i \in 1 .. Len(s) :
                  m.prev[s[i]] = IF i = 1 THEN Null ELSE s[i - 1]

LEMMA SoundMeets == ASSUME NEW m, Sound(m) PROVE Met(m)
<1> SUFFICES ASSUME NEW c \in Lists, ~IsEmpty(m, c)
             PROVE  /\ m.tail[c] = Last(Chain(m, c))
                    /\ c \in Deques => \A i \in 1 .. Len(Chain(m, c)) :
                          m.prev[Chain(m, c)[i]] = IF i = 1 THEN Null ELSE Chain(m, c)[i - 1]
  BY DEF Met
<1>1. PICK s \in Seq(Elements) : s = Chain(m, c) /\ s # <<>> /\ Represents(m, c, s)
  BY Kinds, WhatIsHeld
<1>2. PICK n \in Nat : n = Len(s) /\ n # 0
  BY <1>1, Indices
<1>3. m.tail[c] = Last(s)
  BY <1>1 DEF Represents, Final, Last
<1>4. ASSUME c \in Deques, NEW i \in 1 .. n
      PROVE  m.prev[s[i]] = IF i = 1 THEN Null ELSE s[i - 1]
  <2>1. CASE i = 1
    BY <1>1, <1>4, <2>1 DEF Represents, First
  <2>2. CASE i # 1
    <3>1. i - 1 \in 1 .. Len(s) - 1 /\ (i - 1) + 1 = i
      BY <1>2, <2>2
    <3>2. PICK j \in 1 .. Len(s) - 1 : j = i - 1 /\ j + 1 = i
      BY <3>1
    <3>3. <<s[j], s[j + 1]>> \in Neighbours(s)
      BY DEF Neighbours
    <3>4. m.prev[s[j + 1]] = s[j]
      BY <1>1, <1>4, <3>3 DEF Represents, Together, Backed
    <3>5. QED
      BY <2>2, <3>2, <3>4
  <2>3. QED
    BY <2>1, <2>2
<1>5. QED
  BY <1>1, <1>2, <1>3, <1>4

\* The containers are always sound: each is the sequence of distinct elements that an
\* iteration over it meets, with its links in both directions and its ends where they
\* belong, and no element is in two of them - for any elements, and any Deques, Queues and
\* Stacks that exchange them, until a Deque that split() emptied uses the tail it still has
\* (astray): split() alone is harmless, pop_back() and iterations afterwards are not.
THEOREM ContainersInvariance == Spec => [](astray = "no" => Sound(mem))
<1>1. Init => (astray = "no" => Sound(mem))
  BY StartsSound
<1>2. (astray = "no" => Sound(mem)) /\ [Next]_vars => (astray = "no" => Sound(mem))'
  <2>1. ASSUME astray = "no" => Sound(mem), Next, astray' = "no" PROVE Sound(mem')
    <3>1. Sound(mem)
      BY <2>1 DEF Next
    <3>2. QED
      BY <2>1, <3>1, EveryStepDone DEF Done
  <2>2. ASSUME astray = "no" => Sound(mem), UNCHANGED vars, astray' = "no" PROVE Sound(mem')
    BY <2>2 DEF vars
  <2>3. QED
    BY <2>1, <2>2
<1>3. QED
  BY <1>1, <1>2, PTL DEF Spec

\* Whatever the operations do with next, prev, head and tail, they work on the containers
\* as on sequences: push, pop, insert, erase, erase_if, split, splice and move do what their
\* names promise, nothing is lost, and no other container is touched.  Excepted, in IsLists,
\* is the stale tail of a Deque that split() emptied.
THEOREM ContainersAreLists == Spec => IsLists
<1>1. Init => Abstract!Init
  BY StartsSound
<1>2. (astray = "no" => Sound(mem)) /\ [Next]_vars
         => [astray' = "no" => Abstract!Next]_<<mem, op, astray>>
  <2>1. ASSUME astray = "no" => Sound(mem), Next, astray' = "no" PROVE Abstract!Next
    <3>1. Sound(mem)
      BY <2>1 DEF Next
    <3>2. QED
      BY <2>1, <3>1, EveryStepDone DEF Done
  <2>2. ASSUME UNCHANGED vars PROVE UNCHANGED <<mem, op, astray>>
    BY <2>2 DEF vars
  <2>3. QED
    BY <2>1, <2>2
<1>3. QED
  BY <1>1, <1>2, ContainersInvariance, PTL DEF Spec, IsLists

\* The tail of a Deque or a Queue is where its chain ends, a Deque is the same read from the
\* back, and what pop() or erase() took out has no links back: after any steps but those
\* that use the stale tail of a Deque that split() emptied.
THEOREM LinksStayWellFormed == Spec => LinksWellFormed
<1>1. (astray = "no" => Sound(mem)) /\ [Next]_vars
         => [astray' = "no" => EndsMeet' /\ LeavesUnlinked]_vars
  <2>1. ASSUME astray = "no" => Sound(mem), Next, astray' = "no"
        PROVE  EndsMeet' /\ LeavesUnlinked
    <3>1. Sound(mem)
      BY <2>1 DEF Next
    <3>2. Sound(mem') /\ LeavesUnlinked
      BY <2>1, <3>1, EveryStepDone DEF Done
    <3>3. Met(mem')
      BY <3>2, SoundMeets
    <3>4. EndsMeet'
      BY <3>3 DEF Met, EndsMeet
    <3>5. QED
      BY <3>2, <3>4
  <2>2. QED
    BY <2>1
<1>2. QED
  BY <1>1, ContainersInvariance, PTL DEF Spec, LinksWellFormed
==============================================================================
