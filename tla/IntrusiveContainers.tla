-------------------------- MODULE IntrusiveContainers --------------------------
(***************************************************************************)
(* Deque, Queue and Stack of bitpowder: the links are inside of the         *)
(* elements, which go from one container to another.  A Deque links in both *)
(* directions; a Queue has a head and a tail; a Stack has its newest        *)
(* element only.  Each operation is a function of the memory: who is the    *)
(* head and the tail of each container, and the next and prev of elements.  *)
(***************************************************************************)
EXTENDS Integers, Sequences, FiniteSets, SequencesExt

CONSTANTS Elements, Deques, Queues, Stacks

Null == "nullptr"

ASSUME ContainersAssumption ==
    /\ IsFiniteSet(Elements) /\ Null \notin Elements
    /\ Deques \cap Queues = {} /\ Deques \cap Stacks = {} /\ Queues \cap Stacks = {}

VARIABLES mem,      \* next, prev, head, tail
          op,       \* the last operation
          astray    \* "no", or what an emptied Deque did with the tail that split() left it

vars == <<mem, op, astray>>

Containers == Deques \cup Queues \cup Stacks
Lists == Deques \cup Queues

Init ==
    /\ mem = [next |-> [e \in Elements |-> Null], prev |-> [e \in Elements |-> Null],
              head |-> [c \in Containers |-> Null], tail |-> [c \in Containers |-> Null]]
    /\ op = <<"none">> /\ astray = "no"

IsEmpty(m, c) == m.head[c] = Null

\* What an iteration meets, from the head (the value of a Stack) on along the links: up to
\* the end or, in a circle, over one more than there are elements.
Chain(m, c) ==
    LET at[i \in 1 .. Cardinality(Elements) + 1] ==
            IF i = 1 THEN m.head[c]
            ELSE IF at[i - 1] = Null THEN Null ELSE m.next[at[i - 1]]
    IN  [i \in {j \in DOMAIN at : at[j] # Null} |-> at[i]]
------------------------------------------------------------------------------
(* Deque *)

DPushFront(m, d, e) ==
    IF IsEmpty(m, d) THEN [m EXCEPT !.head[d] = e, !.tail[d] = e, !.next[e] = Null]
    ELSE [m EXCEPT !.prev[m.head[d]] = e, !.next[e] = m.head[d], !.head[d] = e]

DPushBack(m, d, e) ==
    IF IsEmpty(m, d) THEN [m EXCEPT !.head[d] = e, !.tail[d] = e, !.prev[e] = Null]
    ELSE [m EXCEPT !.next[m.tail[d]] = e, !.prev[e] = m.tail[d], !.tail[d] = e]

Swap(m, c, d) ==
    [m EXCEPT !.head[c] = m.head[d], !.head[d] = m.head[c],
              !.tail[c] = m.tail[d], !.tail[d] = m.tail[c]]

Emptied(m, d) == [m EXCEPT !.head[d] = Null, !.tail[d] = Null]

\* push_front and push_back of another Deque.  (push_front keeps the tail.)
DPushFrontAll(m, c, d) ==
    IF IsEmpty(m, d) THEN m
    ELSE IF IsEmpty(m, c) THEN Swap(m, c, d)
    ELSE Emptied([m EXCEPT !.prev[m.head[c]] = m.tail[d], !.next[m.tail[d]] = m.head[c],
                           !.head[c] = m.head[d]], d)

DPushBackAll(m, c, d) ==
    IF IsEmpty(m, d) THEN m
    ELSE IF IsEmpty(m, c) THEN Swap(m, c, d)
    ELSE Emptied([m EXCEPT !.next[m.tail[c]] = m.head[d], !.prev[m.head[d]] = m.tail[c],
                           !.tail[c] = m.tail[d]], d)

DPopFront(m, d) ==
    LET e == m.head[d]  rest == m.next[e]
    IN  IF rest = Null THEN [m EXCEPT !.head[d] = Null, !.tail[d] = Null]
        ELSE [m EXCEPT !.head[d] = rest, !.next[e] = Null, !.prev[rest] = Null]

DPopBack(m, d) ==
    LET e == m.tail[d]  rest == m.prev[e]
    IN  IF rest = Null THEN [m EXCEPT !.head[d] = Null, !.tail[d] = Null]
        ELSE [m EXCEPT !.tail[d] = rest, !.prev[e] = Null, !.next[rest] = Null]

DErase(m, d, e) ==
    LET n == m.next[e]  p == m.prev[e]
        cut == IF e = m.head[d]
               THEN IF n = Null THEN Emptied(m, d) ELSE [m EXCEPT !.head[d] = n, !.prev[n] = Null]
               ELSE IF e = m.tail[d]
               THEN IF p = Null THEN Emptied(m, d) ELSE [m EXCEPT !.tail[d] = p, !.next[p] = Null]
               ELSE [m EXCEPT !.prev[n] = p, !.next[p] = n]
    IN  IF p = Null /\ n = Null /\ e # m.head[d] THEN m
        ELSE [cut EXCEPT !.prev[e] = Null, !.next[e] = Null]

DInsert(m, d, pos, e) ==
    LET p == m.prev[pos]
        linked == [m EXCEPT !.prev[e] = p, !.prev[pos] = e, !.next[e] = pos]
    IN  IF p # Null THEN [linked EXCEPT !.next[p] = e] ELSE [linked EXCEPT !.head[d] = e]

\* Mutant of DInsertAll: the last inserted element is not linked to what follows.
DInsertAllCut(m, c, pos, d) ==
    LET p == m.prev[pos]
        linked == IF p # Null THEN [m EXCEPT !.next[p] = m.head[d]]
                  ELSE [m EXCEPT !.head[c] = m.head[d]]
    IN  IF IsEmpty(m, d) THEN m
        ELSE Emptied([linked EXCEPT !.prev[m.head[d]] = p, !.prev[pos] = m.tail[d]], d)

DInsertAll(m, c, pos, d) ==
    LET p == m.prev[pos]
        linked == IF p # Null THEN [m EXCEPT !.next[p] = m.head[d]]
                  ELSE [m EXCEPT !.head[c] = m.head[d]]
    IN  IF IsEmpty(m, d) THEN m
        ELSE Emptied([linked EXCEPT !.prev[m.head[d]] = p, !.next[m.tail[d]] = pos,
                                    !.prev[pos] = m.tail[d]], d)

\* split: into an empty Deque goes all up to pos.  The tail of c stays, c empty or not.
DSplit(m, c, pos, d) ==
    LET rest == m.next[pos]
        cut == [m EXCEPT !.head[d] = m.head[c], !.tail[d] = pos, !.head[c] = rest,
                         !.next[pos] = Null]
    IN  IF rest = Null THEN cut ELSE [cut EXCEPT !.prev[rest] = Null]
------------------------------------------------------------------------------
(* Queue *)

QPushFront(m, q, e) ==
    LET linked == [m EXCEPT !.next[e] = m.head[q], !.head[q] = e]
    IN  IF IsEmpty(m, q) THEN [linked EXCEPT !.tail[q] = e] ELSE linked

QPushBack(m, q, e) ==
    LET unlinked == [m EXCEPT !.next[e] = Null, !.tail[q] = e]
    IN  IF IsEmpty(m, q) THEN [unlinked EXCEPT !.head[q] = e]
        ELSE [unlinked EXCEPT !.next[m.tail[q]] = e]

QPop(m, q) ==
    LET e == m.head[q]  rest == m.next[e]
        popped == [m EXCEPT !.head[q] = rest, !.next[e] = Null]
    IN  IF rest = Null THEN [popped EXCEPT !.tail[q] = Null] ELSE popped

\* splice(first, last), then the other queue is emptied.
QSplice(m, q, r) ==
    IF m.head[q] = m.head[r] \/ IsEmpty(m, r) THEN Emptied(m, r)
    ELSE LET joined == IF IsEmpty(m, q) THEN [m EXCEPT !.head[q] = m.head[r]]
                       ELSE [m EXCEPT !.next[m.tail[q]] = m.head[r]]
         IN  Emptied([joined EXCEPT !.tail[q] = m.tail[r]], r)

\* The element in front of e, none if e is the first.
Previous(m, c, e) ==
    IF \E x \in ToSet(Chain(m, c)) : m.next[x] = e
    THEN CHOOSE x \in ToSet(Chain(m, c)) : m.next[x] = e ELSE Null

\* erase(): walks to the element in front of e.
QErase(m, q, e) ==
    IF e = m.head[q] THEN QPop(m, q)
    ELSE IF e \notin ToSet(Chain(m, q)) THEN m
    ELSE LET p == Previous(m, q, e)
             cut == [m EXCEPT !.next[p] = m.next[e], !.next[e] = Null]
         IN  IF m.tail[q] = e THEN [cut EXCEPT !.tail[q] = p] ELSE cut

\* Mutant of QIteratorErase: the tail is left alone.
QIteratorEraseTail(m, q, e) ==
    LET p == Previous(m, q, e)
    IN  IF p = Null THEN [m EXCEPT !.head[q] = m.next[e]] ELSE [m EXCEPT !.next[p] = m.next[e]]

\* The iterator's erase(): e keeps its link.
QIteratorErase(m, q, e) ==
    LET p == Previous(m, q, e)
        cut == IF p = Null THEN [m EXCEPT !.head[q] = m.next[e]] ELSE [m EXCEPT !.next[p] = m.next[e]]
    IN  IF m.next[e] = Null THEN [cut EXCEPT !.tail[q] = p] ELSE cut

\* The iterator's insert(), of Queue and Stack: in front of pos.
IteratorInsert(m, c, pos, e) ==
    LET p == Previous(m, c, pos)
        linked == [m EXCEPT !.next[e] = pos]
    IN  IF p = Null THEN [linked EXCEPT !.head[c] = e] ELSE [linked EXCEPT !.next[p] = e]
------------------------------------------------------------------------------
(* Stack: head is its value, the newest element. *)

SPush(m, s, e) == [m EXCEPT !.next[e] = m.head[s], !.head[s] = e]

SPop(m, s) == [m EXCEPT !.head[s] = m.next[m.head[s]], !.next[m.head[s]] = Null]

\* splice(Stack&): on top go the elements of the other stack, in their order.
SSplice(m, s, t) ==
    LET last == Last(Chain(m, t))
        joined == IF IsEmpty(m, s) THEN m ELSE [m EXCEPT !.next[last] = m.head[s]]
    IN  IF IsEmpty(m, t) THEN m ELSE [joined EXCEPT !.head[s] = m.head[t], !.head[t] = Null]

SErase(m, s, e) ==
    IF e = m.head[s] THEN SPop(m, s)
    ELSE IF e \notin ToSet(Chain(m, s)) THEN m
    ELSE [m EXCEPT !.next[Previous(m, s, e)] = m.next[e], !.next[e] = Null]

SIteratorErase(m, s, e) ==
    LET p == Previous(m, s, e)
    IN  IF p = Null THEN [m EXCEPT !.head[s] = m.next[e]] ELSE [m EXCEPT !.next[p] = m.next[e]]

\* splice(C&): a Queue is put on top of a Stack, as the memory pools do it.
SSpliceQueue(m, s, q) ==
    IF IsEmpty(m, q) THEN m
    ELSE Emptied([m EXCEPT !.next[m.tail[q]] = m.head[s], !.head[s] = m.head[q]], q)

Moved(m, c, d) ==
    Emptied([m EXCEPT !.head[c] = m.head[d], !.tail[c] = m.tail[d]], d)
------------------------------------------------------------------------------
(* The operations.  Nothing is in two containers: that is up to the callers. *)

Members(c) == ToSet(Chain(mem, c))
Inside == UNION {Members(c) : c \in Containers}
Unlinked(e) == mem.next[e] = Null /\ mem.prev[e] = Null

Does(what, m) == op' = what /\ mem' = m /\ astray' = "no"

\* erase_if(): select() stops at each element that is to go, erase() goes on after it.
EraseFound(m, c, e) ==
    CASE c \in Deques -> DErase(m, c, e)
      [] c \in Queues -> QIteratorErase(m, c, e)
      [] c \in Stacks -> SIteratorErase(m, c, e)

EraseIf(c, es) ==
    LET s == Chain(mem, c)
        after[i \in 0 .. Len(s)] ==
            IF i = 0 THEN mem
            ELSE IF s[i] \in es THEN EraseFound(after[i - 1], c, s[i]) ELSE after[i - 1]
    IN  after[Len(s)]

\* A Deque and a Stack assert that what they are given has no links.
DequeOne(d, e) ==
    /\ e \notin Inside
    /\ \/ Unlinked(e) /\ Does(<<"push front", d, e>>, DPushFront(mem, d, e))
       \/ Unlinked(e) /\ Does(<<"push back", d, e>>, DPushBack(mem, d, e))
       \/ \E pos \in Members(d) : Does(<<"insert", d, e, pos>>, DInsert(mem, d, pos, e))

QueueOne(q, e) ==
    /\ e \notin Inside
    /\ \/ Does(<<"push front", q, e>>, QPushFront(mem, q, e))
       \/ Does(<<"push back", q, e>>, QPushBack(mem, q, e))
       \/ \E pos \in Members(q) : Does(<<"insert", q, e, pos>>, IteratorInsert(mem, q, pos, e))

StackOne(s, e) ==
    /\ e \notin Inside
    /\ \/ mem.next[e] = Null /\ Does(<<"push front", s, e>>, SPush(mem, s, e))
       \/ \E pos \in Members(s) : Does(<<"insert", s, e, pos>>, IteratorInsert(mem, s, pos, e))

\* pop_back() looks at the tail only.  A Deque that split() emptied still has the tail of
\* before: that element is taken although it is not in the Deque, out of the container that
\* has it by now, and if it has a next one the assertion at the end fails.
PopBack(d) ==
    LET e == mem.tail[d]
    IN  /\ e # Null
        /\ op' = <<"pop back", d>> /\ mem' = DPopBack(mem, d)
        /\ astray' = IF ~IsEmpty(mem, d) THEN "no"
                     ELSE IF mem.next[e] = Null THEN "taken" ELSE "asserted"

\* The end() of a Deque is what follows its tail, its begin() the head: an iteration over an
\* emptied Deque whose former tail has a next one starts with none and never meets the end.
EraseIfEmptied(d) ==
    /\ IsEmpty(mem, d) /\ mem.tail[d] # Null /\ mem.next[mem.tail[d]] # Null
    /\ op' = <<"erase if", d, {}>> /\ astray' = "endless" /\ UNCHANGED mem

\* A Deque takes an element for its own if it has links.
DequeLess(d) ==
    \/ ~IsEmpty(mem, d) /\ Does(<<"pop front", d>>, DPopFront(mem, d))
    \/ PopBack(d)
    \/ EraseIfEmptied(d)
    \/ \E e \in Elements :
          (e \in Members(d) \/ Unlinked(e)) /\ Does(<<"erase", d, e>>, DErase(mem, d, e))

QueueLess(q) ==
    \/ ~IsEmpty(mem, q) /\ Does(<<"pop front", q>>, QPop(mem, q))
    \/ \E e \in Elements : ~IsEmpty(mem, q) /\ Does(<<"erase", q, e>>, QErase(mem, q, e))

StackLess(s) ==
    \/ ~IsEmpty(mem, s) /\ Does(<<"pop front", s>>, SPop(mem, s))
    \/ \E e \in Elements : ~IsEmpty(mem, s) /\ Does(<<"erase", s, e>>, SErase(mem, s, e))

AnyLess(c) ==
    \/ \E es \in SUBSET Members(c) : es # {} /\ Does(<<"erase if", c, es>>, EraseIf(c, es))
    \/ Does(<<"clear", c>>, Emptied(mem, c))

DequeSeveral(c, d) ==
    /\ c # d
    /\ \/ Does(<<"splice front", c, d>>, DPushFrontAll(mem, c, d))
       \/ Does(<<"splice back", c, d>>, DPushBackAll(mem, c, d))
       \/ \E pos \in Members(c) : Does(<<"splice", c, d, pos>>, DInsertAll(mem, c, pos, d))
       \/ \E pos \in Members(c) :
             IsEmpty(mem, d) /\ Does(<<"split", c, d, pos>>, DSplit(mem, c, pos, d))

Several(c, d) ==
    \/ c \in Queues /\ d \in Queues /\ c # d
          /\ Does(<<"splice back", c, d>>, QSplice(mem, c, d))
    \/ c \in Stacks /\ d \in Stacks /\ c # d
          /\ Does(<<"splice front", c, d>>, SSplice(mem, c, d))
    \/ c \in Stacks /\ d \in Queues /\ Does(<<"splice front", c, d>>, SSpliceQueue(mem, c, d))

\* Move assignment; of a Stack construction only, its assignment drops the elements.
MoveTo(c, d) ==
    /\ c # d
    /\ {c, d} \subseteq Deques \/ {c, d} \subseteq Queues \/ ({c, d} \subseteq Stacks /\ IsEmpty(mem, c))
    /\ Does(<<"move", c, d>>, Moved(mem, c, d))

Operation ==
    \/ \E d \in Deques : (\E e \in Elements : DequeOne(d, e)) \/ DequeLess(d)
    \/ \E q \in Queues : (\E e \in Elements : QueueOne(q, e)) \/ QueueLess(q)
    \/ \E s \in Stacks : (\E e \in Elements : StackOne(s, e)) \/ StackLess(s)
    \/ \E c \in Containers : AnyLess(c)
    \/ \E c, d \in Deques : DequeSeveral(c, d)
    \/ \E c, d \in Containers : Several(c, d) \/ MoveTo(c, d)

\* With an element taken from a container that does not know of it, or in an iteration
\* without end, nothing more is said.
Next == astray = "no" /\ Operation

Spec == Init /\ [][Next]_vars
------------------------------------------------------------------------------
\* The tail of a container is where its chain ends, and a Deque is the same read from the
\* back: each link of it has its counterpart, also after splits and splices.
EndsMeet ==
    \A c \in Lists : ~IsEmpty(mem, c) =>
        LET s == Chain(mem, c)
        IN  /\ mem.tail[c] = Last(s)
            /\ c \in Deques => \A i \in 1 .. Len(s) :
                  mem.prev[s[i]] = IF i = 1 THEN Null ELSE s[i - 1]

\* An element that pop() or erase() took out of a container has no links that would lead
\* back into it: only then may it be pushed again (clear(), a move over the elements and the
\* erase() of the iterators of Queue and Stack leave links).
LeavesUnlinked ==
    op'[1] \in {"pop front", "pop back", "erase", "erase if"} =>
         \A c \in Containers \cap {op'[2]} : \A e \in Members(c) \ Members(c)' :
            /\ mem'.next[e] = Null \/ (op'[1] = "erase if" /\ c \notin Deques)
            /\ c \in Deques => mem'.prev[e] = Null

\* The links of the containers, and of what leaves them, are always as they should be,
\* whatever was split, spliced, moved and erased before - but for one operation: pop_back()
\* on a Deque that split() emptied (astray), which takes an element out of the middle of
\* another container, or out of none.
LinksWellFormed == [][astray' = "no" => EndsMeet' /\ LeavesUnlinked]_vars

Abstract == INSTANCE ElementLists WITH lists <- [c \in Containers |-> Chain(mem, c)]

\* Whatever the operations do with the links, they work on the containers as on sequences:
\* nothing is lost or in two of them, no other container is touched, the order is kept.
\* Excepted is the pop_back() of a Deque that split() emptied (astray): as a sequence that
\* Deque has nothing to take.
IsLists == Abstract!Init /\ [][astray' = "no" => Abstract!Next]_<<mem, op, astray>>

\* What Deque::pop_back() asserts: the element it took was the last one.
PopBackTakesTheLast == astray # "asserted"
===============================================================================
