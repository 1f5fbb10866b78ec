----------------------------- MODULE ElementLists -----------------------------
(***************************************************************************)
(* What the intrusive containers of bitpowder promise: each is a sequence   *)
(* of elements, and an element is in one container at most.                 *)
(***************************************************************************)
EXTENDS Integers, Sequences, SequencesExt

CONSTANTS Elements, Containers

VARIABLES lists,    \* container -> sequence of elements
          op        \* the last operation: what, on which container, with what

Free == Elements \ UNION {ToSet(lists[c]) : c \in Containers}

\* What stands before and from an element of a sequence.
Place(s, e) == CHOOSE i \in 1 .. Len(s) : s[i] = e
Before(s, e) == SubSeq(s, 1, Place(s, e) - 1)
From(s, e) == SubSeq(s, Place(s, e), Len(s))

\* A sequence without an element, and (IsWithout) t is s without some, in the same order.
Without(s, e) == IF e \in ToSet(s) THEN Before(s, e) \o Tail(From(s, e)) ELSE s
IsWithout(s, es, t) ==
    /\ IsInjective(t) /\ ToSet(t) = ToSet(s) \ es
    /\ \A i, j \in DOMAIN t : i < j => Place(s, t[i]) < Place(s, t[j])

\* An operation on one container: what becomes of it.
Single(what, s) ==
    CASE what[1] = "push front" -> <<what[3]>> \o s
      [] what[1] = "push back" -> Append(s, what[3])
      [] what[1] = "insert" -> Before(s, what[4]) \o <<what[3]>> \o From(s, what[4])
      [] what[1] = "pop front" -> Tail(s)
      [] what[1] = "pop back" -> Front(s)
      [] what[1] = "erase" -> Without(s, what[3])
      [] what[1] = "clear" -> <<>>

\* An operation that takes elements from another container: what becomes of both.
Double(what, s, t) ==
    CASE what[1] = "splice front" -> <<t \o s, <<>>>>
      [] what[1] = "splice back" -> <<s \o t, <<>>>>
      [] what[1] = "splice" -> <<Before(s, what[4]) \o t \o From(s, what[4]), <<>>>>
      [] what[1] = "move" -> <<t, <<>>>>
      [] what[1] = "split" -> <<Tail(From(s, what[4])), Append(Before(s, what[4]), what[4])>>

Adding == {"push front", "push back", "insert"}
Transferring == {"splice front", "splice back", "splice", "move", "split"}

Init == lists = [c \in Containers |-> <<>>] /\ op = <<"none">>

Become(c, d, both) == c # d /\ lists' = [lists EXCEPT ![c] = both[1], ![d] = both[2]]

Takes(what) ==
    LET c == what[2]
    IN  CASE what[1] \in Transferring ->
               Become(c, what[3], Double(what, lists[c], lists[what[3]]))
          [] what[1] = "erase if" ->
               \E t \in {lists'[c]} : /\ IsWithout(lists[c], what[3], t)
                                     /\ lists' = [lists EXCEPT ![c] = t]
          [] OTHER ->
               /\ what[1] \in Adding => what[3] \in Free
               /\ lists' = [lists EXCEPT ![c] = Single(what, lists[c])]

Next == op' # <<"none">> /\ Takes(op')

Spec == Init /\ [][Next]_<<lists, op>>
===============================================================================
