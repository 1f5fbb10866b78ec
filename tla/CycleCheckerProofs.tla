-------------------------- MODULE CycleCheckerProofs --------------------------
(***************************************************************************)
(* Proofs about the cycle checker, for any networks: of a network without  *)
(* composites its verdict is exact, and with composites too what it has    *)
(* checked is in front of no cycle.                                        *)
(***************************************************************************)
EXTENDS CycleChecker, SequenceTheorems, TLAPS

\* The dependencies of what was checked were checked.
Closed == \A s \in checked : network.deps[s] \subseteq checked

\* The calls follow the dependencies, and never come to a signal twice.
Path ==
    /\ \A i \in 1 .. Len(stack) - 1 : stack[i + 1] \in network.deps[stack[i]]
    /\ \A i, j \in DOMAIN stack : stack[i] = stack[j] => i = j

OnStack == {stack[i] : i \in DOMAIN stack}

\* What is being checked is on the stack.
Checking == ~ cycle => checking = OnStack

\* The network that is checked was flattened.
Flat == network.composite = {}

\* What was visited was checked or is still to be.
Visited ==
    phase = "search" /\ ~ cycle =>
        \A c \in Components \ todo : network.roots[c] \subseteq checked \cup ports

\* A search that found a cycle has been given up.
GivenUp == cycle => stack = <<>> /\ ports = {}

CheckedInv == TypeOK /\ GivenUp /\ Closed /\ CheckedIsHarmless

\* Without composites the flags tell where the search is.
SearchInv == Path /\ Checking /\ Visited /\ (cycle => HasCycle)

VerdictInv == CheckedInv /\ VerdictIsExact /\ (Flat => SearchInv)
------------------------------------------------------------------------------
\* A network has the parts that NetworksAssumption says.
LEMMA NetworkTypes ==
    ASSUME NEW n \in Views
    PROVE  /\ n.deps \in [Signals -> SUBSET Signals]
           /\ n.roots \in [Components -> SUBSET Signals]
           /\ \A s \in Signals : \E c \in Components : s \in n.roots[c]
  BY NetworksAssumption

\* The innermost signal is a signal, and without it the stack is shorter by one.
LEMMA StackTop ==
    ASSUME stack \in Seq(Signals), stack # <<>>
    PROVE  /\ Innermost \in Signals
           /\ Len(stack) \in Nat /\ Len(stack) # 0
           /\ LET rest == SubSeq(stack, 1, Len(stack) - 1)
              IN  /\ rest \in Seq(Signals)
                  /\ Len(rest) = Len(stack) - 1
                  /\ \A i \in 1 .. Len(stack) - 1 : rest[i] = stack[i]
<1>1. /\ Len(stack) \in Nat /\ Len(stack) # 0
      /\ \A i \in 1 .. Len(stack) : stack[i] \in Signals
  OBVIOUS
<1>2. \A i \in 1 .. Len(stack) - 1 : stack[i] \in Signals
  BY <1>1
<1>3. /\ SubSeq(stack, 1, Len(stack) - 1) \in Seq(Signals)
      /\ Len(SubSeq(stack, 1, Len(stack) - 1)) =
            IF 1 <= Len(stack) - 1 THEN Len(stack) - 1 - 1 + 1 ELSE 0
      /\ \A i \in 1 .. Len(stack) - 1 - 1 + 1 :
            SubSeq(stack, 1, Len(stack) - 1)[i] = stack[1 + i - 1]
  BY <1>1, <1>2, SubSeqProperties
<1>4. Len(SubSeq(stack, 1, Len(stack) - 1)) = Len(stack) - 1
  <2>1. CASE Len(stack) = 1
    BY <1>3, <2>1
  <2>2. CASE Len(stack) > 1
    <3>1. 1 <= Len(stack) - 1 /\ Len(stack) - 1 - 1 + 1 = Len(stack) - 1
      BY <1>1, <2>2
    <3>2. QED
      BY <1>3, <3>1, Zenon
  <2>3. Len(stack) = 1 \/ Len(stack) > 1
    <3>1. \A n \in Nat : n # 0 => n = 1 \/ n > 1
      OBVIOUS
    <3>2. QED
      BY <1>1, <3>1, Zenon
  <2>4. QED
    BY <2>1, <2>2, <2>3, Zenon
<1>5. ASSUME NEW i \in 1 .. Len(stack) - 1
      PROVE  SubSeq(stack, 1, Len(stack) - 1)[i] = stack[i]
  BY <1>1, <1>3
<1>6. QED
  BY <1>1, <1>3, <1>4, <1>5 DEF Innermost

(***************************************************************************)
(* What was checked is harmless, with composites too.                      *)
(***************************************************************************)

LEMMA CheckedInit == Init => CheckedInv
<1> SUFFICES ASSUME Init PROVE CheckedInv
  OBVIOUS
<1>1. TypeOK
  BY EmptySeq DEF Init, TypeOK
<1>2. GivenUp /\ Closed
  BY DEF Init, GivenUp, Closed
<1>3. CheckedIsHarmless
  BY DEF Init, CheckedIsHarmless, Circular
<1>4. QED
  BY <1>1, <1>2, <1>3 DEF CheckedInv

LEMMA CheckedStep == CheckedInv /\ [Next]_vars => CheckedInv'
<1> SUFFICES ASSUME CheckedInv, [Next]_vars PROVE CheckedInv'
  OBVIOUS
<1> USE DEF CheckedInv, TypeOK, GivenUp
<1>0. /\ network.deps \in [Signals -> SUBSET Signals]
      /\ network.roots \in [Components -> SUBSET Signals]
  BY NetworkTypes
<1>1. CASE Begin
  BY <1>1 DEF Begin, Closed, CheckedIsHarmless, Circular
<1>2. CASE VisitComponent
  BY <1>0, <1>2 DEF VisitComponent, Closed, CheckedIsHarmless, Circular
<1>3. CASE Report
  BY <1>3 DEF Report, Closed, CheckedIsHarmless, Circular
<1>4. CASE Descend
  BY <1>4 DEF Descend, New, Open, Closed, CheckedIsHarmless, Circular
<1>5. CASE Throw
  BY <1>5 DEF Throw, Closed, CheckedIsHarmless, Circular
<1>6. CASE Leave
  <2>1. Innermost \in Signals /\ network.deps[Innermost] \subseteq checked
    BY <1>0, <1>6, StackTop DEF Leave, AllReturned, Open
  <2>2. TypeOK'
    BY <1>6, <2>1, StackTop DEF Leave, Checked
  <2>3. Closed'
    BY <1>6, <2>1 DEF Leave, Checked, Closed
  <2>4. CheckedIsHarmless'
    <3> SUFFICES ASSUME NEW C \in SUBSET (checked \cup {Innermost}), Circular(C)
                 PROVE  FALSE
      BY <1>6 DEF Leave, Checked, CheckedIsHarmless, Circular
    <3>1. \A s \in C : network.deps[s] \cap C # {}
      BY DEF Circular
    <3>2. CASE C \subseteq checked
      BY <3>2 DEF CheckedIsHarmless
    <3>3. CASE Innermost \in C
      <4>1. \A s \in C : network.deps[s] \subseteq checked
        BY <2>1 DEF Closed
      <4>2. \A s \in C \cap checked : network.deps[s] \cap (C \cap checked) # {}
        BY <3>1, <4>1
      <4>3. C \cap checked # {}
        BY <3>1, <3>3, <4>1
      <4>4. QED
        BY <4>2, <4>3 DEF CheckedIsHarmless, Circular
    <3>4. QED
      BY <3>2, <3>3
  <2>5. QED
    BY <1>6, <2>2, <2>3, <2>4 DEF Leave
<1>7. CASE Finish
  BY <1>7 DEF Finish, Cleared, ComponentDone, Closed, CheckedIsHarmless, Circular
<1>8. CASE UNCHANGED vars
  BY <1>8 DEF vars, Closed, CheckedIsHarmless, Circular
<1>9. QED
  BY <1>1, <1>2, <1>3, <1>4, <1>5, <1>6, <1>7, <1>8 DEF Next

\* The type invariant: in particular no flag outlives a check.
THEOREM TypeCorrect == Spec => []TypeOK
<1>1. CheckedInv => TypeOK
  BY DEF CheckedInv
<1>2. QED
  BY CheckedInit, CheckedStep, <1>1, PTL DEF Spec

\* A signal that the checker will not look at again is on no cycle and in front
\* of none, whatever was given up before because of a composite.
THEOREM CheckedHarmless == Spec => []CheckedIsHarmless
<1>1. CheckedInv => CheckedIsHarmless
  BY DEF CheckedInv
<1>2. QED
  BY CheckedInit, CheckedStep, <1>1, PTL DEF Spec

(***************************************************************************)
(* The verdict, without composites.                                        *)
(***************************************************************************)

\* A signal that is met again on the stack closes a cycle: it and what was put on
\* the stack after it.
LEMMA MetAgain ==
    ASSUME TypeOK, Path, stack # <<>>,
           NEW k \in DOMAIN stack, stack[k] \in network.deps[Innermost]
    PROVE  HasCycle
<1> DEFINE C == {stack[i] : i \in k .. Len(stack)}
<1>1. /\ Len(stack) \in Nat /\ k \in 1 .. Len(stack)
      /\ \A i \in 1 .. Len(stack) : stack[i] \in Signals
  BY DEF TypeOK
<1>2. C \in SUBSET Signals /\ stack[k] \in C
  BY <1>1
<1>3. ASSUME NEW i \in k .. Len(stack) PROVE network.deps[stack[i]] \cap C # {}
  <2>1. CASE i = Len(stack)
    BY <1>2, <2>1 DEF Innermost
  <2>2. CASE i # Len(stack)
    <3>1. i \in 1 .. Len(stack) - 1 /\ i + 1 \in k .. Len(stack)
      BY <1>1, <2>2
    <3>2. stack[i + 1] \in network.deps[stack[i]] /\ stack[i + 1] \in C
      BY <3>1 DEF Path
    <3>3. QED
      BY <3>2
  <2>3. QED
    BY <2>1, <2>2
<1>4. Circular(C)
  BY <1>2, <1>3 DEF Circular
<1>5. QED
  BY <1>2, <1>4 DEF HasCycle

LEMMA VerdictInit == Init => VerdictInv
<1> SUFFICES ASSUME Init PROVE VerdictInv
  OBVIOUS
<1>1. CheckedInv
  BY CheckedInit
<1>2. Path /\ Checking
  BY DEF Init, Path, Checking, OnStack
<1>3. Visited /\ (cycle => HasCycle) /\ VerdictIsExact
  BY DEF Init, Visited, VerdictIsExact
<1>4. QED
  BY <1>1, <1>2, <1>3 DEF VerdictInv, SearchInv

LEMMA VerdictStep == VerdictInv /\ [Next]_vars => VerdictInv'
<1> SUFFICES ASSUME VerdictInv, [Next]_vars PROVE VerdictInv'
  OBVIOUS
<1>0. CheckedInv /\ TypeOK /\ GivenUp
  BY DEF VerdictInv, CheckedInv
<1>a. CheckedInv'
  BY <1>0, CheckedStep
<1>c. SUFFICES ASSUME Flat'
               PROVE  Path' /\ Checking' /\ Visited' /\ (cycle => HasCycle)' /\ VerdictIsExact'
  BY <1>a DEF VerdictInv, SearchInv, VerdictIsExact, Flat
<1>1. CASE Begin
  <2>1. stack' = <<>> /\ checking' = {} /\ cycle' = FALSE /\ todo' = Components /\ phase' = "search"
    BY <1>0, <1>1 DEF Begin, TypeOK
  <2>2. Path' /\ Checking'
    BY <2>1 DEF Path, Checking, OnStack
  <2>3. QED
    BY <2>1, <2>2 DEF Visited, VerdictIsExact
<1>d. SUFFICES ASSUME network' = network
      PROVE  Path' /\ Checking' /\ Visited' /\ (cycle => HasCycle)' /\ VerdictIsExact'
  BY <1>1 DEF Next, vars, VisitComponent, Report, Descend, Throw, Leave, Finish
<1>b. Flat /\ Path /\ Checking /\ Visited /\ (cycle => HasCycle) /\ VerdictIsExact
  BY <1>c, <1>d DEF VerdictInv, SearchInv, Flat
<1>2. CASE VisitComponent
  <2>1. Path' /\ Checking' /\ (cycle => HasCycle)'
    BY <1>2, <1>b DEF VisitComponent, Path, Checking, OnStack, HasCycle, Circular
  <2>2. Visited'
    BY <1>2, <1>b DEF VisitComponent, ComponentDone, Visited
  <2>3. QED
    BY <1>2, <2>1, <2>2 DEF VisitComponent, VerdictIsExact
<1>3. CASE Report
  <2>1. stack' = <<>> /\ cycle' = TRUE /\ phase' = "search" /\ network' = network
    BY <1>3 DEF Report
  <2>2. HasCycle
    <3>1. PICK s \in Open : s \in checking
      BY <1>3 DEF Report, OnPath
    <3>2. ~ cycle => s \in OnStack /\ stack # <<>>
      BY <3>1, <1>b DEF Checking, OnStack
    <3>3. CASE cycle
      BY <3>3, <1>b
    <3>4. CASE ~ cycle
      <4>1. PICK k \in DOMAIN stack : s = stack[k]
        BY <3>2, <3>4 DEF OnStack
      <4>2. QED
        BY <1>0, <1>b, <3>1, <3>2, <3>4, <4>1, MetAgain DEF Open
    <3>5. QED
      BY <3>3, <3>4
  <2>3. Path' /\ Checking' /\ Visited' /\ VerdictIsExact'
    BY <2>1 DEF Path, Checking, Visited, VerdictIsExact
  <2>4. QED
    BY <2>1, <2>2, <2>3 DEF HasCycle, Circular
<1>4. CASE Descend
  <2>1. PICK s \in Signals : New(s) /\ stack' = Append(stack, s) /\ checking' = checking \cup {s}
    BY <1>4 DEF Descend
  <2>2. ~ cycle
    BY <1>0, <2>1 DEF GivenUp, New, Open
  <2>3. /\ network' = network /\ cycle' = cycle /\ phase' = "search" /\ phase = "search"
        /\ todo' = todo /\ ports' = ports /\ checked' = checked
    BY <1>4 DEF Descend
  <2>4. /\ Len(stack) \in Nat /\ Len(stack') = Len(stack) + 1
        /\ \A i \in 1 .. Len(stack) : stack'[i] = stack[i]
        /\ stack'[Len(stack) + 1] = s
        /\ DOMAIN stack = 1 .. Len(stack) /\ DOMAIN stack' = 1 .. Len(stack) + 1
    <3>1. stack \in Seq(Signals)
      BY <1>0 DEF TypeOK
    <3>2. stack' \in Seq(Signals)
      BY <2>1, <3>1, AppendProperties
    <3>3. QED
      BY <2>1, <3>1, <3>2, AppendProperties
  <2>5. s \notin OnStack
    BY <1>b, <2>1, <2>2 DEF New, Checking
  <2>6. Path'
    <3>1. ASSUME NEW i \in 1 .. Len(stack)
          PROVE  stack'[i + 1] \in network'.deps[stack'[i]]
      <4>1. CASE i = Len(stack)
        <5>1. stack # <<>> /\ stack'[i + 1] = s /\ stack'[i] = Innermost
          BY <2>4, <4>1 DEF Innermost
        <5>2. QED
          BY <2>1, <2>3, <5>1 DEF New, Open
      <4>2. CASE i # Len(stack)
        <5>1. i \in 1 .. Len(stack) - 1 /\ i + 1 \in 1 .. Len(stack)
          <6>1. \A n \in Nat : \A k \in 1 .. n : k # n => k \in 1 .. n - 1 /\ k + 1 \in 1 .. n
            OBVIOUS
          <6>2. QED
            BY <2>4, <4>2, <6>1, Zenon
        <5>2. stack'[i + 1] = stack[i + 1] /\ stack'[i] = stack[i]
          BY <2>4, <5>1
        <5>3. QED
          BY <1>b, <2>3, <5>1, <5>2 DEF Path
      <4>3. QED
        BY <4>1, <4>2
    <3>2. ASSUME NEW i \in 1 .. Len(stack) + 1, NEW j \in 1 .. Len(stack) + 1,
                 stack'[i] = stack'[j]
          PROVE  i = j
      <4>1. \A k, l \in 1 .. Len(stack) : stack[k] = stack[l] => k = l
        BY <1>b, <2>4 DEF Path
      <4>2. \A k \in 1 .. Len(stack) : stack[k] # s
        BY <2>4, <2>5 DEF OnStack
      <4>3. \A k \in 1 .. Len(stack) + 1 : k \in 1 .. Len(stack) \/ k = Len(stack) + 1
        <5>1. \A n \in Nat : \A k \in 1 .. n + 1 : k \in 1 .. n \/ k = n + 1
          OBVIOUS
        <5>2. QED
          BY <2>4, <5>1, Zenon
      <4>4. CASE i \in 1 .. Len(stack) /\ j \in 1 .. Len(stack)
        BY <2>4, <3>2, <4>1, <4>4, Zenon
      <4>5. CASE i = Len(stack) + 1 \/ j = Len(stack) + 1
        BY <2>4, <3>2, <4>2, <4>3, <4>5, Zenon
      <4>6. QED
        BY <4>3, <4>4, <4>5
    <3>3. Len(stack') - 1 = Len(stack) /\ DOMAIN stack' = 1 .. Len(stack) + 1
      BY <2>4
    <3>4. QED
      BY <3>1, <3>2, <3>3, Zenon DEF Path
  <2>7. Checking'
    <3>1. OnStack' = OnStack \cup {s}
      BY <2>4 DEF OnStack
    <3>2. QED
      BY <1>b, <2>1, <2>2, <3>1 DEF Checking
  <2>8. Visited' /\ VerdictIsExact' /\ (cycle => HasCycle)'
    BY <1>b, <2>2, <2>3 DEF Visited, VerdictIsExact
  <2>9. QED
    BY <2>6, <2>7, <2>8
<1>5. CASE Throw
  BY <1>b, <1>5 DEF Throw, Flat
<1>6. CASE Leave
  <2>1. ~ cycle
    BY <1>0, <1>6 DEF GivenUp, Leave
  <2>2. /\ network' = network /\ cycle' = cycle /\ phase' = "search" /\ phase = "search"
        /\ todo' = todo /\ ports' = ports /\ checked \subseteq checked'
        /\ checking' = checking \ {Innermost}
    BY <1>6 DEF Leave, Checked
  <2>3. stack \in Seq(Signals) /\ stack # <<>>
    BY <1>0, <1>6 DEF Leave, TypeOK
  <2>4. /\ Len(stack) \in Nat /\ Len(stack) # 0 /\ Len(stack') = Len(stack) - 1
        /\ \A i \in 1 .. Len(stack) - 1 : stack'[i] = stack[i]
        /\ DOMAIN stack = 1 .. Len(stack) /\ DOMAIN stack' = 1 .. Len(stack) - 1
    <3>1. stack' \in Seq(Signals)
      BY <1>6, <2>3, StackTop DEF Leave
    <3>2. QED
      BY <1>6, <2>3, <3>1, StackTop DEF Leave
  <2>5. Path'
    BY <1>b, <2>2, <2>4 DEF Path
  <2>6. Checking'
    <3>1. OnStack' = OnStack \ {Innermost}
      BY <1>b, <2>4 DEF OnStack, Path, Innermost
    <3>2. QED
      BY <1>b, <2>1, <2>2, <3>1 DEF Checking
  <2>7. Visited' /\ VerdictIsExact' /\ (cycle => HasCycle)'
    BY <1>b, <2>1, <2>2 DEF Visited, VerdictIsExact
  <2>8. QED
    BY <2>5, <2>6, <2>7
<1>7. CASE Finish
  <2>1. /\ network' = network /\ cycle' = cycle /\ phase' = "done" /\ stack' = stack
        /\ checking' = {} /\ phase = "search"
    BY <1>7 DEF Finish
  <2>2. stack = <<>> /\ Path' /\ Checking' /\ Visited'
    BY <1>0, <1>b, <1>7, <2>1
    DEF Finish, ComponentDone, GivenUp, Path, Checking, OnStack, Visited
  <2>3. (cycle => HasCycle)'
    BY <1>b, <2>1 DEF HasCycle, Circular
  <2>4. ASSUME ~ cycle PROVE ~ HasCycle
    <3>1. todo = {} /\ ports \subseteq checked
      BY <1>7, <2>4 DEF Finish, ComponentDone
    <3>2. \A c \in Components : network.roots[c] \subseteq checked
      BY <1>b, <2>1, <2>4, <3>1 DEF Visited
    <3>3. Signals \subseteq checked
      BY <1>0, <3>2, NetworkTypes DEF TypeOK
    <3>4. QED
      BY <1>0, <3>3 DEF HasCycle, CheckedInv, CheckedIsHarmless
  <2>5. VerdictIsExact'
    BY <1>b, <2>1, <2>4 DEF VerdictIsExact, HasCycle, Circular
  <2>6. QED
    BY <2>2, <2>3, <2>5
<1>8. CASE UNCHANGED vars
  BY <1>8, <1>b DEF vars, Path, Checking, OnStack, Visited, VerdictIsExact, HasCycle, Circular
<1>9. QED
  BY <1>1, <1>2, <1>3, <1>4, <1>5, <1>6, <1>7, <1>8 DEF Next

\* Of a flattened network the check says that there is a cycle exactly if there is
\* one, however often and after whatever edits it is repeated, and whatever
\* composites other networks had.
THEOREM VerdictExact == Spec => []VerdictIsExact
<1>1. VerdictInv => VerdictIsExact
  BY DEF VerdictInv
<1>2. QED
  BY VerdictInit, VerdictStep, <1>1, PTL DEF Spec
==============================================================================
