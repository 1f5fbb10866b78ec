----------------------------- MODULE CycleChecker -----------------------------
(***************************************************************************)
(* The combinatorial cycle checker of xmv/vt/cycle.cpp: a depth-first      *)
(* search through the dependencies of the handshake signals.  The flags    *)
(* of the search are extensions of the ports and stay there until the end  *)
(* of a check, when they are removed; the network may be edited before the *)
(* next check.  A visitor that meets a composite throws, and the caller    *)
(* that visits component after component catches it.                       *)
(*                                                                         *)
(* A network is a record: the signals that each signal depends on, the     *)
(* signals of the ports of each component, and the signals that a          *)
(* composite drives.  The order in which the code walks through them does  *)
(* not matter to the verdict and is left open.                             *)
(***************************************************************************)
EXTENDS Integers, Sequences

CONSTANTS Signals, Components, Views

ASSUME NetworksAssumption ==
    \A n \in Views :
        /\ n.deps \in [Signals -> SUBSET Signals]
        /\ n.roots \in [Components -> SUBSET Signals]
        /\ n.composite \in SUBSET Signals
        \* each signal is at a port of a component
        /\ \A s \in Signals : \E c \in Components : s \in n.roots[c]

VARIABLES network,    \* the network that is being checked
          todo,       \* the components that were not visited yet
          ports,      \* the signals of the component that is visited
          stack,      \* the signals that checkSignal is called for, outermost first
          checking,   \* signals whose flag "checking" is set
          checked,    \* signals whose flag "checked" is set
          cycle,      \* the verdict
          phase       \* "idle" before the first check, "search", "done"

vars == <<network, todo, ports, stack, checking, checked, cycle, phase>>

Init ==
    /\ network \in Views
    /\ todo = {} /\ ports = {} /\ stack = <<>>
    /\ checking = {} /\ checked = {}
    /\ cycle = FALSE
    /\ phase = "idle"
------------------------------------------------------------------------------
\* A check begins, of a network that may have been edited since the last one.
Begin ==
    /\ phase # "search"
    /\ network' \in Views
    /\ todo' = Components
    /\ cycle' = FALSE
    /\ phase' = "search"
    /\ UNCHANGED <<ports, stack, checking, checked>>

\* All signals of the component were checked.
ComponentDone == stack = <<>> /\ ports \subseteq checked

\* cycle = cycle || CombinatorialCycleDetector(c).
VisitComponent ==
    /\ phase = "search" /\ ComponentDone /\ ~ cycle
    /\ \E c \in todo :
          /\ todo' = todo \ {c}
          /\ ports' = network.roots[c]
    /\ UNCHANGED <<network, stack, checking, checked, cycle, phase>>

Innermost == stack[Len(stack)]

\* The signals that checkSignal is called for next.  A call for a signal that was
\* checked returns at once and is no step of its own.
Open == IF stack = <<>> THEN ports ELSE network.deps[Innermost]

\* Mutant of OnPath: any signal that was met before closes a cycle.
OnPathOrDone(s) == s \in checking \cup checked

OnPath(s) == s \in checking

\* A signal of the current search: a cycle, and all calls return true.
Report ==
    /\ phase = "search"
    /\ \E s \in Open : OnPath(s)
    /\ stack' = <<>>
    /\ ports' = {}
    /\ cycle' = TRUE
    /\ UNCHANGED <<network, todo, checking, checked, phase>>

New(s) == s \in Open /\ s \notin checking \cup checked

\* A new signal: its dependencies are next.
Descend ==
    /\ phase = "search"
    /\ \E s \in Signals :
          /\ New(s) /\ s \notin network.composite
          /\ stack' = Append(stack, s)
          /\ checking' = checking \cup {s}
    /\ UNCHANGED <<network, todo, ports, checked, cycle, phase>>

\* The visitor throws; CombinatorialCycleDetector(c) catches and returns false.
Throw ==
    /\ phase = "search"
    /\ \E s \in Signals :
          /\ New(s) /\ s \in network.composite
          /\ checking' = checking \cup {s}
    /\ stack' = <<>>
    /\ ports' = {}
    /\ UNCHANGED <<network, todo, checked, cycle, phase>>

Checked == checked \cup {Innermost}

\* Mutant of AllReturned: the loop stops at the first call that returns.
FirstReturned == Open = {} \/ Open \cap checked # {}

\* The calls for all dependencies of the innermost signal returned false.
AllReturned == Open \subseteq checked

\* No dependency of the innermost signal is on a cycle: its call returns false.
Leave ==
    /\ phase = "search" /\ stack # <<>>
    /\ AllReturned
    /\ stack' = SubSeq(stack, 1, Len(stack) - 1)
    /\ checking' = checking \ {Innermost}
    /\ checked' = Checked
    /\ UNCHANGED <<network, todo, ports, cycle, phase>>

Cleared == {}

\* The flags of all ports are removed and the verdict is returned.
Finish ==
    /\ phase = "search"
    /\ cycle \/ (todo = {} /\ ComponentDone)
    /\ checking' = {}
    /\ checked' = Cleared
    /\ ports' = {}
    /\ phase' = "done"
    /\ UNCHANGED <<network, todo, stack, cycle>>

Next == Begin \/ VisitComponent \/ Report \/ Descend \/ Throw \/ Leave \/ Finish

Spec == Init /\ [][Next]_vars
------------------------------------------------------------------------------
TypeOK ==
    /\ network \in Views
    /\ todo \in SUBSET Components
    /\ ports \in SUBSET Signals
    /\ stack \in Seq(Signals)
    /\ checking \in SUBSET Signals
    /\ checked \in SUBSET Signals
    /\ cycle \in BOOLEAN
    /\ phase \in {"idle", "search", "done"}
    \* no flag outlives a check
    /\ phase # "search" => stack = <<>> /\ ports = {} /\ checking = {} /\ checked = {}

\* A set of signals each of which needs another one of the set: in a finite
\* network, signals on or in front of a cycle.
Circular(C) ==
    /\ C # {} /\ C \subseteq Signals
    /\ \A s \in C : network.deps[s] \cap C # {}

HasCycle == \E C \in SUBSET Signals : Circular(C)

\* When a check of a network without composites has ended its verdict is right:
\* there is a cycle exactly if it says so, whatever was checked before.  (With a
\* composite it may be a false alarm: the exception leaves the flags of its path, and
\* the search of the next component takes them for its own.)
VerdictIsExact ==
    phase = "done" /\ network.composite = {} => (cycle <=> HasCycle)

\* What was checked is in no cycle and in front of none, however the searches of
\* the components overlap.
CheckedIsHarmless == \A C \in SUBSET checked : ~ Circular(C)
==============================================================================
