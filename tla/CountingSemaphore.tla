-------------------------- MODULE CountingSemaphore --------------------------
(***************************************************************************)
(* What a semaphore promises its callers: permits are neither invented nor *)
(* lost, a caller that finds none is blocked, and a permit is not left     *)
(* lying while somebody is blocked for it.  Nothing is said of mutexes,    *)
(* condition variables or of the order in which callers are served.        *)
(***************************************************************************)
EXTENDS Naturals

CONSTANTS Threads,        \* the threads that share the semaphore
          InitialValue,   \* permits at construction
          MaxCount        \* bound on the permits (the width of int in the code)

VARIABLES value,          \* permits available
          blocked         \* threads inside wait() that have not got a permit

absVars == <<value, blocked>>

AbsInit == value = InitialValue /\ blocked = {}

\* signal(): one more permit.
Up == value < MaxCount /\ value' = value + 1 /\ UNCHANGED blocked

\* wait() that finds a permit at once; it may overtake blocked threads.
Down(t) ==
    /\ t \notin blocked
    /\ value > 0
    /\ value' = value - 1
    /\ UNCHANGED blocked

\* wait() that finds none.
Block(t) ==
    /\ value = 0
    /\ t \notin blocked
    /\ blocked' = blocked \cup {t}
    /\ UNCHANGED value

\* a blocked thread gets a permit and leaves wait().
Unblock(t) ==
    /\ t \in blocked
    /\ value > 0
    /\ value' = value - 1
    /\ blocked' = blocked \ {t}

AbsNext == Up \/ \E t \in Threads : Down(t) \/ Block(t) \/ Unblock(t)

AbsSafeSpec == AbsInit /\ [][AbsNext]_absVars

\* Permits that stay available while threads stay blocked are handed out.
AbsSpec == AbsSafeSpec /\ WF_absVars(\E t \in Threads : Unblock(t))
==============================================================================
