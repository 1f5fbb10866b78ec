--------------------------- MODULE AbstractParallel ---------------------------
(***************************************************************************)
(* What bitpowder::lib::parallel(items) promises its caller: each item is  *)
(* executed once, and the call returns after the last of them.  Nothing is *)
(* said of queues, runners or reference counts.                            *)
(***************************************************************************)
CONSTANT Work          \* the items to execute

VARIABLES done,        \* items that were executed
          returned     \* the call is over

absVars == <<done, returned>>

AbsInit == done = {} /\ returned = FALSE

ExecuteItem(i) ==
    /\ i \in Work \ done
    /\ ~ returned
    /\ done' = done \cup {i}
    /\ UNCHANGED returned

Return ==
    /\ done = Work
    /\ returned' = TRUE
    /\ UNCHANGED done

AbsNext == Return \/ \E i \in Work : ExecuteItem(i)

AbsSafeSpec == AbsInit /\ [][AbsNext]_absVars

AbsSpec == AbsSafeSpec /\ WF_absVars(AbsNext)
==============================================================================
