------------------------------- MODULE MCMemory -------------------------------
(***************************************************************************)
(* The containers, and the memory pools, which keep their pages and delayed *)
(* functions in them: one of the two in each behaviour.                     *)
(***************************************************************************)
EXTENDS IntrusiveContainers, MemoryPool, TLC

VARIABLE part

MCInit == part \in {"containers", "pools"} /\ Init /\ PoolInit

MCNext ==
    \/ part = "containers" /\ Next /\ UNCHANGED <<part, poolVars>>
    \/ part = "pools" /\ PoolNext /\ UNCHANGED <<part, vars>>

MCSpec == MCInit /\ [][MCNext]_<<part, vars, poolVars>>

Symmetry == Permutations(Elements)

\* What tells states apart: not the last operation, nor what was in pages nobody has.
InUse == ToSet(world.newPool) \cup UNION {Held(p) : p \in Pools}
Matters == <<part, mem, astray, [world EXCEPT !.page = [a \in InUse |-> @[a]]], statuses, doing,
             failed, buried>>
===============================================================================
