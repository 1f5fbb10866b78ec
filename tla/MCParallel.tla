------------------------------ MODULE MCParallel ------------------------------
(***************************************************************************)
(* A call of parallel() with three items, and the semaphore it relies on,  *)
(* for TLC: when the call has returned threads use a semaphore of theirs.  *)
(***************************************************************************)
EXTENDS Parallel, Semaphore

CONSTANTS i1, i2, i3

ThreeItems == <<i1, i2, i3>>

ASSUME OneCaller
------------------------------------------------------------------------------
MCInit == ParallelInit /\ SemaphoreInit

MCNext ==
    \/ ParallelNext /\ UNCHANGED semaphoreVars
    \/ pc = "returned" /\ SemaphoreNext /\ UNCHANGED parallelVars

MCSpec == /\ MCInit /\ [][MCNext]_<<parallelVars, semaphoreVars>>
          /\ ParallelFairness /\ SemaphoreFairness
==============================================================================
