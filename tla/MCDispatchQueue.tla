--------------------------- MODULE MCDispatchQueue ---------------------------
(***************************************************************************)
(* DispatchQueue for TLC: a queue with several runners, each of which takes *)
(* an item at a time, and in behaviours of their own one with a single      *)
(* runner, which takes all there are.                                       *)
(***************************************************************************)
EXTENDS DispatchQueue

VARIABLE batches   \* does the queue have a single runner?

Single == INSTANCE DispatchQueue WITH MaximumExecuting <- 1

MCInit == Init /\ batches \in BOOLEAN

MCNext ==
    \/ ~ batches /\ Next /\ UNCHANGED batches
    \/ batches /\ Single!Next /\ UNCHANGED batches

MCRun(r) == IF batches THEN Single!Run(r) ELSE Run(r)

MCSpec ==
    /\ MCInit /\ [][MCNext]_<<queueVars, batches>>
    /\ \A t \in Clients \cup Runners : WF_queueVars(DispatchSelf(t))
    /\ \A r \in Runners : WF_queueVars(MCRun(r))

\* The items of a batch finish in the order in which they were queued, also those behind
\* one that throws, and also when the queue was paused and started again meanwhile: the
\* loop over the local queue in execute().
BatchesInOrder == batches => Single!InOrder
==============================================================================
