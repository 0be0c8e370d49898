---------------------------- MODULE MCUserLists ----------------------------
(* Instances of UserLists for TLC.  A browser that is closed, and a disk     *)
(* that refuses a delete or a read, come in different behaviours.            *)
EXTENDS UserLists

CONSTANTS ads, news

VARIABLE hard

Interchangeable == Permutations(Urls)

MCInit == Init /\ hard \in {"exit", "disk"}

Within ==
  IF hard = "disk"
    THEN exits' = 0
    ELSE /\ building'.missed = {}
         /\ \A u \in Urls : deletes'[u] < deletes[u] /\ exits' = exits => file'[u] = 0

MCNext == Next /\ Within /\ UNCHANGED hard
MCSpec == MCInit /\ [][MCNext]_<<vars, hard>> /\ Fairness

\* With a disk that refuses nothing.
RemovedSpec == MCInit /\ hard = "exit" /\ [][MCNext]_<<vars, hard>>
=============================================================================
