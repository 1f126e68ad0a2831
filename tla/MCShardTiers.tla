---------------------------- MODULE MCShardTiers ----------------------------
(***************************************************************************)
(* Small instances of ShardTiers.  Each run chooses the tasks that race    *)
(* (Actors) and the sizes; time is measured in ticks of the controller.    *)
(***************************************************************************)
EXTENDS ShardTiers

CONSTANTS C, D  \* two drives

\* A drive without a floor beside one with min_tier = "WARM".
MCMinTier == [d \in Drives |-> IF d = C THEN "Warm" ELSE "none"]

MCOneThreshold == {[Hot |-> 1, Warm |-> 1, Parked |-> 1]}

=============================================================================
