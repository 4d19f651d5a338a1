----------------------------- MODULE MCLiveFeed ------------------------------
(***************************************************************************)
(* Instances of LiveFeed for TLC.                                          *)
(***************************************************************************)
EXTENDS LiveFeed

CONSTANTS films, books

(* Cards affect one another only through a cancelled run or a lane that    *)
(* raised, so each run has one job, the same one as before or another.     *)
MCBatches == {{films}, {books}}
MCLane == [j \in Jobs |-> "local"]
==============================================================================
