--------------------------- MODULE MCBackendOutput ---------------------------
(***************************************************************************)
(* An instance of BackendOutput for TLC: a lane with more output than the  *)
(* buffers hold, and one that fails at the same time.                      *)
(***************************************************************************)
EXTENDS BackendOutput

CONSTANTS long, short

MCLanes == {long, short}
MCMaxLines == [l \in MCLanes |-> IF l = long THEN 3 ELSE 1]

(* Success, and the largest success and smallest failure of robocopy.      *)
MCExitCodes == {0, 7, 8}
==============================================================================
